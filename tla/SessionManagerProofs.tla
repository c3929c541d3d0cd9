------------------------ MODULE SessionManagerProofs ------------------------
(***************************************************************************)
(* Proofs about SessionManager and what it implements, for every number of *)
(* descriptors, batch size and bound, and whether or not the kernel gives  *)
(* out numbers that are still queued (FdReuse).                            *)
(***************************************************************************)
EXTENDS SessionManagerService, FiniteSetTheorems, SequenceTheorems, TLAPS

-----------------------------------------------------------------------------
(* Lemmas about deques. *)

\* push_back adds one element, and keeps a deque free of repetitions when the
\* element is new (m_createServerSessionDeque, m_createClientSessionDeque).
LEMMA AppendDeque ==
    ASSUME NEW S, NEW q \in Seq(S), NEW e \in S
    PROVE  /\ Append(q, e) \in Seq(S)
           /\ Len(Append(q, e)) = Len(q) + 1
           /\ Range(Append(q, e)) = Range(q) \cup {e}
           /\ IsInjective(q) /\ e \notin Range(q) => IsInjective(Append(q, e))
<1>1. /\ Append(q, e) \in Seq(S)
      /\ Len(Append(q, e)) = Len(q) + 1
      /\ \A i \in 1..Len(q) : Append(q, e)[i] = q[i]
      /\ Append(q, e)[Len(q) + 1] = e
      /\ DOMAIN q = 1..Len(q) /\ Len(q) \in Nat
      /\ DOMAIN Append(q, e) = 1..(Len(q) + 1)
  OBVIOUS
<1>2. Range(Append(q, e)) = Range(q) \cup {e}
  <2>1. ASSUME NEW x \in Range(Append(q, e)) PROVE x \in Range(q) \cup {e}
    <3>1. PICK i \in 1..(Len(q) + 1) : x = Append(q, e)[i]
      BY <1>1 DEF Range
    <3>2. CASE i = Len(q) + 1  BY <3>1, <3>2, <1>1
    <3>3. CASE i \in 1..Len(q)  BY <3>1, <3>3, <1>1 DEF Range
    <3> QED BY <1>1, <3>2, <3>3
  <2>2. ASSUME NEW x \in Range(q) PROVE x \in Range(Append(q, e))
    <3>1. PICK i \in 1..Len(q) : x = q[i]  BY <1>1 DEF Range
    <3>2. i \in 1..(Len(q) + 1) /\ x = Append(q, e)[i]  BY <3>1, <1>1
    <3> QED BY <3>2, <1>1 DEF Range
  <2>3. e \in Range(Append(q, e))
    <3>1. Len(q) + 1 \in 1..(Len(q) + 1)  BY <1>1
    <3> QED BY <3>1, <1>1 DEF Range
  <2> QED BY <2>1, <2>2, <2>3
<1>3. ASSUME IsInjective(q), e \notin Range(q) PROVE IsInjective(Append(q, e))
  <2> SUFFICES ASSUME NEW i \in 1..(Len(q) + 1), NEW j \in 1..(Len(q) + 1),
                      Append(q, e)[i] = Append(q, e)[j]
               PROVE  i = j
    BY <1>1 DEF IsInjective
  <2>1. \A k \in 1..Len(q) : Append(q, e)[k] # e
    BY <1>1, <1>3 DEF Range
  <2>2. CASE i \in 1..Len(q) /\ j \in 1..Len(q)
    BY <2>2, <1>1, <1>3 DEF IsInjective
  <2>3. CASE i = Len(q) + 1 \/ j = Len(q) + 1
    BY <2>1, <2>3, <1>1
  <2> QED BY <2>2, <2>3, <1>1
<1> QED BY <1>1, <1>2, <1>3

\* pop_front removes the front element and nothing else.
LEMMA TailDeque ==
    ASSUME NEW S, NEW q \in Seq(S), q # <<>>, IsInjective(q)
    PROVE  /\ Head(q) \in S /\ Head(q) \in Range(q)
           /\ Tail(q) \in Seq(S)
           /\ Len(Tail(q)) = Len(q) - 1
           /\ Range(Tail(q)) = Range(q) \ {Head(q)}
           /\ IsInjective(Tail(q))
<1>1. /\ Head(q) \in S /\ Tail(q) \in Seq(S) /\ Len(Tail(q)) = Len(q) - 1
      /\ \A i \in 1..Len(Tail(q)) : Tail(q)[i] = q[i + 1]
  BY HeadTailProperties
<1>2. /\ Len(q) \in Nat \ {0} /\ DOMAIN q = 1..Len(q)
      /\ DOMAIN Tail(q) = 1..(Len(q) - 1)
  BY <1>1, EmptySeq, LenProperties
<1>3. Head(q) = q[1] /\ 1 \in DOMAIN q
  BY <1>2
<1>4. IsInjective(Tail(q))
  <2> SUFFICES ASSUME NEW i \in 1..(Len(q) - 1), NEW j \in 1..(Len(q) - 1),
                      Tail(q)[i] = Tail(q)[j]
               PROVE  i = j
    BY <1>2 DEF IsInjective
  <2>1. q[i + 1] = q[j + 1] /\ i + 1 \in DOMAIN q /\ j + 1 \in DOMAIN q
    BY <1>1, <1>2
  <2>2. i + 1 = j + 1  BY <2>1 DEF IsInjective
  <2> QED BY <2>2
<1>5. Range(Tail(q)) = Range(q) \ {Head(q)}
  <2>1. ASSUME NEW x \in Range(Tail(q)) PROVE x \in Range(q) \ {Head(q)}
    <3>1. PICK i \in 1..(Len(q) - 1) : x = Tail(q)[i]  BY <1>2 DEF Range
    <3>2. x = q[i + 1] /\ i + 1 \in DOMAIN q /\ i + 1 # 1  BY <3>1, <1>1, <1>2
    <3>3. x # q[1]  BY <3>2, <1>3 DEF IsInjective
    <3> QED BY <3>2, <3>3, <1>3 DEF Range
  <2>2. ASSUME NEW x \in Range(q) \ {Head(q)} PROVE x \in Range(Tail(q))
    <3>1. PICK i \in 1..Len(q) : x = q[i]  BY <1>2 DEF Range
    <3>2. i # 1  BY <3>1, <2>2, <1>3
    <3>3. i - 1 \in 1..(Len(q) - 1) /\ (i - 1) + 1 = i  BY <3>1, <3>2, <1>2
    <3>4. Tail(q)[i - 1] = x  BY <3>1, <3>3, <1>1
    <3> QED BY <3>3, <3>4, <1>2 DEF Range
  <2> QED BY <2>1, <2>2
<1> QED BY <1>1, <1>3, <1>4, <1>5, <1>2 DEF Range

\* One allocation batch: CREATE_SESSION_NUM consecutive IDs above m_generateID.
LEMMA Batch ==
    ASSUME generateID \in 0..MaxID, CanAllocate
    PROVE  /\ NewIDs \in Seq(ID)
           /\ Len(NewIDs) = CreateSessionNum
           /\ NewIDs # <<>>
           /\ IsInjective(NewIDs)
           /\ Range(NewIDs) = (generateID + 1)..(generateID + CreateSessionNum)
           /\ Range(NewIDs) \subseteq ID
           /\ IsFiniteSet(Range(NewIDs))
           /\ Cardinality(Range(NewIDs)) = CreateSessionNum
           /\ generateID + CreateSessionNum \in 0..MaxID
<1> USE CreateAssumption, BoundAssumption
<1>1. \A i \in 1..CreateSessionNum : generateID + i \in ID
  BY DEF CanAllocate, ID
<1>2. NewIDs \in [1..CreateSessionNum -> ID]
  BY <1>1 DEF NewIDs
<1>3. NewIDs \in Seq(ID) /\ Len(NewIDs) = CreateSessionNum
      /\ DOMAIN NewIDs = 1..CreateSessionNum
  BY <1>2
<1>4. IsInjective(NewIDs)
  BY <1>3 DEF IsInjective, NewIDs
<1>5. Range(NewIDs) = (generateID + 1)..(generateID + CreateSessionNum)
  <2>1. ASSUME NEW x \in (generateID + 1)..(generateID + CreateSessionNum)
        PROVE  x \in Range(NewIDs)
    <3>1. x - generateID \in 1..CreateSessionNum /\ generateID + (x - generateID) = x
      OBVIOUS
    <3>2. NewIDs[x - generateID] = x  BY <3>1 DEF NewIDs
    <3> QED BY <3>1, <3>2, <1>3 DEF Range
  <2>2. ASSUME NEW x \in Range(NewIDs)
        PROVE  x \in (generateID + 1)..(generateID + CreateSessionNum)
    BY <1>3 DEF Range, NewIDs
  <2> QED BY <2>1, <2>2
<1>6. IsFiniteSet(Range(NewIDs)) /\ Cardinality(Range(NewIDs)) = CreateSessionNum
  BY <1>5, FS_Interval
<1>7. NewIDs # <<>>
  BY <1>3
<1>8. Range(NewIDs) \subseteq ID
  BY <1>5 DEF CanAllocate, ID
<1> QED BY <1>3, <1>4, <1>5, <1>6, <1>7, <1>8 DEF CanAllocate

-----------------------------------------------------------------------------
(* Containers and counters. *)

\* The containers start empty.
LEMMA PoolInit == Init => PoolInv
<1> SUFFICES ASSUME Init PROVE PoolInv
  OBVIOUS
<1> USE BoundAssumption
<1>1. TypeOK
  BY DEF Init, TypeOK, Phases
<1>2. Range(<<>>) = {} /\ IsInjective(<<>>)
  BY DEF Range, IsInjective
<1>3. Cardinality({}) = 0
  BY FS_EmptySet
<1> QED BY <1>1, <1>2, <1>3
        DEF Init, PoolInv, IDsAllocated, SocketsHeld, ServerSessionsPartitioned,
            ClientSessionsDisjoint, CountersAgree

\* A step that leaves the containers and counters alone only has types and
\* sockets to keep.
LEMMA PoolFrame ==
    ASSUME PoolInv, TypeOK', SocketsHeld',
           UNCHANGED <<poolVars, serverVars, createClientDeque, clientMap>>
    PROVE  PoolInv'
BY DEF PoolInv, poolVars, serverVars, IDsAllocated,
       ServerSessionsPartitioned, ClientSessionsDisjoint, CountersAgree

\* Closing a live session keeps the types of what it changes, and SocketsHeld.
LEMMA CloseSockets ==
    ASSUME TypeOK, SocketsHeld, NEW s \in ID, alive[s], Close(s),
           UNCHANGED <<serverObj, clientObj>>
    PROVE  /\ sock' \in [ID -> Fd \cup {NoFd}]
           /\ alive' \in [ID -> BOOLEAN]
           /\ allWork' \in [Fd -> ID \cup {NoSession}]
           /\ invalid' \in Seq(Fd)
           /\ epoll' \in SUBSET ID
           /\ SocketsHeld'
<1>1. sock[s] \in Fd
  BY DEF TypeOK, SocketsHeld
<1> QED BY <1>1 DEF TypeOK, SocketsHeld, Close

\* So does giving a session a socket.
LEMMA WatchSockets ==
    ASSUME TypeOK, SocketsHeld, NEW s \in ID, NEW f \in Fd, Watch(s, f),
           s \in serverObj' \cup clientObj',
           serverObj \cup clientObj \subseteq serverObj' \cup clientObj'
    PROVE  /\ sock' \in [ID -> Fd \cup {NoFd}]
           /\ alive' \in [ID -> BOOLEAN]
           /\ allWork' \in [Fd -> ID \cup {NoSession}]
           /\ invalid' \in Seq(Fd)
           /\ epoll' \in SUBSET ID
           /\ SocketsHeld'
<1>1. f # NoFd
  BY FdAssumption
<1> QED BY <1>1 DEF TypeOK, SocketsHeld, Watch

\* createClientSession: the object taken is a client's and in no container.
LEMMA TakeClient ==
    ASSUME PoolInv, NEW s \in ID, TakeClientSession(s)
    PROVE  /\ createClientDeque' \in Seq(ID) /\ IsInjective(createClientDeque')
           /\ generateID' \in 0..MaxID /\ generateID <= generateID'
           /\ clientObj' \in SUBSET ID /\ clientObj \subseteq clientObj'
           /\ serverObj \cup clientObj' \subseteq 1..generateID'
           /\ serverObj \cap clientObj' = {}
           /\ s \in clientObj' /\ s \notin clientMap
           /\ Range(createClientDeque') \subseteq clientObj'
           /\ Range(createClientDeque') \cap (clientMap \cup {s}) = {}
           /\ Range(createClientDeque') \cup {s} \subseteq
                  Range(createClientDeque) \cup (ID \ (serverObj \cup clientObj))
<1> USE DEF PoolInv, TypeOK, IDsAllocated, ClientSessionsDisjoint
<1>1. CASE createClientDeque = <<>>
  <2>1. /\ CanAllocate /\ s = Head(NewIDs) /\ createClientDeque' = Tail(NewIDs)
        /\ clientObj' = clientObj \cup Range(NewIDs)
        /\ generateID' = generateID + CreateSessionNum
    BY <1>1 DEF TakeClientSession
  <2>2. /\ NewIDs \in Seq(ID) /\ NewIDs # <<>> /\ IsInjective(NewIDs)
        /\ Range(NewIDs) = (generateID + 1)..(generateID + CreateSessionNum)
        /\ Range(NewIDs) \subseteq ID
        /\ generateID + CreateSessionNum \in 0..MaxID
    BY <2>1, Batch
  <2>3. /\ s \in Range(NewIDs)
        /\ Tail(NewIDs) \in Seq(ID) /\ IsInjective(Tail(NewIDs))
        /\ Range(Tail(NewIDs)) = Range(NewIDs) \ {s}
    BY <2>1, <2>2, TailDeque
  <2>4. Range(NewIDs) \cap (serverObj \cup clientObj) = {}
    BY <2>2
  <2>5. /\ generateID <= generateID' /\ 1..generateID \subseteq 1..generateID'
        /\ Range(NewIDs) \subseteq 1..generateID'
    BY <2>1, <2>2, CreateAssumption, BoundAssumption
  <2> HIDE DEF PoolInv, TypeOK
  <2>6. /\ serverObj \cup clientObj \subseteq 1..generateID
        /\ serverObj \cap clientObj = {} /\ clientMap \subseteq clientObj
        /\ clientObj \in SUBSET ID
    BY DEF PoolInv, TypeOK
  <2> QED BY <2>1, <2>2, <2>3, <2>4, <2>5, <2>6
<1>2. CASE createClientDeque # <<>>
  <2>1. /\ s = Head(createClientDeque)
        /\ createClientDeque' = Tail(createClientDeque)
        /\ UNCHANGED <<clientObj, generateID>>
    BY <1>2 DEF TakeClientSession
  <2>2. /\ s \in Range(createClientDeque)
        /\ Tail(createClientDeque) \in Seq(ID) /\ IsInjective(Tail(createClientDeque))
        /\ Range(Tail(createClientDeque)) = Range(createClientDeque) \ {s}
    BY <1>2, <2>1, TailDeque
  <2> QED BY <2>1, <2>2
<1> QED BY <1>1, <1>2

\* A client session is taken from its deque, used or put back.
LEMMA PoolClientConnect ==
    ASSUME PoolInv, NEW s \in ID, NEW f \in Fd,
           \/ ClientConnect(s, f)
           \/ \E live \in BOOLEAN : ClientConnectFail(s, f, live)
           \/ ClientConnectUnwatched(s, f)
    PROVE  PoolInv'
<1>1. TakeClientSession(s) /\ UNCHANGED <<serverObj, createNum, serverVars, taskQueue, ready, phase>>
  BY DEF ClientConnect, ClientConnectFail, ClientConnectUnwatched, TakeClientSession
<1>2. /\ sock' \in [ID -> Fd \cup {NoFd}] /\ alive' \in [ID -> BOOLEAN]
      /\ allWork' \in [Fd -> ID \cup {NoSession}]
      /\ invalid' \in Seq(Fd) /\ epoll' \in SUBSET ID
      /\ SocketsHeld'
  <2>1. s \in clientObj' /\ clientObj \subseteq clientObj'
    BY <1>1, TakeClient
  <2>2. CASE ClientConnect(s, f)
    BY <1>1, <2>1, <2>2, WatchSockets DEF ClientConnect, PoolInv
  <2>3. CASE \E live \in BOOLEAN : ClientConnectFail(s, f, live)
    BY <1>1, <2>1, <2>3, FdAssumption DEF ClientConnectFail, PoolInv, TypeOK, SocketsHeld
  <2>4. CASE ClientConnectUnwatched(s, f)
    BY <1>1, <2>1, <2>4, FdAssumption
       DEF ClientConnectUnwatched, PoolInv, TypeOK, SocketsHeld
  <2> QED BY <2>2, <2>3, <2>4
<1>3. /\ clientMap' = clientMap \/ clientMap' = clientMap \cup {s}
      /\ netIO' = netIO \/ netIO' = netIO \cup {s}
  BY DEF ClientConnect, ClientConnectFail, ClientConnectUnwatched
<1>4. TypeOK'
  BY <1>1, <1>2, <1>3, TakeClient DEF PoolInv, TypeOK, serverVars
<1>5. ServerSessionsPartitioned' /\ CountersAgree'
  BY <1>1 DEF PoolInv, ServerSessionsPartitioned, CountersAgree, serverVars
<1>6. IDsAllocated' /\ ClientSessionsDisjoint'
  BY <1>1, <1>3, TakeClient DEF PoolInv, IDsAllocated, ClientSessionsDisjoint
<1> QED BY <1>2, <1>4, <1>5, <1>6 DEF PoolInv

\* createServerSession takes a session or creates a batch.
LEMMA PoolCreateServer ==
    ASSUME PoolInv, CreateServerSession
    PROVE  PoolInv'
<1> DEFINE fill  == spareNum = 0
           deque == IF fill THEN createServerDeque \o NewIDs ELSE createServerDeque
           h     == Head(deque)
<1>0. /\ TypeOK /\ IDsAllocated /\ ServerSessionsPartitioned
      /\ ClientSessionsDisjoint /\ CountersAgree
  BY DEF PoolInv
<1>1. /\ prep = {} /\ prep' = {h} /\ createServerDeque' = Tail(deque)
      /\ fill => CanAllocate
      /\ spareNum' = (IF fill THEN spareNum + CreateSessionNum ELSE spareNum) - 1
      /\ generateID' = IF fill THEN generateID + CreateSessionNum ELSE generateID
      /\ createNum' = IF fill THEN createNum + CreateSessionNum ELSE createNum
      /\ serverObj' = IF fill THEN serverObj \cup Range(NewIDs) ELSE serverObj
      /\ UNCHANGED <<phase, clientObj, serverMap, releaseMap, aliveNum,
                     clientVars, ioVars, ready, taskQueue>>
  BY DEF CreateServerSession
<1>2. /\ deque \in Seq(ID) /\ deque # <<>> /\ IsInjective(deque)
      /\ Len(deque) = IF fill THEN spareNum + CreateSessionNum ELSE spareNum
      /\ serverObj' = Range(deque) \cup serverMap \cup releaseMap
      /\ Range(deque) \cap (serverMap \cup releaseMap \cup clientObj) = {}
      /\ serverObj' \in SUBSET ID /\ generateID' \in 0..MaxID
      /\ serverObj' \cup clientObj \subseteq 1..generateID'
      /\ createNum' = Cardinality(serverObj')
  <2>1. CASE fill
    <3>1. createServerDeque = <<>>
      BY <1>0, <2>1, EmptySeq DEF CountersAgree, TypeOK
    <3>2. /\ NewIDs \in Seq(ID) /\ NewIDs # <<>> /\ IsInjective(NewIDs)
          /\ Len(NewIDs) = CreateSessionNum
          /\ Range(NewIDs) = (generateID + 1)..(generateID + CreateSessionNum)
          /\ Range(NewIDs) \subseteq ID
          /\ IsFiniteSet(Range(NewIDs)) /\ Cardinality(Range(NewIDs)) = CreateSessionNum
          /\ generateID + CreateSessionNum \in 0..MaxID
      BY <1>0, <1>1, <2>1, Batch DEF TypeOK
    <3>3. deque = NewIDs
      BY <2>1, <3>1, <3>2, ConcatEmptySeq
    <3>4. Range(NewIDs) \cap (serverObj \cup clientObj) = {}
      BY <1>0, <3>2 DEF IDsAllocated, TypeOK
    <3>5. Range(createServerDeque) = {}
      BY <3>1 DEF Range
    <3>6. serverObj = serverMap \cup releaseMap
      BY <1>0, <1>1, <3>5 DEF ServerSessionsPartitioned
    <3>7. IsFiniteSet(serverObj)
      <4>1. IsFiniteSet(ID)  BY BoundAssumption, FS_Interval DEF ID
      <4> QED BY <4>1, <1>0, FS_Subset DEF TypeOK
    <3>8. Cardinality(serverObj \cup Range(NewIDs)) = Cardinality(serverObj) + CreateSessionNum
      <4>1. Cardinality({}) = 0  BY FS_EmptySet
      <4>2. serverObj \cap Range(NewIDs) = {}  BY <3>4
      <4>3. Cardinality(serverObj) \in Nat  BY <3>7, FS_CardinalityType
      <4>4. Cardinality(serverObj \cup Range(NewIDs)) =
                Cardinality(serverObj) + Cardinality(Range(NewIDs))
                - Cardinality(serverObj \cap Range(NewIDs))
        BY <3>2, <3>7, FS_Union
      <4>5. Cardinality(serverObj \cap Range(NewIDs)) = 0
        BY <4>1, <4>2, Zenon
      <4>6. Cardinality(Range(NewIDs)) = CreateSessionNum
        BY <3>2
      <4> QED BY <4>3, <4>4, <4>5, <4>6, CreateAssumption
    <3>9. 1..generateID \subseteq 1..(generateID + CreateSessionNum)
          /\ Range(NewIDs) \subseteq 1..(generateID + CreateSessionNum)
      BY <1>0, <3>2, CreateAssumption DEF TypeOK
    <3>10. spareNum + CreateSessionNum = CreateSessionNum
      BY <2>1, CreateAssumption
    <3>11. serverObj' \in SUBSET ID /\ generateID' \in 0..MaxID
           /\ serverObj' \cup clientObj \subseteq 1..generateID'
      BY <1>0, <1>1, <2>1, <3>2, <3>9 DEF TypeOK, IDsAllocated
    <3>12. /\ serverObj' = Range(deque) \cup serverMap \cup releaseMap
           /\ Range(deque) \cap (serverMap \cup releaseMap \cup clientObj) = {}
      BY <1>1, <2>1, <3>3, <3>4, <3>6
    <3>13. createNum' = Cardinality(serverObj')
      BY <1>0, <1>1, <2>1, <3>8 DEF CountersAgree
    <3> QED BY <2>1, <3>2, <3>3, <3>10, <3>11, <3>12, <3>13
  <2>2. CASE ~fill
    BY <1>0, <1>1, <2>2, EmptySeq DEF TypeOK, CountersAgree, ServerSessionsPartitioned,
       ClientSessionsDisjoint, IDsAllocated
  <2> QED BY <2>1, <2>2
<1> HIDE DEF deque
<1>3. /\ h \in ID /\ h \in Range(deque) /\ Tail(deque) \in Seq(ID)
      /\ Len(Tail(deque)) = Len(deque) - 1
      /\ Range(Tail(deque)) = Range(deque) \ {h} /\ IsInjective(Tail(deque))
  BY <1>2, TailDeque
<1>4. spareNum' = Len(Tail(deque)) /\ spareNum' \in Nat
  <2>1. Len(Tail(deque)) \in Nat  BY <1>3, LenProperties
  <2> QED BY <2>1, <1>1, <1>2, <1>3
<1>5. createNum' \in Nat
  BY <1>0, <1>1, CreateAssumption DEF TypeOK
<1>6. TypeOK'
  BY <1>0, <1>1, <1>2, <1>3, <1>4, <1>5 DEF TypeOK, clientVars, ioVars
<1>7. ServerSessionsPartitioned'
  BY <1>0, <1>1, <1>2, <1>3 DEF ServerSessionsPartitioned
<1>8. ClientSessionsDisjoint'
  BY <1>0, <1>1, <1>2 DEF ClientSessionsDisjoint, clientVars, ServerSessionsPartitioned
<1>9. IDsAllocated'
  BY <1>1, <1>2 DEF IDsAllocated
<1>10. CountersAgree'
  BY <1>0, <1>1, <1>2, <1>4 DEF CountersAgree
<1>11. SocketsHeld'
  BY <1>1 DEF SocketsHeld, ioVars, PoolInv
<1> QED BY <1>6, <1>7, <1>8, <1>9, <1>10, <1>11 DEF PoolInv

\* A session that is accepted moves into m_serverSessionMap.
LEMMA PoolAccept ==
    ASSUME PoolInv, NEW s \in ID, NEW f \in Fd, AcceptServerSession(s, f)
    PROVE  PoolInv'
<1>0. /\ TypeOK /\ IDsAllocated /\ SocketsHeld /\ ServerSessionsPartitioned
      /\ ClientSessionsDisjoint /\ CountersAgree
  BY DEF PoolInv
<1>1. /\ s \in prep /\ prep' = prep \ {s}
      /\ serverMap' = serverMap \cup {s}
      /\ aliveNum' = aliveNum + 1
      /\ UNCHANGED <<phase, generateID, serverObj, clientObj, createNum, spareNum,
                     createServerDeque, releaseMap, clientVars, ready, taskQueue>>
  BY DEF AcceptServerSession, poolVars
<1>2. /\ sock' \in [ID -> Fd \cup {NoFd}] /\ alive' \in [ID -> BOOLEAN]
      /\ allWork' \in [Fd -> ID \cup {NoSession}]
      /\ invalid' \in Seq(Fd) /\ epoll' \in SUBSET ID
      /\ SocketsHeld'
  BY <1>0, <1>1, WatchSockets DEF AcceptServerSession, ServerSessionsPartitioned
<1>3. aliveNum' = Cardinality(serverMap') /\ aliveNum' \in Nat
  <2>1. IsFiniteSet(ID)  BY BoundAssumption, FS_Interval DEF ID
  <2>2. IsFiniteSet(serverMap)  BY <1>0, <2>1, FS_Subset DEF TypeOK
  <2>3. s \notin serverMap  BY <1>0, <1>1 DEF ServerSessionsPartitioned
  <2>4. Cardinality(serverMap \cup {s}) = Cardinality(serverMap) + 1
    BY <2>2, <2>3, FS_AddElement
  <2>5. aliveNum = Cardinality(serverMap) /\ aliveNum \in Nat
    BY <1>0 DEF CountersAgree, TypeOK
  <2> QED BY <1>1, <2>4, <2>5
<1>4. TypeOK'
  BY <1>0, <1>1, <1>2, <1>3 DEF TypeOK, clientVars
<1>5. ServerSessionsPartitioned'
  BY <1>0, <1>1 DEF ServerSessionsPartitioned
<1>6. CountersAgree'
  BY <1>0, <1>1, <1>3 DEF CountersAgree
<1>7. ClientSessionsDisjoint' /\ IDsAllocated'
  BY <1>0, <1>1 DEF ClientSessionsDisjoint, IDsAllocated, clientVars
<1> QED BY <1>2, <1>4, <1>5, <1>6, <1>7 DEF PoolInv

\* releaseServerSession before the session was ever in m_serverSessionMap.
LEMMA PoolReleasePrep ==
    ASSUME PoolInv, NEW s \in ID, s \in prep, ReleasePrep(s), phase' \in Phases
    PROVE  PoolInv'
<1>0. /\ TypeOK /\ IDsAllocated /\ SocketsHeld /\ ServerSessionsPartitioned
      /\ ClientSessionsDisjoint /\ CountersAgree
  BY DEF PoolInv
<1>1. /\ prep' = prep \ {s}
      /\ createServerDeque' = Append(createServerDeque, s)
      /\ spareNum' = spareNum + 1
      /\ UNCHANGED <<generateID, serverObj, clientObj, createNum, serverMap,
                     releaseMap, aliveNum, clientVars, ioVars, ready, taskQueue>>
  BY DEF ReleasePrep, poolVars
<1>2. /\ Append(createServerDeque, s) \in Seq(ID)
      /\ Len(Append(createServerDeque, s)) = Len(createServerDeque) + 1
      /\ Range(Append(createServerDeque, s)) = Range(createServerDeque) \cup {s}
      /\ IsInjective(Append(createServerDeque, s))
  BY <1>0, AppendDeque DEF TypeOK, ServerSessionsPartitioned
<1>3. TypeOK' /\ SocketsHeld'
  BY <1>0, <1>1, <1>2 DEF TypeOK, SocketsHeld, clientVars, ioVars
<1>4. ServerSessionsPartitioned'
  BY <1>0, <1>1, <1>2 DEF ServerSessionsPartitioned
<1>5. CountersAgree'
  BY <1>0, <1>1, <1>2 DEF CountersAgree
<1>6. ClientSessionsDisjoint' /\ IDsAllocated'
  BY <1>0, <1>1 DEF ClientSessionsDisjoint, IDsAllocated, clientVars
<1> QED BY <1>3, <1>4, <1>5, <1>6 DEF PoolInv

\* What has waited long enough goes back to the spare sessions.
LEMMA PoolReleaseTimeout ==
    ASSUME PoolInv, NEW s \in ID, ReleaseTimeout(s)
    PROVE  PoolInv'
<1>0. /\ TypeOK /\ IDsAllocated /\ SocketsHeld /\ ServerSessionsPartitioned
      /\ ClientSessionsDisjoint /\ CountersAgree
  BY DEF PoolInv
<1>1. /\ s \in releaseMap /\ releaseMap' = releaseMap \ {s}
      /\ createServerDeque' = Append(createServerDeque, s)
      /\ spareNum' = spareNum + 1
      /\ sock' = [sock EXCEPT ![s] = NoFd]
      /\ alive' = [alive EXCEPT ![s] = FALSE]
      /\ epoll' = epoll \ {s}
      /\ UNCHANGED <<phase, generateID, serverObj, clientObj, createNum, serverMap,
                     prep, aliveNum, clientVars, allWork, invalid, ready, taskQueue>>
  BY DEF ReleaseTimeout, poolVars
<1>2. /\ Append(createServerDeque, s) \in Seq(ID)
      /\ Len(Append(createServerDeque, s)) = Len(createServerDeque) + 1
      /\ Range(Append(createServerDeque, s)) = Range(createServerDeque) \cup {s}
      /\ IsInjective(Append(createServerDeque, s))
  BY <1>0, <1>1, AppendDeque DEF TypeOK, ServerSessionsPartitioned
<1>3. TypeOK' /\ SocketsHeld'
  BY <1>0, <1>1, <1>2 DEF TypeOK, SocketsHeld, clientVars
<1>4. ServerSessionsPartitioned'
  BY <1>0, <1>1, <1>2 DEF ServerSessionsPartitioned
<1>5. CountersAgree'
  BY <1>0, <1>1, <1>2 DEF CountersAgree
<1>6. ClientSessionsDisjoint' /\ IDsAllocated'
  BY <1>0, <1>1 DEF ClientSessionsDisjoint, IDsAllocated, clientVars
<1> QED BY <1>3, <1>4, <1>5, <1>6 DEF PoolInv

\* closeInvalidWorkSession: the three kinds of thing it can find for a number.
LEMMA PoolCloseInvalid ==
    ASSUME PoolInv, CloseInvalidWorkSession
    PROVE  PoolInv'
<1> DEFINE f == Head(invalid)
           s == allWork[f]
<1>0. /\ TypeOK /\ IDsAllocated /\ SocketsHeld /\ ServerSessionsPartitioned
      /\ ClientSessionsDisjoint /\ CountersAgree
  BY DEF PoolInv
<1>1. /\ invalid # <<>> /\ invalid' = Tail(invalid)
      /\ allWork' = [allWork EXCEPT ![f] = NoSession]
      /\ epoll' \in SUBSET epoll
      /\ UNCHANGED <<phase, generateID, serverObj, clientObj, createNum, ready>>
  BY DEF CloseInvalidWorkSession, poolVars
<1>2. f \in Fd /\ Tail(invalid) \in Seq(Fd)
  BY <1>0, <1>1, HeadTailProperties DEF TypeOK
<1>3. s = NoSession \/ (s \in ID /\ s \in serverObj) \/ (s \in ID /\ s \in clientObj)
  BY <1>0, <1>2 DEF TypeOK, SocketsHeld
<1>4. NoSession \notin ID /\ serverObj \cap clientObj = {}
      /\ serverObj \in SUBSET ID /\ clientObj \in SUBSET ID
  BY <1>0, BoundAssumption DEF NoSession, ID, ClientSessionsDisjoint, TypeOK
<1> HIDE DEF f
<1>5. CASE s = NoSession
  <2>1. UNCHANGED <<serverVars, clientVars, taskQueue, sock, alive>>
    BY <1>4, <1>5 DEF CloseInvalidWorkSession, f
  <2>2. TypeOK' /\ SocketsHeld'
    BY <1>0, <1>1, <1>2, <2>1 DEF TypeOK, SocketsHeld, serverVars, clientVars
  <2> QED BY <1>1, <2>1, <2>2, PoolFrame DEF poolVars, clientVars
<1>6. CASE s \in ID /\ s \in serverObj
  <2>1. DestroyServerSession(s)
    BY <1>4, <1>6 DEF CloseInvalidWorkSession, f
  <2> HIDE DEF s
  <2>2. /\ taskQueue' \in Seq(Message)
        /\ UNCHANGED <<createServerDeque, prep, spareNum, clientVars, sock, alive>>
    BY <1>0, <1>6, <2>1 DEF DestroyServerSession, Disconnect, Message, TypeOK
  <2>3. CASE s \in serverMap
    <3>1. /\ releaseMap' = releaseMap \cup {s}
          /\ serverMap' = serverMap \ {s}
          /\ aliveNum' = aliveNum - 1
      BY <2>1, <2>3 DEF DestroyServerSession
    <3>2. aliveNum' = Cardinality(serverMap') /\ aliveNum' \in Nat
      <4>1. IsFiniteSet(ID)  BY BoundAssumption, FS_Interval DEF ID
      <4>2. IsFiniteSet(serverMap)  BY <1>0, <4>1, FS_Subset DEF TypeOK
      <4>3. aliveNum' = Cardinality(serverMap') /\ IsFiniteSet(serverMap')
        BY <1>0, <2>3, <3>1, <4>2, FS_RemoveElement DEF CountersAgree
      <4> QED BY <4>3, FS_CardinalityType
    <3>3. TypeOK' /\ SocketsHeld'
      BY <1>0, <1>1, <1>2, <1>6, <2>2, <3>1, <3>2 DEF TypeOK, SocketsHeld, clientVars
    <3>4. ServerSessionsPartitioned'
      BY <1>0, <1>1, <2>2, <2>3, <3>1 DEF ServerSessionsPartitioned
    <3>5. CountersAgree'
      BY <1>0, <1>1, <2>2, <3>2 DEF CountersAgree
    <3>6. ClientSessionsDisjoint' /\ IDsAllocated'
      BY <1>0, <1>1, <2>2 DEF ClientSessionsDisjoint, IDsAllocated, clientVars
    <3> QED BY <3>3, <3>4, <3>5, <3>6 DEF PoolInv
  <2>4. CASE s \notin serverMap
    <3>1. UNCHANGED <<serverVars, clientVars, sock, alive>>
      BY <2>1, <2>2, <2>4 DEF DestroyServerSession, serverVars
    <3>2. TypeOK' /\ SocketsHeld'
      BY <1>0, <1>1, <1>2, <2>2, <3>1 DEF TypeOK, SocketsHeld, serverVars, clientVars
    <3> QED BY <1>1, <3>1, <3>2, PoolFrame DEF poolVars, clientVars
  <2> QED BY <2>3, <2>4
<1>7. CASE s \in ID /\ s \in clientObj
  <2>1. DestroyClientSession(s)
    BY <1>4, <1>7 DEF CloseInvalidWorkSession, f
  <2> HIDE DEF s
  <2>2. UNCHANGED <<serverVars, taskQueue, netIO>>
    BY <2>1 DEF DestroyClientSession
  <2>3. CASE s \in clientMap
    <3>1. /\ clientMap' = clientMap \ {s}
          /\ createClientDeque' = Append(createClientDeque, s)
          /\ sock' = [sock EXCEPT ![s] = NoFd]
          /\ alive' = [alive EXCEPT ![s] = FALSE]
      BY <2>1, <2>3 DEF DestroyClientSession
    <3>2. /\ Append(createClientDeque, s) \in Seq(ID)
          /\ Range(Append(createClientDeque, s)) = Range(createClientDeque) \cup {s}
          /\ IsInjective(Append(createClientDeque, s))
      BY <1>0, <1>7, <2>3, AppendDeque DEF TypeOK, ClientSessionsDisjoint
    <3>3. TypeOK' /\ SocketsHeld'
      BY <1>0, <1>1, <1>2, <1>7, <2>2, <3>1, <3>2 DEF TypeOK, SocketsHeld, serverVars
    <3>4. ClientSessionsDisjoint'
      BY <1>0, <1>1, <2>3, <3>1, <3>2 DEF ClientSessionsDisjoint
    <3>5. ServerSessionsPartitioned' /\ CountersAgree' /\ IDsAllocated'
      BY <1>0, <1>1, <2>2
         DEF ServerSessionsPartitioned, CountersAgree, IDsAllocated, serverVars
    <3> QED BY <3>3, <3>4, <3>5 DEF PoolInv
  <2>4. CASE s \notin clientMap
    <3>1. UNCHANGED <<serverVars, clientVars, sock, alive>>
      BY <2>1, <2>2, <2>4 DEF DestroyClientSession, clientVars
    <3>2. TypeOK' /\ SocketsHeld'
      BY <1>0, <1>1, <1>2, <2>2, <3>1 DEF TypeOK, SocketsHeld, serverVars, clientVars
    <3> QED BY <1>1, <3>1, <3>2, PoolFrame DEF poolVars, clientVars
  <2> QED BY <2>3, <2>4
<1> QED BY <1>3, <1>5, <1>6, <1>7

\* PingTimeout, ClientDisConnect and DisConnectClient: one handleClose.
LEMMA PoolClose ==
    ASSUME PoolInv, NEW s \in ID, alive[s], Close(s), netIO' \in SUBSET netIO,
           UNCHANGED <<phase, poolVars, serverVars, createClientDeque, clientMap,
                       ready, taskQueue>>
    PROVE  PoolInv'
<1>1. /\ sock' \in [ID -> Fd \cup {NoFd}] /\ alive' \in [ID -> BOOLEAN]
      /\ allWork' \in [Fd -> ID \cup {NoSession}]
      /\ invalid' \in Seq(Fd) /\ epoll' \in SUBSET ID
      /\ SocketsHeld'
  BY CloseSockets DEF PoolInv, poolVars
<1>2. TypeOK'
  BY <1>1 DEF PoolInv, TypeOK, poolVars, serverVars
<1> QED BY <1>1, <1>2, PoolFrame

\* A read closes a session or adds requests.
LEMMA PoolHandleRead ==
    ASSUME PoolInv, NEW s \in ID, NEW n \in 0..MaxPackets, NEW closes \in BOOLEAN,
           HandleRead(s, n, closes)
    PROVE  PoolInv'
<1>1. UNCHANGED <<phase, poolVars, serverVars, clientVars>> /\ ready' \in SUBSET ready
  BY DEF HandleRead
<1>2. taskQueue' \in Seq(Message)
  <2>1. [i \in 1..n |-> Request(s)] \in Seq(Message)
    <3>1. Request(s) \in Message  BY DEF Request, Message
    <3>2. [i \in 1..n |-> Request(s)] \in [1..n -> Message]  BY <3>1
    <3>3. n \in Nat  BY BoundAssumption
    <3> QED BY <3>2, <3>3
  <2>2. taskQueue \in Seq(Message)  BY DEF PoolInv, TypeOK
  <2> DEFINE requests == [i \in 1..n |-> Request(s)]
  <2>3. taskQueue' = taskQueue \/ taskQueue' = taskQueue \o requests
    BY DEF HandleRead
  <2> HIDE DEF requests
  <2>4. requests \in Seq(Message)  BY <2>1 DEF requests
  <2>5. taskQueue \o requests \in Seq(Message)  BY <2>2, <2>4, ConcatProperties
  <2> QED BY <2>2, <2>3, <2>5
<1>3. /\ sock' \in [ID -> Fd \cup {NoFd}] /\ alive' \in [ID -> BOOLEAN]
      /\ allWork' \in [Fd -> ID \cup {NoSession}]
      /\ invalid' \in Seq(Fd) /\ epoll' \in SUBSET ID
      /\ SocketsHeld'
  <2>1. CASE alive[s] /\ closes
    BY <1>1, <2>1, CloseSockets DEF HandleRead, PoolInv, poolVars
  <2>2. CASE ~(alive[s] /\ closes)
    <3>1. UNCHANGED ioVars  BY <2>2 DEF HandleRead
    <3> QED BY <1>1, <3>1 DEF PoolInv, TypeOK, SocketsHeld, poolVars, ioVars
  <2> QED BY <2>1, <2>2
<1>4. TypeOK'
  BY <1>1, <1>2, <1>3 DEF PoolInv, TypeOK, poolVars, serverVars, clientVars
<1> QED BY <1>1, <1>3, <1>4, PoolFrame DEF clientVars

\* Every other action touches neither a container, nor a counter, nor a socket.
LEMMA PoolUntouched ==
    ASSUME PoolInv,
           UNCHANGED <<poolVars, serverVars, createClientDeque, clientMap, ioVars>>,
           netIO' \in SUBSET netIO,
           phase' \in Phases, ready' \in SUBSET ID, taskQueue' \in Seq(Message)
    PROVE  PoolInv'
<1>1. TypeOK' /\ SocketsHeld'
  BY DEF PoolInv, TypeOK, SocketsHeld, poolVars, serverVars, ioVars
<1> QED BY <1>1, PoolFrame

\* Every step keeps the layer of the containers.
LEMMA PoolStep == PoolInv /\ [Next]_vars => PoolInv'
<1> SUFFICES ASSUME PoolInv, [Next]_vars PROVE PoolInv'
  OBVIOUS
<1>0. /\ phase \in Phases /\ ready \in SUBSET ID /\ epoll \in SUBSET ID
      /\ taskQueue \in Seq(Message)
  BY DEF PoolInv, TypeOK
<1>1. CASE ClientStep
  <2>1. ASSUME NEW s \in ID, NEW f \in Fd,
               \/ ClientConnect(s, f)
               \/ \E live \in BOOLEAN : ClientConnectFail(s, f, live)
               \/ ClientConnectUnwatched(s, f)
        PROVE  PoolInv'
    BY <2>1, PoolClientConnect
  <2>2. ASSUME NEW s \in ID, ClientDisConnect(s) PROVE PoolInv'
    <3>1. CASE alive[s]
      BY <2>2, <3>1, PoolClose DEF ClientDisConnect
    <3>2. CASE ~alive[s]
      BY <1>0, <2>2, <3>2, PoolUntouched DEF ClientDisConnect
    <3> QED BY <3>1, <3>2
  <2> QED BY <1>1, <2>1, <2>2 DEF ClientStep
<1>2. CASE CreateServerSession
  BY <1>2, PoolCreateServer
<1>3. CASE AcceptStep
  <2>1. ASSUME NEW s \in ID, NEW f \in Fd, AcceptServerSession(s, f) PROVE PoolInv'
    BY <2>1, PoolAccept
  <2>2. ASSUME NEW s \in ID, AcceptNone(s) PROVE PoolInv'
    BY <2>2, PoolReleasePrep DEF AcceptNone, Phases
  <2>3. ASSUME NEW s \in ID, AcceptInitFail(s) PROVE PoolInv'
    BY <1>0, <2>3, PoolReleasePrep DEF AcceptInitFail
  <2> QED BY <1>3, <2>1, <2>2, <2>3 DEF AcceptStep
<1>4. CASE \E s \in ID : PingTimeout(s)
  BY <1>4, PoolClose DEF PingTimeout, clientVars
<1>5. CASE CloseInvalidWorkSession
  BY <1>5, PoolCloseInvalid
<1>6. CASE \E s \in ID : ReleaseTimeout(s)
  BY <1>6, PoolReleaseTimeout
<1>7. CASE EpollWait
  <2>1. phase' \in Phases /\ ready' \in SUBSET ID /\ taskQueue' \in Seq(Message)
    BY <1>0, <1>7 DEF EpollWait, Phases
  <2> QED BY <1>7, <2>1, PoolUntouched DEF EpollWait, clientVars
<1>8. CASE ReadStep
  BY <1>8, PoolHandleRead DEF ReadStep
<1>9. CASE DisposeMessage
  <2>1. taskQueue' \in Seq(Message)
    BY <1>0, <1>9, HeadTailProperties DEF DisposeMessage
  <2> QED BY <1>0, <1>9, <2>1, PoolUntouched DEF DisposeMessage, clientVars
<1>10. CASE \E s \in ID : DisConnectClient(s)
  BY <1>10, PoolClose DEF DisConnectClient, clientVars
<1>11. CASE EndCheck \/ EndAccept \/ EndTimer \/ EndClose \/ EndGc \/ EndEvent
            \/ EndTask \/ EndRun
  <2>1. /\ phase' \in Phases /\ netIO' \in SUBSET netIO
        /\ UNCHANGED <<poolVars, serverVars, createClientDeque, clientMap, ioVars,
                       ready, taskQueue>>
    BY <1>11 DEF EndCheck, EndAccept, EndTimer, EndClose, EndGc, EndEvent, EndTask,
                 EndRun, Phases, clientVars
  <2> QED BY <1>0, <2>1, PoolUntouched
<1>12. CASE UNCHANGED vars
  BY <1>0, <1>12, PoolUntouched DEF vars, clientVars
<1> QED
  BY <1>1, <1>2, <1>3, <1>4, <1>5, <1>6, <1>7, <1>8, <1>9, <1>10, <1>11, <1>12 DEF Next

-----------------------------------------------------------------------------
(* Sockets. *)

\* The IDs no connection uses: the spare objects and those not allocated yet.
Idle == Range(createServerDeque) \cup prep \cup Range(createClientDeque)
            \cup (ID \ (serverObj \cup clientObj))

\* What IInv says of sockets, epoll and m_allWorkSessionMap.
SocketInv ==
    /\ \A s \in Idle : Clean(s)
    /\ \A s, t \in ID : sock[s] = sock[t] /\ sock[s] # NoFd => s = t
    /\ \A s \in epoll : alive[s]
    /\ WorkEntries

\* At the start no session has a socket.
LEMMA SocketInit == Init => SocketInv
<1> SUFFICES ASSUME Init PROVE SocketInv
  OBVIOUS
<1>1. Idle \subseteq ID
  <2>1. Range(<<>>) = {}  BY DEF Range
  <2> QED BY <2>1 DEF Init, Idle
<1>2. NoSession \notin ID
  BY BoundAssumption DEF NoSession, ID
<1>3. \A s \in Idle : Clean(s)
  BY <1>1, <1>2 DEF Init, Clean
<1> QED BY <1>3 DEF Init, SocketInv, WorkEntries

\* A live session is in use, or leaked: it is not idle.
LEMMA LiveNotIdle ==
    ASSUME SocketInv, NEW s, alive[s]
    PROVE  s \notin Idle
BY DEF SocketInv, Clean

\* A session in use is not idle.
LEMMA InUseNotIdle ==
    ASSUME PoolInv, NEW s \in serverMap \cup clientMap \cup releaseMap
    PROVE  s \notin Idle
BY DEF PoolInv, TypeOK, ServerSessionsPartitioned, ClientSessionsDisjoint, Idle

\* Nothing but containers of idle sessions changes.
LEMMA SocketFrame ==
    ASSUME SocketInv, Idle' \subseteq Idle,
           UNCHANGED <<sock, alive, allWork, epoll, serverMap, clientMap>>
    PROVE  SocketInv'
BY DEF SocketInv, WorkEntries, Clean

\* An idle session is connected, watched and entered in its map.
LEMMA SocketWatch ==
    ASSUME PoolInv, SocketInv, NEW s \in ID, NEW f \in FreeFd,
           s \in Idle, Idle' \subseteq Idle \ {s}, Watch(s, f),
           s \in serverMap' \cup clientMap',
           serverMap \subseteq serverMap', clientMap \subseteq clientMap'
    PROVE  SocketInv'
<1>1. f \in Fd /\ f # NoFd /\ \A t \in ID : sock[t] # f
  BY FdAssumption DEF FreeFd
<1>2. /\ sock \in [ID -> Fd \cup {NoFd}] /\ alive \in [ID -> BOOLEAN]
      /\ allWork \in [Fd -> ID \cup {NoSession}] /\ epoll \in SUBSET ID
      /\ NoSession \notin ID
  BY BoundAssumption DEF PoolInv, TypeOK, NoSession, ID
<1>3. /\ sock' = [sock EXCEPT ![s] = f]
      /\ alive' = [alive EXCEPT ![s] = TRUE]
      /\ epoll' = epoll \cup {s}
      /\ \/ allWork[f] = NoSession /\ allWork' = [allWork EXCEPT ![f] = s]
         \/ allWork' = allWork
  BY DEF Watch
<1>4. Clean(s)
  BY DEF SocketInv
<1>5. \A t \in Idle' : Clean(t)'
  BY <1>1, <1>2, <1>3 DEF SocketInv, Clean
<1>6. \A t, u \in ID : sock'[t] = sock'[u] /\ sock'[t] # NoFd => t = u
  BY <1>1, <1>2, <1>3 DEF SocketInv
<1>7. \A t \in epoll' : alive'[t]
  BY <1>2, <1>3 DEF SocketInv
<1>8. WorkEntries'
  <2>1. \A g, h \in Fd : allWork'[g] = allWork'[h] /\ allWork'[g] # NoSession => g = h
    BY <1>1, <1>2, <1>3, <1>4 DEF SocketInv, WorkEntries, Clean
  <2>2. ASSUME NEW g \in Fd, allWork'[g] # NoSession
        PROVE  /\ allWork'[g] \in serverMap' \cup clientMap'
               /\ alive'[allWork'[g]] => sock'[allWork'[g]] = g
    BY <2>2, <1>1, <1>2, <1>3, <1>4 DEF SocketInv, WorkEntries, Clean
  <2>3. epoll' \subseteq serverMap' \cup clientMap'
    BY <1>3 DEF SocketInv, WorkEntries
  <2> QED BY <2>1, <2>2, <2>3 DEF WorkEntries
<1> QED BY <1>5, <1>6, <1>7, <1>8 DEF SocketInv

\* An idle session gets a socket, and is then forgotten (ClientConnectFail) or
\* held by an NDClientNetIO only (ClientConnectUnwatched).
LEMMA SocketOpen ==
    ASSUME PoolInv, SocketInv, NEW s \in ID, NEW f \in FreeFd, NEW live \in BOOLEAN,
           s \in Idle, Idle' \subseteq Idle \ {s},
           sock' = [sock EXCEPT ![s] = f], alive' = [alive EXCEPT ![s] = live],
           UNCHANGED <<allWork, epoll, serverMap, clientMap>>
    PROVE  SocketInv'
<1>1. f \in Fd /\ f # NoFd /\ \A t \in ID : sock[t] # f
  BY FdAssumption DEF FreeFd
<1>2. /\ sock \in [ID -> Fd \cup {NoFd}] /\ alive \in [ID -> BOOLEAN]
      /\ allWork \in [Fd -> ID \cup {NoSession}] /\ epoll \in SUBSET ID
  BY DEF PoolInv, TypeOK
<1>3. Clean(s)
  BY DEF SocketInv
<1>4. \A t \in Idle' : Clean(t)'
  BY <1>1, <1>2 DEF SocketInv, Clean
<1>5. \A t, u \in ID : sock'[t] = sock'[u] /\ sock'[t] # NoFd => t = u
  BY <1>1, <1>2 DEF SocketInv
<1>6. \A t \in epoll' : alive'[t]
  BY <1>2, <1>3 DEF SocketInv, Clean
<1>7. WorkEntries'
  BY <1>2, <1>3 DEF SocketInv, WorkEntries, Clean
<1> QED BY <1>4, <1>5, <1>6, <1>7 DEF SocketInv

\* handleClose of a live session keeps the sockets' layer.
LEMMA SocketClose ==
    ASSUME PoolInv, SocketInv, NEW s \in ID, alive[s], Close(s),
           Idle' \subseteq Idle, UNCHANGED <<serverMap, clientMap>>
    PROVE  SocketInv'
<1>1. s \notin Idle
  BY LiveNotIdle
<1>2. /\ sock \in [ID -> Fd \cup {NoFd}] /\ alive \in [ID -> BOOLEAN]
      /\ allWork \in [Fd -> ID \cup {NoSession}] /\ epoll \in SUBSET ID
  BY DEF PoolInv, TypeOK
<1>3. /\ sock' = [sock EXCEPT ![s] = NoFd] /\ alive' = [alive EXCEPT ![s] = FALSE]
      /\ epoll' = epoll \ {s} /\ UNCHANGED allWork
  BY DEF Close
<1>4. \A t \in Idle' : Clean(t)'
  BY <1>1, <1>2, <1>3 DEF SocketInv, Clean
<1>5. \A t, u \in ID : sock'[t] = sock'[u] /\ sock'[t] # NoFd => t = u
  BY <1>2, <1>3 DEF SocketInv
<1>6. \A t \in epoll' : alive'[t]
  BY <1>2, <1>3 DEF SocketInv
<1>7. WorkEntries'
  BY <1>2, <1>3 DEF SocketInv, WorkEntries
<1> QED BY <1>4, <1>5, <1>6, <1>7 DEF SocketInv

\* A session leaves service clean (releaseSession) and becomes idle.
LEMMA SocketRelease ==
    ASSUME PoolInv, SocketInv, NEW s \in ID, Idle' \subseteq Idle \cup {s},
           sock' = [sock EXCEPT ![s] = NoFd], alive' = [alive EXCEPT ![s] = FALSE],
           epoll' \subseteq epoll \ {s},
           allWork' \in [Fd -> ID \cup {NoSession}],
           \A f \in Fd : allWork'[f] # s /\ allWork'[f] \in {allWork[f], NoSession},
           serverMap \cup clientMap \subseteq serverMap' \cup clientMap' \cup {s}
    PROVE  SocketInv'
<1>1. /\ sock \in [ID -> Fd \cup {NoFd}] /\ alive \in [ID -> BOOLEAN]
      /\ allWork \in [Fd -> ID \cup {NoSession}] /\ epoll \in SUBSET ID
  BY DEF PoolInv, TypeOK
<1>2. Idle' \subseteq ID \cup Idle
  OBVIOUS
<1>3. ASSUME NEW t \in Idle' PROVE Clean(t)'
  <2>1. CASE t = s  BY <1>1, <2>1 DEF Clean
  <2>2. CASE t # s
    <3>1. Clean(t)  BY <2>2, <1>3 DEF SocketInv
    <3>2. t \in ID => alive'[t] = alive[t] /\ sock'[t] = sock[t]  BY <1>1, <2>2
    <3>3. t \in ID  BY <1>3, <2>2 DEF PoolInv, TypeOK, Idle, ServerSessionsPartitioned, ClientSessionsDisjoint
    <3>4. t # NoSession  BY <3>3, BoundAssumption DEF ID, NoSession
    <3> QED BY <3>1, <3>2, <3>3, <3>4 DEF Clean
  <2> QED BY <2>1, <2>2
<1>4. \A t, u \in ID : sock'[t] = sock'[u] /\ sock'[t] # NoFd => t = u
  BY <1>1 DEF SocketInv
<1>5. \A t \in epoll' : alive'[t]
  BY <1>1 DEF SocketInv
<1>6. WorkEntries'
  <2>1. \A g, h \in Fd : allWork'[g] = allWork'[h] /\ allWork'[g] # NoSession => g = h
    BY DEF SocketInv, WorkEntries
  <2>2. ASSUME NEW g \in Fd, allWork'[g] # NoSession
        PROVE  /\ allWork'[g] \in serverMap' \cup clientMap'
               /\ alive'[allWork'[g]] => sock'[allWork'[g]] = g
    <3>1. allWork'[g] = allWork[g] /\ allWork[g] # s /\ allWork[g] \in ID
      BY <1>1, <2>2
    <3> QED BY <3>1, <2>2, <1>1 DEF SocketInv, WorkEntries
  <2>3. epoll' \subseteq serverMap' \cup clientMap'
    BY DEF SocketInv, WorkEntries
  <2> QED BY <2>1, <2>2, <2>3 DEF WorkEntries
<1> QED BY <1>3, <1>4, <1>5, <1>6 DEF SocketInv

\* So does connect(), whatever of it fails,
LEMMA SocketClientConnect ==
    ASSUME PoolInv, SocketInv, NEW s \in ID, NEW f \in Fd,
           \/ ClientConnect(s, f)
           \/ \E live \in BOOLEAN : ClientConnectFail(s, f, live)
           \/ ClientConnectUnwatched(s, f)
    PROVE  SocketInv'
<1>1. TakeClientSession(s) /\ f \in FreeFd
      /\ UNCHANGED <<serverObj, createServerDeque, prep, serverMap>>
  BY DEF ClientConnect, ClientConnectFail, ClientConnectUnwatched, TakeClientSession,
         serverVars
<1>2. s \in Idle /\ Idle' \subseteq Idle \ {s}
  <2>1. s \in clientObj' /\ clientObj \subseteq clientObj'
        /\ serverObj \cap clientObj' = {}
        /\ Range(createClientDeque') \cap (clientMap \cup {s}) = {}
        /\ Range(createClientDeque') \cup {s} \subseteq
               Range(createClientDeque) \cup (ID \ (serverObj \cup clientObj))
    BY <1>1, TakeClient
  <2>2. s \notin Range(createServerDeque) \cup prep
    BY <2>1 DEF PoolInv, ServerSessionsPartitioned
  <2> QED BY <1>1, <2>1, <2>2 DEF Idle
<1>3. CASE ClientConnect(s, f)
  BY <1>1, <1>2, <1>3, SocketWatch DEF ClientConnect
<1>4. CASE \E live \in BOOLEAN : ClientConnectFail(s, f, live)
  BY <1>1, <1>2, <1>4, SocketOpen DEF ClientConnectFail
<1>5. CASE ClientConnectUnwatched(s, f)
  BY <1>1, <1>2, <1>5, SocketOpen DEF ClientConnectUnwatched
<1> QED BY <1>3, <1>4, <1>5

\* the accept of a session,
LEMMA SocketAccept ==
    ASSUME PoolInv, SocketInv, NEW s \in ID, NEW f \in Fd, AcceptServerSession(s, f)
    PROVE  SocketInv'
<1>1. /\ s \in prep /\ prep' = prep \ {s} /\ serverMap' = serverMap \cup {s}
      /\ Watch(s, f) /\ f \in FreeFd
      /\ UNCHANGED <<serverObj, clientObj, createServerDeque, createClientDeque, clientMap>>
  BY DEF AcceptServerSession, poolVars, clientVars
<1>2. s \in Idle /\ Idle' \subseteq Idle \ {s}
  BY <1>1 DEF Idle, PoolInv, ServerSessionsPartitioned, ClientSessionsDisjoint
<1> QED BY <1>1, <1>2, SocketWatch

\* createServerSession,
LEMMA SocketCreateServer ==
    ASSUME PoolInv, SocketInv, CreateServerSession
    PROVE  SocketInv'
<1>1. Range(createServerDeque') \cup prep' \subseteq serverObj' \cap ID
  BY PoolCreateServer DEF PoolInv, ServerSessionsPartitioned, TypeOK
<1>2. /\ serverObj \subseteq serverObj'
      /\ UNCHANGED <<clientObj, serverMap, releaseMap, clientMap, createClientDeque,
                     sock, alive, allWork, epoll>>
  BY DEF CreateServerSession, clientVars, ioVars
<1>3. \A t \in Range(createServerDeque') \cup prep' : t \notin serverMap \cup releaseMap \cup clientObj
  BY <1>2, PoolCreateServer
     DEF PoolInv, ServerSessionsPartitioned, ClientSessionsDisjoint
<1>4. Idle' \subseteq Idle
  BY <1>1, <1>2, <1>3 DEF Idle, PoolInv, ServerSessionsPartitioned
<1> QED BY <1>2, <1>4, SocketFrame

\* releaseServerSession before a refused accept,
LEMMA SocketReleasePrep ==
    ASSUME PoolInv, SocketInv, NEW s \in ID, s \in prep, ReleasePrep(s)
    PROVE  SocketInv'
<1>1. Range(createServerDeque') = Range(createServerDeque) \cup {s}
  BY AppendDeque DEF ReleasePrep, PoolInv, TypeOK
<1>2. Idle' \subseteq Idle
  BY <1>1 DEF ReleasePrep, Idle, poolVars, clientVars
<1> QED BY <1>2, SocketFrame DEF ReleasePrep, ioVars, clientVars

\* the release of what has waited long enough.
LEMMA SocketReleaseTimeout ==
    ASSUME PoolInv, SocketInv, NEW s \in ID, ReleaseTimeout(s)
    PROVE  SocketInv'
<1>1. /\ s \in releaseMap
      /\ createServerDeque' = Append(createServerDeque, s)
      /\ sock' = [sock EXCEPT ![s] = NoFd] /\ alive' = [alive EXCEPT ![s] = FALSE]
      /\ epoll' = epoll \ {s}
      /\ UNCHANGED <<serverObj, clientObj, prep, createClientDeque, serverMap,
                     clientMap, allWork>>
  BY DEF ReleaseTimeout, poolVars, clientVars
<1>2. Range(createServerDeque') = Range(createServerDeque) \cup {s}
  BY <1>1, AppendDeque DEF PoolInv, TypeOK
<1>3. Idle' \subseteq Idle \cup {s}
  BY <1>1, <1>2 DEF Idle
<1>4. s \notin serverMap \cup clientMap /\ s # NoSession
  BY <1>1, BoundAssumption
     DEF PoolInv, ServerSessionsPartitioned, ClientSessionsDisjoint, ID, NoSession
<1>5. \A f \in Fd : allWork'[f] # s /\ allWork'[f] \in {allWork[f], NoSession}
  BY <1>1, <1>4 DEF SocketInv, WorkEntries
<1>6. allWork' \in [Fd -> ID \cup {NoSession}]
  BY <1>1 DEF PoolInv, TypeOK
<1> QED BY <1>1, <1>3, <1>5, <1>6, SocketRelease

\* closeInvalidWorkSession: whatever it destroys is in use, and if live it has
\* the number that leaves epoll.
LEMMA SocketCloseInvalid ==
    ASSUME PoolInv, SocketInv, CloseInvalidWorkSession
    PROVE  SocketInv'
<1> DEFINE f == Head(invalid)
           s == allWork[f]
<1>0. /\ sock \in [ID -> Fd \cup {NoFd}] /\ alive \in [ID -> BOOLEAN]
      /\ allWork \in [Fd -> ID \cup {NoSession}] /\ epoll \in SUBSET ID
      /\ NoSession \notin ID /\ f \in Fd
  <2>1. invalid # <<>>  BY DEF CloseInvalidWorkSession
  <2> QED BY <2>1, BoundAssumption, HeadTailProperties
          DEF PoolInv, TypeOK, NoSession, ID
<1>1. /\ allWork' = [allWork EXCEPT ![f] = NoSession]
      /\ epoll' = {t \in epoll : sock[t] # f /\ sock'[t] # NoFd}
      /\ UNCHANGED <<serverObj, clientObj>>
  BY DEF CloseInvalidWorkSession, poolVars
<1>2. s = NoSession \/ (s \in ID /\ s \in serverObj) \/ (s \in ID /\ s \in clientObj)
  BY <1>0 DEF PoolInv, SocketsHeld
<1>3. serverObj \cap clientObj = {} /\ serverObj \in SUBSET ID /\ clientObj \in SUBSET ID
  BY DEF PoolInv, ClientSessionsDisjoint, TypeOK
<1>4. s # NoSession => /\ s \in serverMap \cup clientMap
                       /\ alive[s] => sock[s] = f
  BY <1>0 DEF SocketInv, WorkEntries
<1>5. \A g \in Fd : /\ allWork'[g] \in {allWork[g], NoSession}
                    /\ s # NoSession => allWork'[g] # s
  BY <1>0, <1>1 DEF SocketInv, WorkEntries
<1>6. s # NoSession => s \notin epoll'
  BY <1>0, <1>1, <1>4 DEF SocketInv
<1>7. allWork' \in [Fd -> ID \cup {NoSession}] /\ epoll' \subseteq epoll
  BY <1>0, <1>1
<1>8. ASSUME UNCHANGED <<sock, alive>>, Idle' = Idle
      PROVE  \A t \in Idle' : Clean(t)'
  <2> SUFFICES ASSUME NEW t \in Idle PROVE Clean(t)'
    BY <1>8
  <2>1. Clean(t)  BY DEF SocketInv
  <2>2. t \in ID
    BY DEF Idle, PoolInv, TypeOK, ServerSessionsPartitioned, ClientSessionsDisjoint
  <2>3. \A g \in Fd : allWork'[g] # t
    BY <1>0, <1>5, <2>1, <2>2 DEF Clean
  <2>4. t \notin epoll'
    BY <1>7, <2>1 DEF Clean
  <2> QED BY <1>8, <2>1, <2>3, <2>4 DEF Clean
<1>10. CASE s = NoSession
  <2>1. UNCHANGED <<serverVars, clientVars, taskQueue, sock, alive>>
    BY <1>0, <1>3, <1>10 DEF CloseInvalidWorkSession
  <2>2. Idle' = Idle /\ UNCHANGED <<serverMap, clientMap>>
    BY <1>1, <2>1 DEF Idle, serverVars, clientVars
  <2>3. \A t \in Idle' : Clean(t)'
    BY <1>8, <2>1, <2>2
  <2> HIDE DEF s, f
  <2>4. WorkEntries'
    BY <1>5, <1>7, <2>1, <2>2 DEF SocketInv, WorkEntries
  <2> QED BY <1>7, <2>1, <2>3, <2>4 DEF SocketInv
<1>11. CASE s \in ID /\ s \in serverObj
  <2>1. DestroyServerSession(s)
    BY <1>0, <1>3, <1>11 DEF CloseInvalidWorkSession
  <2>2. s \in serverMap /\ s \notin clientMap
    BY <1>0, <1>3, <1>4, <1>11 DEF PoolInv, ClientSessionsDisjoint
  <2>3. /\ serverMap' = serverMap \ {s}
        /\ UNCHANGED <<createServerDeque, prep, clientMap, createClientDeque, sock, alive>>
    BY <2>1, <2>2 DEF DestroyServerSession, clientVars
  <2>4. Idle' = Idle
    BY <1>1, <2>3 DEF Idle
  <2> HIDE DEF s, f
  <2>5. \A t \in Idle' : Clean(t)'
    BY <1>8, <2>3, <2>4
  <2>6. WorkEntries'
    <3>1. \A g, h \in Fd : allWork'[g] = allWork'[h] /\ allWork'[g] # NoSession => g = h
      BY <1>5 DEF SocketInv, WorkEntries
    <3>2. \A g \in Fd : allWork'[g] # NoSession =>
             /\ allWork'[g] \in serverMap' \cup clientMap'
             /\ alive'[allWork'[g]] => sock'[allWork'[g]] = g
      BY <1>0, <1>5, <1>11, <2>3 DEF SocketInv, WorkEntries
    <3>3. epoll' \subseteq serverMap' \cup clientMap'
      BY <1>0, <1>6, <1>7, <1>11, <2>3 DEF SocketInv, WorkEntries
    <3> QED BY <3>1, <3>2, <3>3 DEF WorkEntries
  <2> QED BY <1>7, <2>3, <2>5, <2>6 DEF SocketInv
<1>12. CASE s \in ID /\ s \in clientObj
  <2>1. DestroyClientSession(s)
    BY <1>0, <1>3, <1>12 DEF CloseInvalidWorkSession
  <2>2. s \in clientMap
    BY <1>0, <1>3, <1>4, <1>12 DEF PoolInv, ServerSessionsPartitioned
  <2>3. /\ clientMap' = clientMap \ {s}
        /\ createClientDeque' = Append(createClientDeque, s)
        /\ sock' = [sock EXCEPT ![s] = NoFd] /\ alive' = [alive EXCEPT ![s] = FALSE]
        /\ UNCHANGED <<createServerDeque, prep, serverMap>>
    BY <2>1, <2>2 DEF DestroyClientSession, serverVars
  <2>4. Range(createClientDeque') = Range(createClientDeque) \cup {s}
    BY <1>12, <2>3, AppendDeque DEF PoolInv, TypeOK
  <2>5. Idle' \subseteq Idle \cup {s}
    BY <1>1, <2>3, <2>4 DEF Idle
  <2>6. s # NoSession
    BY <1>0, <1>12
  <2> HIDE DEF s, f
  <2> QED BY <1>5, <1>6, <1>7, <1>12, <2>3, <2>5, <2>6, SocketRelease
<1> QED BY <1>2, <1>10, <1>11, <1>12

\* Steps that close one session or none, and change no set of idle ones.
LEMMA SocketQuiet ==
    ASSUME PoolInv, SocketInv,
           \/ UNCHANGED <<sock, alive, allWork, epoll>>
           \/ \E s \in ID : alive[s] /\ Close(s),
           UNCHANGED <<poolVars, serverVars, createClientDeque, clientMap>>
    PROVE  SocketInv'
<1>1. Idle' = Idle /\ UNCHANGED <<serverMap, clientMap>>
  BY DEF Idle, poolVars, serverVars
<1>2. CASE UNCHANGED <<sock, alive, allWork, epoll>>
  BY <1>1, <1>2, SocketFrame
<1>3. CASE \E s \in ID : alive[s] /\ Close(s)
  BY <1>1, <1>3, SocketClose
<1> QED BY <1>2, <1>3

\* Every step keeps the layer of the sockets.
LEMMA SocketStep == PoolInv /\ SocketInv /\ [Next]_vars => SocketInv'
<1> SUFFICES ASSUME PoolInv, SocketInv, [Next]_vars PROVE SocketInv'
  OBVIOUS
<1>1. ASSUME NEW s \in ID, NEW f \in Fd,
             \/ ClientConnect(s, f)
             \/ \E live \in BOOLEAN : ClientConnectFail(s, f, live)
             \/ ClientConnectUnwatched(s, f)
      PROVE  SocketInv'
  BY <1>1, SocketClientConnect
<1>2. ASSUME NEW s \in ID, ClientDisConnect(s) PROVE SocketInv'
  <2>1. CASE alive[s]
    BY <1>2, <2>1, SocketQuiet DEF ClientDisConnect
  <2>2. CASE ~alive[s]
    BY <1>2, <2>2, SocketQuiet DEF ClientDisConnect, ioVars
  <2> QED BY <2>1, <2>2
<1>3. CASE CreateServerSession
  BY <1>3, SocketCreateServer
<1>4. ASSUME NEW s \in ID, NEW f \in Fd, AcceptServerSession(s, f) PROVE SocketInv'
  BY <1>4, SocketAccept
<1>5. ASSUME NEW s \in ID, AcceptNone(s) \/ AcceptInitFail(s) PROVE SocketInv'
  BY <1>5, SocketReleasePrep DEF AcceptNone, AcceptInitFail
<1>6. ASSUME NEW s \in ID, PingTimeout(s) \/ DisConnectClient(s) PROVE SocketInv'
  BY <1>6, SocketQuiet DEF PingTimeout, DisConnectClient, clientVars
<1>7. CASE CloseInvalidWorkSession
  BY <1>7, SocketCloseInvalid
<1>8. ASSUME NEW s \in ID, ReleaseTimeout(s) PROVE SocketInv'
  BY <1>8, SocketReleaseTimeout
<1>9. ASSUME NEW s \in ID, NEW n \in 0..MaxPackets, NEW closes \in BOOLEAN,
             HandleRead(s, n, closes)
      PROVE  SocketInv'
  <2>1. CASE alive[s] /\ closes
    BY <1>9, <2>1, SocketQuiet DEF HandleRead, clientVars
  <2>2. CASE ~(alive[s] /\ closes)
    BY <1>9, <2>2, SocketQuiet DEF HandleRead, clientVars, ioVars
  <2> QED BY <2>1, <2>2
<1>10. CASE \/ EndCheck \/ EndAccept \/ EndTimer \/ EndClose \/ EndGc \/ EpollWait
            \/ EndEvent \/ DisposeMessage \/ EndTask \/ EndRun \/ UNCHANGED vars
  <2>1. UNCHANGED <<poolVars, serverVars, createClientDeque, clientMap, ioVars>>
    BY <1>10 DEF EndCheck, EndAccept, EndTimer, EndClose, EndGc, EpollWait, EndEvent,
                 DisposeMessage, EndTask, EndRun, vars, clientVars
  <2> QED BY <2>1, SocketQuiet DEF ioVars
<1> QED
  BY <1>1, <1>2, <1>3, <1>4, <1>5, <1>6, <1>7, <1>8, <1>9, <1>10
     DEF Next, ClientStep, AcceptStep, ReadStep

-----------------------------------------------------------------------------
(* Messages. *)

\* What IInv says of the message queue, of epoll's answer and of the loop.
QueueInv ==
    /\ LoopOrder
    /\ MessagesMatchSessions
    /\ ready \subseteq serverMap \cup clientMap

\* The queues start empty.
LEMMA QueueInit == Init => QueueInv
<1>1. Range(<<>>) = {}  BY DEF Range
<1> QED BY <1>1 DEF Init, QueueInv, LoopOrder, MessagesMatchSessions

\* What a queue holds after a message was taken, or others were appended.
LEMMA QueueRange ==
    ASSUME NEW q \in Seq(Message)
    PROVE  /\ q # <<>> => Range(Tail(q)) \subseteq Range(q)
           /\ \A r \in Seq(Message) : Range(q \o r) = Range(q) \cup Range(r)
<1>1. ASSUME q # <<>>, NEW m \in Range(Tail(q)) PROVE m \in Range(q)
  <2>1. /\ Tail(q) \in Seq(Message) /\ Len(Tail(q)) = Len(q) - 1
        /\ \A i \in 1..Len(Tail(q)) : Tail(q)[i] = q[i + 1]
    BY <1>1, HeadTailProperties
  <2>2. /\ Len(q) \in Nat /\ DOMAIN q = 1..Len(q)
        /\ DOMAIN Tail(q) = 1..(Len(q) - 1)
    BY <2>1, LenProperties
  <2>3. PICK i \in 1..(Len(q) - 1) : m = Tail(q)[i]
    BY <1>1, <2>2 DEF Range
  <2>4. i + 1 \in DOMAIN q /\ m = q[i + 1]
    BY <2>1, <2>2, <2>3
  <2> QED BY <2>4 DEF Range
<1>2. ASSUME NEW r \in Seq(Message) PROVE Range(q \o r) = Range(q) \cup Range(r)
  <2>1. /\ DOMAIN q = 1..Len(q) /\ DOMAIN r = 1..Len(r)
        /\ Len(q) \in Nat /\ Len(r) \in Nat
        /\ DOMAIN (q \o r) = 1..(Len(q) + Len(r))
        /\ \A i \in 1..(Len(q) + Len(r)) :
               (q \o r)[i] = IF i <= Len(q) THEN q[i] ELSE r[i - Len(q)]
    BY ConcatProperties, LenProperties
  <2>2. ASSUME NEW m \in Range(q \o r) PROVE m \in Range(q) \cup Range(r)
    <3>1. PICK i \in 1..(Len(q) + Len(r)) : m = (q \o r)[i]
      BY <2>1 DEF Range
    <3>2. CASE i <= Len(q)
      <4>1. i \in DOMAIN q /\ m = q[i]  BY <2>1, <3>1, <3>2
      <4> QED BY <4>1 DEF Range
    <3>3. CASE i > Len(q)
      <4>1. i - Len(q) \in DOMAIN r /\ m = r[i - Len(q)]  BY <2>1, <3>1, <3>3
      <4> QED BY <4>1 DEF Range
    <3> QED BY <2>1, <3>2, <3>3
  <2>3. ASSUME NEW m \in Range(q) PROVE m \in Range(q \o r)
    <3>1. PICK i \in 1..Len(q) : m = q[i]  BY <2>1 DEF Range
    <3>2. i \in 1..(Len(q) + Len(r)) /\ m = (q \o r)[i]  BY <2>1, <3>1
    <3> QED BY <2>1, <3>2 DEF Range
  <2>4. ASSUME NEW m \in Range(r) PROVE m \in Range(q \o r)
    <3>1. PICK i \in 1..Len(r) : m = r[i]  BY <2>1 DEF Range
    <3>2. /\ i + Len(q) \in 1..(Len(q) + Len(r))
          /\ ~(i + Len(q) <= Len(q)) /\ (i + Len(q)) - Len(q) = i
      BY <2>1, <3>1
    <3>3. m = (q \o r)[i + Len(q)]  BY <2>1, <3>1, <3>2
    <3> QED BY <2>1, <3>2, <3>3 DEF Range
  <2> QED BY <2>2, <2>3, <2>4
<1> QED BY <1>1, <1>2

\* Steps that keep the queue and put no session in or out of service.
LEMMA QueueFrame ==
    ASSUME QueueInv, LoopOrder', UNCHANGED <<taskQueue, serverMap>>,
           prep' \subseteq prep, clientMap \subseteq clientMap',
           ready' \subseteq serverMap \cup clientMap
    PROVE  QueueInv'
BY DEF QueueInv, MessagesMatchSessions

\* closeInvalidWorkSession queues a notice for a session that leaves its
\* map.
LEMMA QueueCloseInvalid ==
    ASSUME PoolInv, SocketInv, QueueInv, CloseInvalidWorkSession
    PROVE  QueueInv'
<1> DEFINE f == Head(invalid)
           s == allWork[f]
<1>0. f \in Fd /\ NoSession \notin ID
  <2>1. invalid # <<>>  BY DEF CloseInvalidWorkSession
  <2> QED BY <2>1, BoundAssumption, HeadTailProperties
          DEF PoolInv, TypeOK, NoSession, ID
<1>1. s = NoSession \/ (s \in ID /\ s \in serverObj) \/ (s \in ID /\ s \in clientObj)
  BY <1>0 DEF PoolInv, SocketsHeld, TypeOK
<1>2. /\ phase = "close" /\ phase' = "close" /\ ready = {} /\ ready' = {}
      /\ prep = {} /\ \A m \in Range(taskQueue) : m.kind = "disconnect"
  BY DEF CloseInvalidWorkSession, QueueInv, LoopOrder
<1>3. serverObj \cap clientObj = {} /\ serverObj \in SUBSET ID /\ clientObj \in SUBSET ID
      /\ taskQueue \in Seq(Message)
  BY DEF PoolInv, ClientSessionsDisjoint, TypeOK
<1>4. CASE s = NoSession
  <2>1. UNCHANGED <<serverVars, clientVars, taskQueue>>
    BY <1>0, <1>3, <1>4 DEF CloseInvalidWorkSession
  <2> QED BY <1>2, <2>1
          DEF QueueInv, LoopOrder, MessagesMatchSessions, serverVars, clientVars
<1>5. CASE s \in ID /\ s \in clientObj
  <2>1. DestroyClientSession(s)
    BY <1>0, <1>3, <1>5 DEF CloseInvalidWorkSession
  <2>2. UNCHANGED <<serverVars, taskQueue>>
    BY <2>1 DEF DestroyClientSession
  <2> QED BY <1>2, <2>2 DEF QueueInv, LoopOrder, MessagesMatchSessions, serverVars
<1>6. CASE s \in ID /\ s \in serverObj
  <2>1. DestroyServerSession(s)
    BY <1>0, <1>3, <1>6 DEF CloseInvalidWorkSession
  <2> HIDE DEF s, f
  <2>2. /\ taskQueue' = Append(taskQueue, Disconnect(s))
        /\ serverMap' = serverMap \ {s} /\ prep' = prep
    BY <2>1 DEF DestroyServerSession
  <2>3. Range(taskQueue') = Range(taskQueue) \cup {Disconnect(s)}
    <3>1. Disconnect(s) \in Message  BY <1>6 DEF Disconnect, Message
    <3> QED BY <1>3, <2>2, <3>1, AppendDeque
  <2>4. Disconnect(s).kind = "disconnect" /\ Disconnect(s).id = s
    BY DEF Disconnect
  <2>5. LoopOrder'
    BY <1>2, <2>2, <2>3, <2>4 DEF LoopOrder
  <2>6. MessagesMatchSessions'
    BY <1>2, <2>2, <2>3, <2>4 DEF QueueInv, MessagesMatchSessions
  <2> QED BY <1>2, <2>5, <2>6 DEF QueueInv
<1> QED BY <1>1, <1>4, <1>5, <1>6

\* A session that is in service queues requests.
LEMMA QueueHandleRead ==
    ASSUME PoolInv, QueueInv, NEW s \in ID, NEW n \in 0..MaxPackets,
           NEW closes \in BOOLEAN, HandleRead(s, n, closes)
    PROVE  QueueInv'
<1> DEFINE requests == [i \in 1..n |-> Request(s)]
<1>1. /\ phase = "event" /\ phase' = "event" /\ s \in ready /\ ready' = ready \ {s}
      /\ taskQueue' = taskQueue \/ taskQueue' = taskQueue \o requests
      /\ UNCHANGED <<serverMap, prep, clientMap>>
  BY DEF HandleRead, serverVars, clientVars
<1>2. requests \in Seq(Message)
  <2>1. Request(s) \in Message  BY DEF Request, Message
  <2>2. requests \in [1..n -> Message]  BY <2>1
  <2>3. n \in Nat  BY BoundAssumption
  <2> QED BY <2>2, <2>3
<1>3. \A m \in Range(requests) : m.kind = "request" /\ m.id = s
  BY DEF Range, Request
<1> HIDE DEF requests
<1>4. taskQueue \in Seq(Message)  BY DEF PoolInv, TypeOK
<1>5. \A m \in Range(taskQueue') : m \in Range(taskQueue) \/ m \in Range(requests)
  <2>1. CASE taskQueue' = taskQueue  BY <2>1
  <2>2. CASE taskQueue' = taskQueue \o requests
    <3>1. Range(taskQueue \o requests) = Range(taskQueue) \cup Range(requests)
      BY <1>2, <1>4, QueueRange
    <3> QED BY <2>2, <3>1
  <2> QED BY <1>1, <2>1, <2>2
<1>6. s \in serverMap \cup clientMap  BY <1>1 DEF QueueInv
<1>7. MessagesMatchSessions'
  BY <1>1, <1>3, <1>5, <1>6 DEF QueueInv, MessagesMatchSessions
<1>8. LoopOrder'
  BY <1>1 DEF QueueInv, LoopOrder
<1> QED BY <1>1, <1>7, <1>8 DEF QueueInv

\* Every step keeps the layer of the queue.
LEMMA QueueStep == PoolInv /\ SocketInv /\ QueueInv /\ [Next]_vars => QueueInv'
<1> SUFFICES ASSUME PoolInv, SocketInv, QueueInv, [Next]_vars PROVE QueueInv'
  OBVIOUS
<1>0. LoopOrder /\ ready \subseteq serverMap \cup clientMap /\ Range(<<>>) = {}
  BY DEF QueueInv, Range
<1>1. CASE ClientStep
  <2>1. /\ UNCHANGED <<phase, taskQueue, serverMap, prep, ready>>
        /\ clientMap \subseteq clientMap'
    BY <1>1 DEF ClientStep, ClientConnect, ClientConnectFail, ClientConnectUnwatched,
               ClientDisConnect, serverVars
  <2>2. LoopOrder'  BY <1>0, <2>1 DEF LoopOrder
  <2> QED BY <1>0, <2>1, <2>2, QueueFrame
<1>2. CASE CreateServerSession
  BY <1>0, <1>2 DEF CreateServerSession, QueueInv, LoopOrder, MessagesMatchSessions, clientVars
<1>3. CASE AcceptStep
  <2>1. /\ phase = "accept" /\ phase' \in {"accept", "timer"}
        /\ UNCHANGED <<taskQueue, ready, clientMap>>
        /\ serverMap \subseteq serverMap'
        /\ prep' \subseteq prep
    BY <1>3 DEF AcceptStep, AcceptServerSession, AcceptNone, AcceptInitFail, ReleasePrep,
               clientVars
  <2>2. phase' = "timer" => prep' = {}
    BY <1>0, <1>3 DEF LoopOrder, AcceptStep, AcceptServerSession, AcceptNone,
                      AcceptInitFail, ReleasePrep
  <2>3. taskQueue = <<>> /\ ready = {}
    BY <1>0, <2>1 DEF LoopOrder
  <2> QED BY <1>0, <2>1, <2>2, <2>3 DEF QueueInv, LoopOrder, MessagesMatchSessions
<1>4. CASE \E s \in ID : PingTimeout(s) \/ DisConnectClient(s)
  <2>1. UNCHANGED <<phase, taskQueue, serverMap, clientMap, prep, ready>>
    BY <1>4 DEF PingTimeout, DisConnectClient, serverVars, clientVars
  <2>2. LoopOrder'  BY <1>0, <2>1 DEF LoopOrder
  <2> QED BY <1>0, <2>1, <2>2, QueueFrame
<1>5. CASE CloseInvalidWorkSession
  BY <1>5, QueueCloseInvalid
<1>6. CASE \E s \in ID : ReleaseTimeout(s)
  <2>1. UNCHANGED <<phase, taskQueue, serverMap, clientMap, prep, ready>>
    BY <1>6 DEF ReleaseTimeout, clientVars
  <2>2. LoopOrder'  BY <1>0, <2>1 DEF LoopOrder
  <2> QED BY <1>0, <2>1, <2>2, QueueFrame
<1>7. CASE ReadStep
  BY <1>7, QueueHandleRead DEF ReadStep
<1>8. CASE EpollWait
  <2>1. /\ phase = "wait" /\ phase' = "event" /\ ready' \in SUBSET epoll
        /\ UNCHANGED <<taskQueue, serverMap, clientMap, prep>>
    BY <1>8 DEF EpollWait, serverVars, clientVars
  <2>2. ready' \subseteq serverMap \cup clientMap
    BY <2>1 DEF SocketInv, WorkEntries
  <2>3. LoopOrder'  BY <1>0, <2>1 DEF LoopOrder
  <2> QED BY <2>1, <2>2, <2>3, QueueFrame
<1>9. CASE DisposeMessage
  <2>1. /\ phase = "task" /\ phase' = "task" /\ taskQueue # <<>>
        /\ taskQueue' = Tail(taskQueue)
        /\ UNCHANGED <<serverMap, clientMap, prep, ready>>
    BY <1>9 DEF DisposeMessage, serverVars, clientVars
  <2>2. Range(taskQueue') \subseteq Range(taskQueue)
    BY <2>1, QueueRange DEF PoolInv, TypeOK
  <2> QED BY <1>0, <2>1, <2>2 DEF QueueInv, LoopOrder, MessagesMatchSessions
<1>10. CASE \/ EndCheck \/ EndAccept \/ EndTimer \/ EndClose \/ EndGc \/ EndEvent
            \/ EndTask \/ EndRun \/ UNCHANGED vars
  <2>1. UNCHANGED <<taskQueue, serverMap, clientMap, prep, ready>>
    BY <1>10 DEF EndCheck, EndAccept, EndTimer, EndClose, EndGc, EndEvent, EndTask,
                 EndRun, vars, serverVars, clientVars
  <2>2. LoopOrder'
    BY <1>0, <1>10, <2>1
       DEF EndCheck, EndAccept, EndTimer, EndClose, EndGc, EndEvent, EndTask, EndRun,
           vars, LoopOrder
  <2> QED BY <1>0, <2>1, <2>2, QueueFrame
<1> QED
  BY <1>1, <1>2, <1>3, <1>4, <1>5, <1>6, <1>7, <1>8, <1>9, <1>10 DEF Next

-----------------------------------------------------------------------------
(* The inductive invariant. *)

\* IInv is PoolInv, SocketInv and QueueInv, which are inductive in this order.
LEMMA IInvParts == IInv <=> PoolInv /\ SocketInv /\ QueueInv
<1>1. ASSUME PoolInv
      PROVE  (\A s \in Idle : Clean(s)) <=> SpareSessionsClean /\ UnallocatedClean
  BY DEF Idle, SpareSessionsClean, UnallocatedClean
<1> QED BY <1>1 DEF IInv, PoolInv, SocketsHeld, SocketInv, QueueInv, DescriptorsOwned

\* The inductive invariant holds from the start and is kept by every step.
THEOREM Inductive == Spec => []IInv
<1>1. Init => IInv
  BY PoolInit, SocketInit, QueueInit, IInvParts
<1>2. IInv /\ [Next]_vars => IInv'
  <2> SUFFICES ASSUME IInv, [Next]_vars PROVE PoolInv' /\ SocketInv' /\ QueueInv'
    BY IInvParts, PTL
  <2> QED BY IInvParts, PoolStep, SocketStep, QueueStep
<1> QED BY <1>1, <1>2, PTL DEF Spec

-----------------------------------------------------------------------------
(* Numbers that are given out while they are still queued. *)

\* pop_front takes the front element and leaves the others.
LEMMA TailRange ==
    ASSUME NEW S, NEW q \in Seq(S), q # <<>>
    PROVE  /\ Head(q) \in S /\ Tail(q) \in Seq(S)
           /\ Range(q) = Range(Tail(q)) \cup {Head(q)}
<1>1. /\ Head(q) \in S /\ Tail(q) \in Seq(S) /\ Len(Tail(q)) = Len(q) - 1
      /\ \A i \in 1..Len(Tail(q)) : Tail(q)[i] = q[i + 1]
  BY HeadTailProperties
<1>2. /\ Len(q) \in Nat \ {0} /\ DOMAIN q = 1..Len(q)
      /\ DOMAIN Tail(q) = 1..(Len(q) - 1)
  BY <1>1, EmptySeq, LenProperties
<1>3. Head(q) = q[1] /\ 1 \in DOMAIN q
  BY <1>2
<1>4. ASSUME NEW x \in Range(Tail(q)) PROVE x \in Range(q)
  <2>1. PICK i \in 1..(Len(q) - 1) : x = Tail(q)[i]  BY <1>2, <1>4 DEF Range
  <2>2. i + 1 \in DOMAIN q /\ x = q[i + 1]  BY <2>1, <1>1, <1>2
  <2> QED BY <2>2 DEF Range
<1>5. ASSUME NEW x \in Range(q), x # Head(q) PROVE x \in Range(Tail(q))
  <2>1. PICK i \in 1..Len(q) : x = q[i]  BY <1>2, <1>5 DEF Range
  <2>2. i # 1  BY <2>1, <1>5, <1>3
  <2>3. i - 1 \in 1..(Len(q) - 1) /\ (i - 1) + 1 = i  BY <2>1, <2>2, <1>2
  <2>4. Tail(q)[i - 1] = x  BY <2>1, <2>3, <1>1
  <2> QED BY <2>3, <2>4, <1>2 DEF Range
<1>6. Head(q) \in Range(q)
  BY <1>3 DEF Range
<1> QED BY <1>1, <1>4, <1>5, <1>6

\* What all the steps below need of the types.
LEMMA NumberTypes ==
    ASSUME PoolInv
    PROVE  /\ sock \in [ID -> Fd \cup {NoFd}] /\ alive \in [ID -> BOOLEAN]
           /\ allWork \in [Fd -> ID \cup {NoSession}] /\ epoll \in SUBSET ID
           /\ invalid \in Seq(Fd) /\ Range(invalid) \subseteq Fd
           /\ InUse \subseteq ID /\ netIO \subseteq ID
           /\ NoSession \notin ID
           /\ \A s \in ID : alive[s] => sock[s] \in Fd
<1>1. TypeOK /\ SocketsHeld  BY DEF PoolInv
<1>2. NoSession \notin ID  BY BoundAssumption DEF NoSession, ID
<1>3. Range(invalid) \subseteq Fd
  <2>1. DOMAIN invalid = 1..Len(invalid) /\ \A i \in 1..Len(invalid) : invalid[i] \in Fd
    BY <1>1 DEF TypeOK
  <2> QED BY <2>1 DEF Range
<1> QED BY <1>1, <1>2, <1>3 DEF TypeOK, SocketsHeld, InUse

\* What a step does to sockets, epoll and m_allWorkSessionMap, besides
\* closeInvalidWorkSession: it closes a live session, ...
Closing(s) ==
    /\ alive[s] /\ Close(s) /\ InUse' = InUse

\* ... connects an idle one, ...
Opening(s, f) ==
    /\ s \in Idle /\ f \in FreeFd /\ Watch(s, f) /\ InUse' = InUse \cup {s}

\* ... gives or takes the socket of one that serves no connection, ...
Aside(s) ==
    /\ s \notin InUse /\ InUse' = InUse
    /\ \E f \in Fd \cup {NoFd}, live \in BOOLEAN :
           sock' = [sock EXCEPT ![s] = f] /\ alive' = [alive EXCEPT ![s] = live]
    /\ epoll' \in {epoll, epoll \ {s}}
    /\ UNCHANGED <<allWork, invalid>>

\* ... or nothing.
Quiet == UNCHANGED <<ioVars, InUse>>

\* The whole connect(), whatever of it fails, is one of them.
LEMMA ConnectKinds ==
    ASSUME PoolInv, SocketInv, NEW s \in ID, NEW f \in Fd,
           \/ ClientConnect(s, f)
           \/ \E live \in BOOLEAN : ClientConnectFail(s, f, live)
           \/ ClientConnectUnwatched(s, f)
    PROVE  Opening(s, f) \/ Aside(s)
<1>1. TakeClientSession(s) /\ f \in FreeFd /\ UNCHANGED serverMap
  BY DEF ClientConnect, ClientConnectFail, ClientConnectUnwatched, serverVars
<1>2. s \in Idle
  <2>1. s \in Range(createClientDeque) \cup (ID \ (serverObj \cup clientObj))
    BY <1>1, TakeClient
  <2> QED BY <2>1 DEF Idle
<1>3. s \notin InUse
  BY <1>2, InUseNotIdle DEF InUse
<1>4. CASE ClientConnect(s, f)
  BY <1>1, <1>2, <1>4 DEF ClientConnect, Opening, InUse
<1>5. CASE \E live \in BOOLEAN : ClientConnectFail(s, f, live)
  BY <1>1, <1>3, <1>5 DEF ClientConnectFail, Aside, InUse
<1>6. CASE ClientConnectUnwatched(s, f)
  <2>1. /\ sock' = [sock EXCEPT ![s] = f] /\ alive' = [alive EXCEPT ![s] = TRUE]
        /\ UNCHANGED <<clientMap, allWork, invalid, epoll>>
    BY <1>6 DEF ClientConnectUnwatched
  <2> QED BY <1>1, <1>3, <2>1 DEF Aside, InUse
<1> QED BY <1>4, <1>5, <1>6

\* So is every other step.
LEMMA StepKinds ==
    ASSUME PoolInv, SocketInv, [Next]_vars
    PROVE  \/ \E s \in ID : Closing(s) \/ Aside(s) \/ \E f \in Fd : Opening(s, f)
           \/ CloseInvalidWorkSession
           \/ Quiet
<1>1. ASSUME NEW s \in ID, NEW f \in Fd,
             \/ ClientConnect(s, f)
             \/ \E live \in BOOLEAN : ClientConnectFail(s, f, live)
             \/ ClientConnectUnwatched(s, f)
      PROVE  Opening(s, f) \/ Aside(s)
  BY <1>1, ConnectKinds
<1>2. ASSUME NEW s \in ID, ClientDisConnect(s) PROVE Closing(s) \/ Quiet
  BY <1>2 DEF ClientDisConnect, serverVars, Closing, Quiet, InUse
<1>3. ASSUME NEW s \in ID, NEW f \in Fd, AcceptServerSession(s, f) PROVE Opening(s, f)
  BY <1>3 DEF AcceptServerSession, clientVars, Opening, InUse, Idle
<1>4. ASSUME NEW s \in ID, PingTimeout(s) \/ DisConnectClient(s) PROVE Closing(s)
  BY <1>4 DEF PingTimeout, DisConnectClient, serverVars, clientVars, Closing, InUse
<1>5. ASSUME NEW s \in ID, ReleaseTimeout(s) PROVE Aside(s)
  <2>1. /\ s \in releaseMap
        /\ sock' = [sock EXCEPT ![s] = NoFd] /\ alive' = [alive EXCEPT ![s] = FALSE]
        /\ epoll' = epoll \ {s}
        /\ UNCHANGED <<allWork, invalid, serverMap, clientMap>>
    BY <1>5 DEF ReleaseTimeout, clientVars
  <2>2. s \notin InUse
    BY <2>1 DEF PoolInv, ServerSessionsPartitioned, ClientSessionsDisjoint, InUse
  <2> QED BY <2>1, <2>2 DEF Aside, InUse
<1>6. ASSUME NEW s \in ID, NEW n \in 0..MaxPackets, NEW closes \in BOOLEAN,
             HandleRead(s, n, closes)
      PROVE  Closing(s) \/ Quiet
  BY <1>6 DEF HandleRead, serverVars, clientVars, Closing, Quiet, InUse
<1>7. CASE \/ CreateServerSession \/ (\E s \in ID : AcceptNone(s) \/ AcceptInitFail(s))
           \/ EndCheck \/ EndAccept \/ EndTimer \/ EndClose \/ EndGc \/ EpollWait
           \/ EndEvent \/ DisposeMessage \/ EndTask \/ EndRun \/ UNCHANGED vars
  BY <1>7 DEF CreateServerSession, AcceptNone, AcceptInitFail, ReleasePrep, EndCheck,
              EndAccept, EndTimer, EndClose, EndGc, EpollWait, EndEvent, DisposeMessage,
              EndTask, EndRun, vars, serverVars, clientVars, Quiet, InUse
<1> QED
  BY <1>1, <1>2, <1>3, <1>4, <1>5, <1>6, <1>7
     DEF Next, ClientStep, AcceptStep, ReadStep

\* What closeInvalidWorkSession finds under a number: a session in use, if any;
\* a live one has that number.
LEMMA QueuedSession ==
    ASSUME PoolInv, SocketInv, invalid # <<>>
    PROVE  LET f == Head(invalid)
               s == allWork[f]
           IN /\ f \in Fd /\ Tail(invalid) \in Seq(Fd)
              /\ Range(invalid) = Range(Tail(invalid)) \cup {f}
              /\ s # NoSession => /\ s \in ID /\ s \in InUse
                                  /\ alive[s] => sock[s] = f
              /\ s \in serverObj => s \in serverMap
              /\ s \in clientObj => s \in clientMap
              /\ s = NoSession \/ s \in serverObj \/ s \in clientObj
              /\ serverObj \cap clientObj = {} /\ NoSession \notin serverObj \cup clientObj
<1> DEFINE f == Head(invalid)
           s == allWork[f]
<1>1. /\ f \in Fd /\ Tail(invalid) \in Seq(Fd)
      /\ Range(invalid) = Range(Tail(invalid)) \cup {f}
  BY NumberTypes, TailRange
<1>2. s # NoSession => s \in ID /\ s \in InUse /\ (alive[s] => sock[s] = f)
  BY <1>1, NumberTypes DEF SocketInv, WorkEntries, InUse
<1>3. /\ serverObj \cap clientObj = {} /\ serverMap \subseteq serverObj
      /\ clientMap \subseteq clientObj /\ NoSession \notin serverObj \cup clientObj
  BY NumberTypes DEF PoolInv, TypeOK, ServerSessionsPartitioned, ClientSessionsDisjoint
<1>4. (s \in serverObj => s \in serverMap) /\ (s \in clientObj => s \in clientMap)
  BY <1>2, <1>3 DEF InUse
<1>5. s = NoSession \/ s \in serverObj \/ s \in clientObj
  BY <1>1 DEF PoolInv, SocketsHeld
<1> QED BY <1>1, <1>2, <1>3, <1>4, <1>5

\* closeInvalidWorkSession ends the use of the session it finds and touches no
\* other, whether that session was closed or not.
LEMMA DestroyEffect ==
    ASSUME PoolInv, SocketInv, CloseInvalidWorkSession
    PROVE  LET f == Head(invalid)
               s == allWork[f]
           IN /\ invalid # <<>> /\ f \in Fd /\ Range(invalid) = Range(invalid') \cup {f}
              /\ InUse' = InUse \ {s}
              /\ \A t \in ID : t # s => sock'[t] = sock[t] /\ alive'[t] = alive[t]
              /\ \A g \in Fd : g # f =>
                     /\ allWork'[g] = allWork[g]
                     /\ allWork[g] # NoSession => allWork[g] # s
              /\ allWork'[f] = NoSession
              /\ epoll' = {t \in epoll : sock[t] # f /\ sock'[t] # NoFd}
<1> DEFINE f == Head(invalid)
           s == allWork[f]
<1>1. /\ invalid # <<>> /\ invalid' = Tail(invalid)
      /\ allWork' = [allWork EXCEPT ![f] = NoSession]
      /\ epoll' = {t \in epoll : sock[t] # f /\ sock'[t] # NoFd}
  BY DEF CloseInvalidWorkSession
<1>2. /\ f \in Fd /\ Range(invalid) = Range(invalid') \cup {f}
      /\ s # NoSession => s \in ID
      /\ s \in serverObj => s \in serverMap
      /\ s \in clientObj => s \in clientMap
      /\ s = NoSession \/ s \in serverObj \/ s \in clientObj
      /\ serverObj \cap clientObj = {} /\ NoSession \notin serverObj \cup clientObj
  BY <1>1, QueuedSession
<1>3. /\ serverMap \subseteq serverObj /\ clientMap \subseteq clientObj
  BY DEF PoolInv, ServerSessionsPartitioned, ClientSessionsDisjoint
<1>4. /\ InUse' = InUse \ {s}
      /\ \A t \in ID : t # s => sock'[t] = sock[t] /\ alive'[t] = alive[t]
  <2>1. CASE s = NoSession
    <3>1. UNCHANGED <<serverVars, clientVars, sock, alive>>
      BY <1>2, <2>1 DEF CloseInvalidWorkSession
    <3> QED BY <2>1, <3>1, NumberTypes DEF serverVars, clientVars, InUse
  <2>2. CASE s \in serverObj
    <3>1. DestroyServerSession(s)
      BY <1>2, <2>2 DEF CloseInvalidWorkSession
    <3>2. s \in serverMap /\ s \notin clientMap
      BY <1>2, <1>3, <2>2
    <3>3. serverMap' = serverMap \ {s} /\ UNCHANGED <<clientMap, sock, alive>>
      BY <3>1, <3>2 DEF DestroyServerSession, clientVars
    <3> HIDE DEF s, f
    <3> QED BY <3>2, <3>3 DEF InUse
  <2>3. CASE s \in clientObj
    <3>1. DestroyClientSession(s)
      BY <1>2, <2>3 DEF CloseInvalidWorkSession
    <3>2. s \in clientMap /\ s \notin serverMap
      BY <1>2, <1>3, <2>3
    <3>3. /\ clientMap' = clientMap \ {s} /\ serverMap' = serverMap
          /\ sock' = [sock EXCEPT ![s] = NoFd] /\ alive' = [alive EXCEPT ![s] = FALSE]
      BY <3>1, <3>2 DEF DestroyClientSession, serverVars
    <3> HIDE DEF s, f
    <3> QED BY <3>2, <3>3, NumberTypes DEF InUse
  <2> QED BY <1>2, <2>1, <2>2, <2>3
<1>5. /\ \A g \in Fd : g # f => /\ allWork'[g] = allWork[g]
                                /\ allWork[g] # NoSession => allWork[g] # s
      /\ allWork'[f] = NoSession
  BY <1>1, <1>2, NumberTypes DEF SocketInv, WorkEntries
<1> QED BY <1>1, <1>2, <1>4, <1>5

\* The number that a close queues.
LEMMA ClosedNumber ==
    ASSUME PoolInv, NEW s \in ID, Closing(s)
    PROVE  /\ Range(invalid') = Range(invalid) \cup {sock[s]} /\ sock[s] \in Fd
           /\ sock' = [sock EXCEPT ![s] = NoFd] /\ alive' = [alive EXCEPT ![s] = FALSE]
           /\ epoll' = epoll \ {s} /\ allWork' = allWork /\ InUse' = InUse
           /\ alive[s]
<1>1. sock[s] \in Fd /\ invalid' = Append(invalid, sock[s])
  BY NumberTypes DEF Closing, Close
<1>2. Range(invalid') = Range(invalid) \cup {sock[s]}
  BY <1>1, NumberTypes, AppendDeque
<1> QED BY <1>1, <1>2 DEF Closing, Close

\* An idle session that is connected: its number is no open socket's.
LEMMA OpenedNumber ==
    ASSUME PoolInv, SocketInv, NEW s \in ID, NEW f \in Fd, Opening(s, f)
    PROVE  /\ sock' = [sock EXCEPT ![s] = f] /\ alive' = [alive EXCEPT ![s] = TRUE]
           /\ epoll' = epoll \cup {s} /\ invalid' = invalid /\ InUse' = InUse \cup {s}
           /\ \/ allWork[f] = NoSession /\ allWork' = [allWork EXCEPT ![f] = s]
              \/ allWork[f] # NoSession /\ allWork' = allWork
           /\ \A t \in ID : sock[t] # f
           /\ s \notin InUse /\ \A g \in Fd : allWork[g] # s
<1>1. \A t \in ID : sock[t] # f
  BY DEF Opening, FreeFd
<1>2. s \notin InUse /\ Clean(s)
  BY InUseNotIdle DEF Opening, SocketInv, InUse
<1> QED BY <1>1, <1>2 DEF Opening, Watch, Clean


\* At the start m_allWorkSessionMap is empty.
LEMMA EntriesInit == Init => EntriesQueued
BY DEF Init, EntriesQueued

\* Every step keeps EntriesQueued.
LEMMA EntriesStep ==
    ASSUME PoolInv, SocketInv, EntriesQueued, [Next]_vars
    PROVE  EntriesQueued'
<1>1. ASSUME NEW s \in ID, Closing(s) PROVE EntriesQueued'
  <2> SUFFICES ASSUME NEW g \in Fd, allWork'[g] # NoSession
               PROVE  alive'[allWork'[g]] \/ g \in Range(invalid')
    BY DEF EntriesQueued
  <2>1. allWork[g] \in ID /\ allWork'[g] = allWork[g]
    BY <1>1, ClosedNumber, NumberTypes
  <2>2. CASE allWork[g] = s
    <3>1. sock[s] = g
      BY <1>1, <2>1, <2>2, ClosedNumber, NumberTypes DEF SocketInv, WorkEntries
    <3> QED BY <1>1, <3>1, ClosedNumber
  <2>3. CASE allWork[g] # s
    <3>1. alive'[allWork[g]] = alive[allWork[g]]
      BY <1>1, <2>1, <2>3, ClosedNumber, NumberTypes
    <3> QED BY <1>1, <2>1, <3>1, ClosedNumber, NumberTypes DEF EntriesQueued
  <2> QED BY <2>2, <2>3
<1>2. ASSUME NEW s \in ID, NEW f \in Fd, Opening(s, f) PROVE EntriesQueued'
  <2> SUFFICES ASSUME NEW g \in Fd, allWork'[g] # NoSession
               PROVE  alive'[allWork'[g]] \/ g \in Range(invalid')
    BY DEF EntriesQueued
  <2>1. CASE allWork'[g] = s
    BY <1>2, <2>1, OpenedNumber, NumberTypes
  <2>2. CASE allWork'[g] # s
    <3>1. allWork'[g] = allWork[g]
      BY <1>2, <2>2, OpenedNumber, NumberTypes
    <3>2. allWork[g] \in ID /\ alive'[allWork[g]] = alive[allWork[g]]
      BY <1>2, <2>2, <3>1, OpenedNumber, NumberTypes
    <3> QED BY <1>2, <3>1, <3>2, OpenedNumber DEF EntriesQueued
  <2> QED BY <2>1, <2>2
<1>3. ASSUME NEW s \in ID, Aside(s) PROVE EntriesQueued'
  <2> SUFFICES ASSUME NEW g \in Fd, allWork[g] # NoSession
               PROVE  alive'[allWork[g]] \/ g \in Range(invalid)
    BY <1>3 DEF EntriesQueued, Aside
  <2>1. allWork[g] \in ID /\ allWork[g] # s
    BY <1>3, NumberTypes DEF SocketInv, WorkEntries, Aside, InUse
  <2>2. alive'[allWork[g]] = alive[allWork[g]]
    BY <1>3, <2>1, NumberTypes DEF Aside
  <2> QED BY <2>2 DEF EntriesQueued
<1>4. CASE CloseInvalidWorkSession
  <2> DEFINE f == Head(invalid)
             s == allWork[f]
  <2>1. /\ f \in Fd /\ Range(invalid) = Range(invalid') \cup {f}
        /\ \A t \in ID : t # s => alive'[t] = alive[t]
        /\ \A g \in Fd : g # f => /\ allWork'[g] = allWork[g]
                                  /\ allWork[g] # NoSession => allWork[g] # s
        /\ allWork'[f] = NoSession
    BY <1>4, DestroyEffect
  <2> HIDE DEF f, s
  <2> SUFFICES ASSUME NEW g \in Fd, allWork'[g] # NoSession
               PROVE  alive'[allWork'[g]] \/ g \in Range(invalid')
    BY DEF EntriesQueued
  <2>2. g # f /\ allWork'[g] = allWork[g] /\ allWork[g] \in ID /\ allWork[g] # s
    BY <2>1, NumberTypes
  <2> QED BY <2>1, <2>2 DEF EntriesQueued
<1>5. CASE Quiet
  BY <1>5 DEF EntriesQueued, Quiet, ioVars
<1> QED BY <1>1, <1>2, <1>3, <1>4, <1>5, StepKinds

\* m_allWorkSessionMap has no entry for a free number that is not queued: insert
\* does not fail.
LEMMA FreeNumberUnlisted ==
    ASSUME PoolInv, SocketInv, EntriesQueued, NEW f \in Fd, f \notin Range(invalid),
           \A t \in ID : sock[t] # f
    PROVE  allWork[f] = NoSession
<1>1. SUFFICES ASSUME allWork[f] # NoSession PROVE FALSE
  OBVIOUS
<1>2. allWork[f] \in ID /\ alive[allWork[f]]
  BY <1>1, NumberTypes DEF EntriesQueued
<1>3. sock[allWork[f]] = f
  BY <1>1, <1>2 DEF SocketInv, WorkEntries
<1> QED BY <1>2, <1>3

\* A connection opened on a number that is not queued starts found.
LEMMA StartsFoundStep ==
    ASSUME PoolInv, SocketInv, EntriesQueued, [Next]_vars
    PROVE  StartsFound
<1>1. ASSUME NEW s \in ID, NEW f \in Fd, Opening(s, f) PROVE StartsFound
  <2>1. InUse' \ InUse = {s} /\ sock'[s] = f /\ invalid' = invalid
    BY <1>1, OpenedNumber, NumberTypes
  <2>2. ASSUME f \notin Range(invalid) PROVE Found(s)'
    <3>1. allWork' = [allWork EXCEPT ![f] = s]
      BY <1>1, <2>2, OpenedNumber, FreeNumberUnlisted
    <3>2. allWork'[f] = s
      BY <3>1, NumberTypes
    <3>3. alive'[s] /\ s \in epoll'
      <4>1. alive' = [alive EXCEPT ![s] = TRUE] /\ epoll' = epoll \cup {s}
        BY <1>1, OpenedNumber
      <4> QED BY <4>1, NumberTypes
    <3> QED BY <2>1, <2>2, <3>2, <3>3 DEF Found
  <2> QED BY <2>1, <2>2 DEF StartsFound
<1>2. ASSUME InUse' \subseteq InUse PROVE StartsFound
  BY <1>2 DEF StartsFound
<1>3. ASSUME NEW s \in ID, Closing(s) \/ Aside(s) PROVE InUse' \subseteq InUse
  BY <1>3 DEF Closing, Aside
<1>4. CloseInvalidWorkSession => InUse' \subseteq InUse
  BY DestroyEffect
<1>5. Quiet => InUse' \subseteq InUse
  BY DEF Quiet
<1> QED BY <1>1, <1>2, <1>3, <1>4, <1>5, StepKinds

\* A session that is found is found after every step in which it is not
\* destroyed.
LEMMA StaysFoundStep ==
    ASSUME PoolInv, SocketInv, [Next]_vars
    PROVE  StaysFound
<1> SUFFICES ASSUME NEW t \in InUse, Found(t), t \in InUse' PROVE Found(t)'
  BY DEF StaysFound
<1>0. t \in ID /\ (alive[t] => sock[t] \in Fd)
  BY NumberTypes
<1>1. ASSUME NEW s \in ID, Closing(s) PROVE Found(t)'
  <2>1. CASE t = s
    <3>1. allWork'[sock[s]] = s /\ sock[s] \in Range(invalid') /\ ~alive'[s]
      BY <1>1, <2>1, ClosedNumber, NumberTypes DEF Found
    <3> QED BY <2>1, <3>1 DEF Found
  <2>2. CASE t # s /\ alive[t]
    <3>1. alive'[t] /\ sock'[t] = sock[t] /\ sock[t] # sock[s]
      BY <1>0, <1>1, <2>2, ClosedNumber, NumberTypes, FdAssumption DEF SocketInv
    <3> QED BY <1>1, <2>2, <3>1, ClosedNumber DEF Found
  <2>3. CASE t # s /\ ~alive[t]
    <3>1. ~alive'[t]
      BY <1>0, <1>1, <2>3, ClosedNumber, NumberTypes
    <3> QED BY <1>1, <2>3, <3>1, ClosedNumber DEF Found
  <2> QED BY <2>1, <2>2, <2>3
<1>2. ASSUME NEW s \in ID, NEW f \in Fd, Opening(s, f) PROVE Found(t)'
  <2>1. t # s /\ alive'[t] = alive[t] /\ sock'[t] = sock[t] /\ sock[t] # f
    BY <1>0, <1>2, OpenedNumber, NumberTypes
  <2>2. \A g \in Fd : allWork[g] = t => allWork'[g] = t
    BY <1>0, <1>2, OpenedNumber, NumberTypes
  <2>3. CASE alive[t]
    BY <1>0, <1>2, <2>1, <2>2, <2>3, OpenedNumber DEF Found
  <2>4. CASE ~alive[t]
    BY <1>2, <2>1, <2>2, <2>4, OpenedNumber, NumberTypes DEF Found
  <2> QED BY <2>3, <2>4
<1>3. ASSUME NEW s \in ID, Aside(s) PROVE Found(t)'
  <2>1. t # s /\ alive'[t] = alive[t] /\ sock'[t] = sock[t] /\ (t \in epoll => t \in epoll')
    BY <1>0, <1>3, NumberTypes DEF Aside
  <2>2. UNCHANGED <<allWork, invalid>>
    BY <1>3 DEF Aside
  <2> QED BY <2>1, <2>2 DEF Found
<1>4. CASE CloseInvalidWorkSession
  <2> DEFINE f == Head(invalid)
             s == allWork[f]
  <2>1. /\ f \in Fd /\ Range(invalid) = Range(invalid') \cup {f}
        /\ InUse' = InUse \ {s}
        /\ \A u \in ID : u # s => sock'[u] = sock[u] /\ alive'[u] = alive[u]
        /\ \A g \in Fd : g # f => allWork'[g] = allWork[g]
        /\ epoll' = {u \in epoll : sock[u] # f /\ sock'[u] # NoFd}
    BY <1>4, DestroyEffect
  <2>2. allWork[f] = s  OBVIOUS
  <2> HIDE DEF f, s
  <2>3. t # s /\ sock'[t] = sock[t] /\ alive'[t] = alive[t]
    BY <1>0, <2>1
  <2>4. CASE alive[t]
    <3>1. sock[t] # f /\ sock[t] # NoFd /\ sock[t] \in Fd
      BY <1>0, <2>1, <2>4, FdAssumption DEF Found
    <3> QED BY <2>1, <2>3, <2>4, <3>1 DEF Found
  <2>5. CASE ~alive[t]
    <3>1. PICK g \in Range(invalid) : allWork[g] = t
      BY <2>5 DEF Found
    <3>2. g \in Fd /\ g # f
      BY <2>2, <2>3, <3>1, NumberTypes
    <3> QED BY <2>1, <2>3, <2>5, <3>1, <3>2 DEF Found
  <2> QED BY <2>4, <2>5
<1>5. CASE Quiet
  BY <1>5 DEF Found, Quiet, ioVars
<1> QED BY <1>1, <1>2, <1>3, <1>4, <1>5, StepKinds

\* A live session that is destroyed has the number that was queued.
LEMMA DestroysUnfoundStep ==
    ASSUME PoolInv, SocketInv
    PROVE  DestroysUnfound
<1> SUFFICES ASSUME NEW s \in ID, DestroysLive(s) PROVE s \in InUse /\ ~Found(s)
  BY DEF DestroysUnfound
<1>1. invalid # <<>> /\ s = allWork[Head(invalid)] /\ s # NoSession /\ alive[s]
  BY DEF DestroysLive, CloseInvalidWorkSession
<1>2. s \in InUse /\ sock[s] = Head(invalid) /\ Head(invalid) \in Range(invalid)
  BY <1>1, QueuedSession
<1> QED BY <1>1, <1>2 DEF Found

-----------------------------------------------------------------------------
(* Sessions that the NDClientNetIOs hold, and notices. *)

\* At the start nobody holds a session and no notice waits.
LEMMA HeldInit == Init => HeldSessionsChecked /\ NoticesOfServers
<1>1. Range(<<>>) = {}  BY DEF Range
<1> QED BY <1>1 DEF Init, HeldSessionsChecked, NoticesOfServers

\* Steps that open no connection, close none that is held, and do not come round
\* the loop.
LEMMA HeldFrame ==
    ASSUME HeldSessionsChecked, clientObj' = clientObj, netIO' \subseteq netIO,
           clientMap' \subseteq clientMap,
           \A s \in netIO' : alive'[s] = alive[s],
           \/ phase' = phase
           \/ phase = "check" /\ phase' = "accept"
           \/ phase = "accept" /\ phase' = "timer"
           \/ phase = "timer" /\ phase' = "close"
           \/ phase = "close" /\ phase' = "gc"
           \/ phase = "gc" /\ phase' = "wait"
           \/ phase' \in {"event", "task", "run"}
    PROVE  HeldSessionsChecked'
<1>1. phase' \in {"check", "accept", "timer"} => phase \in {"check", "accept", "timer"}
  OBVIOUS
<1>2. phase' \in {"close", "gc", "wait"} => phase \in {"timer", "close", "gc", "wait"}
  OBVIOUS
<1> QED BY <1>1, <1>2 DEF HeldSessionsChecked

\* connect() takes a session that is not alive, so none that is held while the
\* connections are checked.
LEMMA HeldClientConnect ==
    ASSUME PoolInv, SocketInv, HeldSessionsChecked, NEW s \in ID, NEW f \in Fd,
           \/ ClientConnect(s, f)
           \/ \E live \in BOOLEAN : ClientConnectFail(s, f, live)
           \/ ClientConnectUnwatched(s, f)
    PROVE  HeldSessionsChecked'
<1>1. /\ TakeClientSession(s) /\ UNCHANGED phase /\ phase \in ConnectPhases
      /\ \/ netIO' = netIO
         \/ netIO' = netIO \cup {s} /\ alive' = [alive EXCEPT ![s] = TRUE]
      /\ \E live \in BOOLEAN : alive' = [alive EXCEPT ![s] = live]
  BY DEF ClientConnect, ClientConnectFail, ClientConnectUnwatched, Watch
<1>2. clientObj \subseteq clientObj' /\ s \in clientObj' /\ ~alive[s]
  <2>1. s \in Idle
    BY <1>1, TakeClient DEF Idle
  <2> QED BY <1>1, <2>1, TakeClient, LiveNotIdle
<1>3. netIO' \subseteq clientObj'
  BY <1>1, <1>2 DEF HeldSessionsChecked
<1>4. ASSUME phase = "check" PROVE \A t \in netIO' : alive'[t]
  <2>1. \A t \in netIO : alive[t]
    BY <1>4 DEF HeldSessionsChecked
  <2> QED BY <1>1, <1>2, <2>1, NumberTypes
<1> QED BY <1>1, <1>3, <1>4 DEF HeldSessionsChecked, ConnectPhases

\* What closeInvalidWorkSession destroys is no longer in the map.
LEMMA HeldCloseInvalid ==
    ASSUME PoolInv, SocketInv, HeldSessionsChecked, CloseInvalidWorkSession
    PROVE  HeldSessionsChecked'
<1> DEFINE f == Head(invalid)
           s == allWork[f]
<1>1. phase = "close" /\ UNCHANGED <<phase, clientObj, netIO>>
  <2>1. invalid # <<>> /\ phase = "close" /\ UNCHANGED <<phase, clientObj>>
    BY DEF CloseInvalidWorkSession, poolVars
  <2> QED BY <2>1, QueuedSession
          DEF CloseInvalidWorkSession, DestroyServerSession, DestroyClientSession, clientVars
<1>2. /\ InUse' = InUse \ {s}
      /\ \A t \in ID : t # s => alive'[t] = alive[t]
  BY DestroyEffect
<1> HIDE DEF s
<1>3. serverObj \cap clientObj = {} /\ serverObj' = serverObj /\ serverMap' \subseteq serverObj'
  <2>1. PoolInv'
    BY PoolStep DEF Next
  <2> QED BY <2>1
      DEF PoolInv, ServerSessionsPartitioned, ClientSessionsDisjoint, CloseInvalidWorkSession,
          poolVars
<1>4. ASSUME NEW t \in netIO' \cap clientMap' PROVE alive'[t]
  <2>1. t \in InUse /\ t # s /\ t \in ID /\ t \in netIO
    BY <1>1, <1>2, <1>4, NumberTypes DEF InUse
  <2>2. t \in clientMap
    BY <1>1, <1>3, <2>1 DEF InUse, PoolInv, ServerSessionsPartitioned, HeldSessionsChecked
  <2> QED BY <1>1, <1>2, <2>1, <2>2 DEF HeldSessionsChecked
<1> QED BY <1>1, <1>4 DEF HeldSessionsChecked

\* Every step keeps it.
LEMMA HeldStep ==
    ASSUME PoolInv, SocketInv, HeldSessionsChecked, [Next]_vars
    PROVE  HeldSessionsChecked'
<1>0. /\ alive \in [ID -> BOOLEAN] /\ netIO \subseteq ID /\ netIO \subseteq clientObj
      /\ \A s \in serverMap \cup releaseMap \cup prep : s \notin netIO
  BY DEF PoolInv, TypeOK, ServerSessionsPartitioned, ClientSessionsDisjoint,
         HeldSessionsChecked
<1>1. ASSUME NEW s \in ID, NEW f \in Fd,
             \/ ClientConnect(s, f)
             \/ \E live \in BOOLEAN : ClientConnectFail(s, f, live)
             \/ ClientConnectUnwatched(s, f)
      PROVE  HeldSessionsChecked'
  BY <1>1, HeldClientConnect
<1>2. ASSUME NEW s \in ID, ClientDisConnect(s) PROVE HeldSessionsChecked'
  <2>1. /\ netIO' = netIO \ {s}
        /\ alive' = alive \/ alive' = [alive EXCEPT ![s] = FALSE]
        /\ UNCHANGED <<phase, clientObj, clientMap>>
    BY <1>2 DEF ClientDisConnect, Close, ioVars, poolVars
  <2>2. \A t \in netIO' : alive'[t] = alive[t]
    BY <1>0, <2>1
  <2> QED BY <2>1, <2>2, HeldFrame
<1>3. ASSUME NEW s \in ID,
             \/ \E f \in Fd : AcceptServerSession(s, f)
             \/ PingTimeout(s) \/ DisConnectClient(s) \/ ReleaseTimeout(s)
      PROVE  HeldSessionsChecked'
  <2>1. /\ s \in prep \cup serverMap \cup releaseMap
        /\ \E live \in BOOLEAN : alive' = [alive EXCEPT ![s] = live]
        /\ UNCHANGED <<phase, clientObj, clientMap, netIO>>
    BY <1>3 DEF AcceptServerSession, PingTimeout, DisConnectClient, ReleaseTimeout, Watch,
                Close, poolVars, clientVars
  <2>2. \A t \in netIO : alive'[t] = alive[t]
    BY <1>0, <2>1
  <2> QED BY <2>1, <2>2, HeldFrame
<1>4. CASE CloseInvalidWorkSession
  BY <1>4, HeldCloseInvalid
<1>5. CASE ReadStep
  <2>1. phase = "event" /\ UNCHANGED <<phase, clientObj, netIO>>
    BY <1>5 DEF ReadStep, HandleRead, poolVars, clientVars
  <2> QED BY <2>1 DEF HeldSessionsChecked
<1>6. CASE EndRun
  <2>1. /\ phase' = "check" /\ netIO' = {s \in netIO : alive[s]}
        /\ UNCHANGED <<clientObj, alive>>
    BY <1>6 DEF EndRun, ioVars, poolVars
  <2> QED BY <2>1 DEF HeldSessionsChecked
<1>7. CASE \/ CreateServerSession \/ (\E s \in ID : AcceptNone(s) \/ AcceptInitFail(s))
           \/ EndAccept \/ EndCheck \/ EndTimer \/ EndClose \/ EndGc \/ EpollWait
           \/ EndEvent \/ DisposeMessage \/ EndTask \/ UNCHANGED vars
  <2>1. /\ UNCHANGED <<clientObj, clientMap, netIO, alive>>
        /\ \/ phase' = phase
           \/ phase = "check" /\ phase' = "accept"
           \/ phase = "accept" /\ phase' = "timer"
           \/ phase = "timer" /\ phase' = "close"
           \/ phase = "close" /\ phase' = "gc"
           \/ phase = "gc" /\ phase' = "wait"
           \/ phase' \in {"event", "task", "run"}
    BY <1>7 DEF CreateServerSession, AcceptNone, AcceptInitFail, ReleasePrep, EndAccept,
                EndCheck, EndTimer, EndClose, EndGc, EpollWait, EndEvent, DisposeMessage,
                EndTask, vars, poolVars, clientVars, ioVars
  <2> QED BY <2>1, HeldFrame
<1> QED
  BY <1>1, <1>2, <1>3, <1>4, <1>5, <1>6, <1>7 DEF Next, ClientStep, AcceptStep

\* A held session goes back to the deque when it is destroyed alive: one that was
\* closed before the check is held no more, and none is closed in between.
LEMMA HeldGivenBackStep ==
    ASSUME PoolInv, SocketInv, HeldSessionsChecked, [Next]_vars
    PROVE  HeldGivenBack
<1> SUFFICES ASSUME NEW t \in netIO' \cap Range(createClientDeque'),
                    t \notin Range(createClientDeque)
             PROVE  DestroysLive(t)
  BY DEF HeldGivenBack
<1>1. ASSUME NEW s \in ID, NEW f \in Fd,
             \/ ClientConnect(s, f)
             \/ \E live \in BOOLEAN : ClientConnectFail(s, f, live)
             \/ ClientConnectUnwatched(s, f)
      PROVE  FALSE
  <2>1. TakeClientSession(s) /\ netIO' \subseteq netIO \cup {s}
    BY <1>1 DEF ClientConnect, ClientConnectFail, ClientConnectUnwatched
  <2>2. s \notin Range(createClientDeque') /\ t \in ID \ (serverObj \cup clientObj)
    BY <2>1, TakeClient
  <2> QED BY <2>1, <2>2 DEF HeldSessionsChecked
<1>2. CASE CloseInvalidWorkSession
  <2> DEFINE f == Head(invalid)
             s == allWork[f]
  <2>1. /\ phase = "close" /\ invalid # <<>>
        /\ CASE s = NoSession    -> UNCHANGED <<serverVars, clientVars, taskQueue, sock, alive>>
             [] s \in serverObj  -> DestroyServerSession(s)
             [] s \in clientObj  -> DestroyClientSession(s)
    BY <1>2 DEF CloseInvalidWorkSession
  <2>2. /\ s \in clientObj => s \in clientMap
        /\ s = NoSession \/ s \in serverObj \/ s \in clientObj
        /\ serverObj \cap clientObj = {} /\ NoSession \notin serverObj \cup clientObj
    BY <2>1, QueuedSession
  <2> HIDE DEF s
  <2>3. s \in clientObj /\ DestroyClientSession(s)
    <3>1. CASE s = NoSession \/ s \in serverObj
      <4>1. createClientDeque' = createClientDeque
        BY <2>1, <2>2, <3>1 DEF DestroyServerSession, clientVars
      <4> QED BY <4>1
    <3> QED BY <2>1, <2>2, <3>1
  <2>4. netIO' = netIO /\ createClientDeque' = Append(createClientDeque, s) /\ s \in ID
    BY <2>2, <2>3 DEF DestroyClientSession, PoolInv, TypeOK
  <2>5. Range(createClientDeque') = Range(createClientDeque) \cup {s}
    BY <2>4, AppendDeque DEF PoolInv, TypeOK
  <2>6. t = s /\ s \in netIO /\ s # NoSession
    BY <2>2, <2>3, <2>4, <2>5
  <2>7. alive[s]
    BY <2>1, <2>2, <2>3, <2>6 DEF HeldSessionsChecked
  <2> QED BY <1>2, <2>6, <2>7 DEF DestroysLive, s
<1>3. CASE UNCHANGED createClientDeque
  BY <1>3
<1>4. ASSUME NEW s \in ID,
             \/ ClientDisConnect(s) \/ \E f \in Fd : AcceptServerSession(s, f)
             \/ AcceptNone(s) \/ AcceptInitFail(s)
             \/ PingTimeout(s) \/ DisConnectClient(s) \/ ReleaseTimeout(s)
      PROVE  UNCHANGED createClientDeque
  BY <1>4 DEF ClientDisConnect, AcceptServerSession, AcceptNone, AcceptInitFail, ReleasePrep,
              PingTimeout, DisConnectClient, ReleaseTimeout, clientVars
<1>5. ASSUME \/ EndCheck \/ CreateServerSession \/ EndAccept \/ EndTimer \/ EndClose \/ EndGc
             \/ EpollWait \/ ReadStep \/ EndEvent \/ DisposeMessage \/ EndTask \/ EndRun
             \/ UNCHANGED vars
      PROVE  UNCHANGED createClientDeque
  BY <1>5 DEF EndCheck, CreateServerSession, EndAccept, EndTimer, EndClose, EndGc, EpollWait,
              ReadStep, HandleRead, EndEvent, DisposeMessage, EndTask, EndRun, vars, clientVars
<1> QED
  BY <1>1, <1>2, <1>3, <1>4, <1>5 DEF Next, ClientStep, AcceptStep

\* Only server sessions are announced.
LEMMA NoticesStep ==
    ASSUME PoolInv, SocketInv, NoticesOfServers, [Next]_vars
    PROVE  NoticesOfServers'
<1>1. ASSUME serverObj \subseteq serverObj',
             \A m \in Range(taskQueue') \ Range(taskQueue) :
                 m.kind = "disconnect" => m.id \in serverObj
      PROVE  NoticesOfServers'
  BY <1>1 DEF NoticesOfServers
<1>2. CASE CloseInvalidWorkSession
  <2> DEFINE f == Head(invalid)
             s == allWork[f]
  <2>1. /\ invalid # <<>> /\ UNCHANGED serverObj
        /\ CASE s = NoSession    -> UNCHANGED <<serverVars, clientVars, taskQueue, sock, alive>>
             [] s \in serverObj  -> DestroyServerSession(s)
             [] s \in clientObj  -> DestroyClientSession(s)
    BY <1>2 DEF CloseInvalidWorkSession, poolVars
  <2>2. /\ s = NoSession \/ s \in serverObj \/ s \in clientObj
        /\ serverObj \cap clientObj = {} /\ NoSession \notin serverObj \cup clientObj
    BY <2>1, QueuedSession
  <2> HIDE DEF s
  <2>3. CASE s = NoSession \/ s \in clientObj
    <3>1. taskQueue' = taskQueue
      BY <2>1, <2>2, <2>3 DEF DestroyClientSession
    <3> QED BY <1>1, <2>1, <3>1
  <2>4. CASE s \in serverObj
    <3>1. taskQueue' = Append(taskQueue, Disconnect(s))
      BY <2>1, <2>2, <2>4 DEF DestroyServerSession
    <3>2. Disconnect(s) \in Message /\ Disconnect(s).id \in serverObj
      BY <2>4 DEF PoolInv, TypeOK, Disconnect, Message
    <3>3. Range(taskQueue') = Range(taskQueue) \cup {Disconnect(s)}
      BY <3>1, <3>2, AppendDeque DEF PoolInv, TypeOK
    <3> QED BY <1>1, <2>1, <3>2, <3>3
  <2> QED BY <2>2, <2>3, <2>4
<1>3. ASSUME NEW s \in ID, NEW n \in 0..MaxPackets, NEW closes \in BOOLEAN,
             HandleRead(s, n, closes)
      PROVE  NoticesOfServers'
  <2> DEFINE requests == [i \in 1..n |-> Request(s)]
  <2>1. /\ taskQueue' = taskQueue \/ taskQueue' = taskQueue \o requests
        /\ UNCHANGED serverObj
    BY <1>3 DEF HandleRead, poolVars
  <2>2. requests \in Seq(Message) /\ taskQueue \in Seq(Message)
    <3>1. Request(s) \in Message  BY DEF Request, Message
    <3>2. requests \in [1..n -> Message]  BY <3>1
    <3>3. n \in Nat  BY BoundAssumption
    <3> QED BY <3>2, <3>3 DEF PoolInv, TypeOK
  <2>3. \A m \in Range(requests) : m.kind = "request"
    BY DEF Range, Request
  <2> HIDE DEF requests
  <2>4. \A m \in Range(taskQueue') : m \in Range(taskQueue) \/ m \in Range(requests)
    <3>1. CASE taskQueue' = taskQueue  BY <3>1
    <3>2. CASE taskQueue' = taskQueue \o requests
      <4>1. Range(taskQueue \o requests) = Range(taskQueue) \cup Range(requests)
        BY <2>2, QueueRange
      <4> QED BY <3>2, <4>1
    <3> QED BY <2>1, <3>1, <3>2
  <2> QED BY <1>1, <2>1, <2>3, <2>4
<1>4. CASE DisposeMessage
  <2>1. Range(taskQueue') \subseteq Range(taskQueue) /\ UNCHANGED serverObj
    BY <1>4, QueueRange DEF DisposeMessage, PoolInv, TypeOK, poolVars
  <2> QED BY <1>1, <2>1
<1>5. ASSUME UNCHANGED taskQueue, serverObj \subseteq serverObj' PROVE NoticesOfServers'
  BY <1>1, <1>5
<1>6. ASSUME NEW s \in ID,
             \/ \E f \in Fd : \/ ClientConnect(s, f) \/ ClientConnectUnwatched(s, f)
                              \/ \E live \in BOOLEAN : ClientConnectFail(s, f, live)
                              \/ AcceptServerSession(s, f)
             \/ ClientDisConnect(s) \/ AcceptNone(s) \/ AcceptInitFail(s)
             \/ PingTimeout(s) \/ DisConnectClient(s) \/ ReleaseTimeout(s)
      PROVE  UNCHANGED <<taskQueue, serverObj>>
  BY <1>6 DEF ClientConnect, ClientConnectUnwatched, ClientConnectFail, TakeClientSession,
              AcceptServerSession, ClientDisConnect, AcceptNone, AcceptInitFail, ReleasePrep,
              PingTimeout, DisConnectClient, ReleaseTimeout, poolVars
<1>7. ASSUME CreateServerSession PROVE UNCHANGED taskQueue /\ serverObj \subseteq serverObj'
  BY <1>7 DEF CreateServerSession
<1>8. ASSUME \/ EndCheck \/ EndAccept \/ EndTimer \/ EndClose \/ EndGc
             \/ EpollWait \/ EndEvent \/ EndTask \/ EndRun \/ UNCHANGED vars
      PROVE  UNCHANGED <<taskQueue, serverObj>>
  BY <1>8 DEF EndCheck, EndAccept, EndTimer, EndClose, EndGc, EpollWait, EndEvent, EndTask,
              EndRun, vars, poolVars
<1> QED
  BY <1>2, <1>3, <1>4, <1>5, <1>6, <1>7, <1>8 DEF Next, ClientStep, AcceptStep, ReadStep

\* ReuseInv is inductive on top of IInv, on any kernel.
LEMMA ReuseInductive == Spec => []ReuseInv
<1>1. Init => ReuseInv
  BY EntriesInit, HeldInit DEF ReuseInv
<1>2. IInv /\ ReuseInv /\ [Next]_vars => ReuseInv'
  BY IInvParts, EntriesStep, HeldStep, NoticesStep DEF ReuseInv
<1> QED BY <1>1, <1>2, Inductive, PTL DEF Spec

-----------------------------------------------------------------------------
(* The session layer implements ConnectionService and ClientPool. *)

\* What all the steps below need of the invariants.
LEMMA Facts ==
    ASSUME IInv, ReuseInv
    PROVE  /\ PoolInv /\ SocketInv /\ QueueInv
           /\ alive \in [ID -> BOOLEAN] /\ taskQueue \in Seq(Message)
           /\ serverMap \subseteq ID /\ clientMap \subseteq ID /\ releaseMap \subseteq ID
           /\ serverMap \cap clientMap = {} /\ serverMap \cap releaseMap = {}
           /\ clientMap \cap releaseMap = {}
           /\ \A s \in Idle : s \notin serverMap \cup clientMap \cup releaseMap
<1>1. PoolInv /\ TypeOK  BY DEF IInv, PoolInv
<1>2. /\ serverMap \cap clientMap = {} /\ serverMap \cap releaseMap = {}
      /\ clientMap \cap releaseMap = {}
  BY <1>1 DEF PoolInv, ServerSessionsPartitioned, ClientSessionsDisjoint
<1> QED BY <1>1, <1>2, IInvParts, InUseNotIdle DEF TypeOK

\* ConnState as a function: the state function that implements conn.
connBar == [s \in ID |-> ConnState(s)]

\* The state of each ID in terms of the containers, without an order of cases.
LEMMA StateOf ==
    ASSUME IInv, ReuseInv, NEW s \in ID
    PROVE  /\ connBar[s] = ConnState(s)
           /\ s \in clientMap => ConnState(s) = "outgoing"
           /\ s \in serverMap /\ alive[s] => ConnState(s) = "open"
           /\ s \in serverMap /\ ~alive[s] => ConnState(s) = "closed"
           /\ s \in releaseMap => ConnState(s) = "ended"
           /\ s \notin clientMap \cup serverMap \cup releaseMap => ConnState(s) = "spare"
BY Facts DEF connBar, ConnState

\* An ID whose containers and alive flag do not change keeps its state.
LEMMA SameState ==
    ASSUME NEW s, s \in serverMap' <=> s \in serverMap,
           s \in clientMap' <=> s \in clientMap,
           s \in releaseMap' <=> s \in releaseMap,
           s \in serverMap => alive'[s] = alive[s]
    PROVE  ConnState(s)' = ConnState(s)
BY DEF ConnState

\* A step that changes the state of one ID at most.
LEMMA BecomeState ==
    ASSUME NEW s \in ID, \A t \in ID : t # s => ConnState(t)' = ConnState(t)
    PROVE  Service!Become(s, ConnState(s)')
BY DEF Service!Become

\* The session layer starts as the service does.
LEMMA ServiceInit == Init => Service!Init
BY DEF Init, Service!Init, ConnState

\* Steps that the users of the service do not see.
LEMMA ServiceStutter ==
    ASSUME UNCHANGED <<taskQueue, serverMap, clientMap, releaseMap>>,
           \A s \in serverMap : alive'[s] = alive[s]
    PROVE  UNCHANGED Service!vars
<1>1. \A s \in ID : ConnState(s)' = ConnState(s)
  BY SameState
<1> QED BY <1>1 DEF Service!vars

\* handleClose.
LEMMA ServiceClose ==
    ASSUME IInv, ReuseInv, NEW s \in ID, alive[s], Close(s),
           UNCHANGED <<taskQueue, serverMap, clientMap, releaseMap>>
    PROVE  [Service!Next]_(Service!vars)
<1>1. alive' = [alive EXCEPT ![s] = FALSE] /\ \A t \in ID : t # s => alive'[t] = alive[t]
  BY Facts DEF Close
<1>2. \A t \in ID : t # s => ConnState(t)' = ConnState(t)
  BY <1>1, SameState
<1>3. CASE s \in serverMap
  <2>1. ConnState(s) = "open" /\ ConnState(s)' = "closed"
    BY <1>1, <1>3, Facts DEF ConnState
  <2>2. Service!Close(s)
    BY <1>2, <2>1, BecomeState DEF Service!Close
  <2> QED BY <2>2 DEF Service!Next
<1>4. CASE s \notin serverMap
  <2>1. \A t \in serverMap : alive'[t] = alive[t]
    BY <1>1, <1>4, Facts
  <2> QED BY <2>1, ServiceStutter
<1> QED BY <1>3, <1>4

\* A connection is opened on an ID about which no message waits.
LEMMA ServiceOpen ==
    ASSUME IInv, ReuseInv, NEW s \in ID, s \in Idle, NEW state,
           \A m \in Range(taskQueue) : m.id # s,
           \A t \in ID : t # s => ConnState(t)' = ConnState(t),
           ConnState(s)' = state, state \in {"open", "outgoing"}, UNCHANGED taskQueue
    PROVE  Service!Next
<1>1. ConnState(s) = "spare"
  BY Facts, StateOf
<1>2. Service!Become(s, state)
  BY BecomeState
<1>3. ~Service!Waiting(s)
  BY DEF Service!Waiting, Service!Range, Range
<1>4. Service!Open(s, state)
  BY <1>1, <1>2, <1>3 DEF Service!Open
<1> QED BY <1>4 DEF Service!Next

\* A connect() is an opening of the service, or nothing to it.
LEMMA ServiceClientConnect ==
    ASSUME IInv, ReuseInv, NEW s \in ID, NEW f \in Fd,
           \/ ClientConnect(s, f)
           \/ \E live \in BOOLEAN : ClientConnectFail(s, f, live)
           \/ ClientConnectUnwatched(s, f)
    PROVE  [Service!Next]_(Service!vars)
<1>1. /\ TakeClientSession(s)
      /\ UNCHANGED <<serverObj, serverVars, taskQueue>>
      /\ \E live \in BOOLEAN : alive' = [alive EXCEPT ![s] = live]
  BY DEF ClientConnect, ClientConnectFail, ClientConnectUnwatched, TakeClientSession, Watch
<1>2. /\ s \in Range(createClientDeque) \cup (ID \ (serverObj \cup clientObj))
      /\ s \in clientObj' /\ serverObj \cap clientObj' = {}
  BY <1>1, Facts, TakeClient
<1>3. s \in Idle /\ s \notin serverMap \cup clientMap \cup releaseMap
  BY <1>2, Facts DEF Idle
<1>4. UNCHANGED <<serverMap, releaseMap>> /\ \A t \in serverMap : alive'[t] = alive[t]
  BY <1>1, <1>3, Facts DEF serverVars
<1>5. CASE ClientConnect(s, f)
  <2>1. clientMap' = clientMap \cup {s}
    BY <1>5 DEF ClientConnect
  <2>2. ConnState(s)' = "outgoing"
    BY <1>3, <1>4, <2>1 DEF ConnState
  <2>3. \A t \in ID : t # s => ConnState(t)' = ConnState(t)
    BY <1>4, <2>1, SameState
  <2>4. \A m \in Range(taskQueue) : m.id # s
    <3>1. \A m \in Range(taskQueue) : m.kind = "request" \/ m.kind = "disconnect"
      <4>1. \A i \in 1..Len(taskQueue) : taskQueue[i] \in Message
        BY Facts
      <4>2. DOMAIN taskQueue = 1..Len(taskQueue)
        BY Facts
      <4>3. \A m \in Range(taskQueue) : m \in Message
        BY <4>1, <4>2 DEF Range
      <4> QED BY <4>3 DEF Message
    <3>2. \A m \in Range(taskQueue) : m.kind = "request" => m.id \in serverMap \cup clientMap
      BY DEF IInv, MessagesMatchSessions
    <3>3. \A m \in Range(taskQueue) : m.kind = "disconnect" => m.id \in serverObj
      BY DEF ReuseInv, NoticesOfServers
    <3> QED BY <1>2, <1>3, <3>1, <3>2, <3>3
  <2>5. Service!Next
    BY <1>1, <1>3, <2>2, <2>3, <2>4, ServiceOpen
  <2> QED BY <2>5
<1>6. CASE \/ \E live \in BOOLEAN : ClientConnectFail(s, f, live)
           \/ ClientConnectUnwatched(s, f)
  <2>1. UNCHANGED clientMap
    BY <1>6 DEF ClientConnectFail, ClientConnectUnwatched
  <2> QED BY <1>1, <1>4, <2>1, ServiceStutter
<1> QED BY <1>5, <1>6

\* So is an accept.
LEMMA ServiceAccept ==
    ASSUME IInv, ReuseInv, NEW s \in ID, NEW f \in Fd, AcceptServerSession(s, f)
    PROVE  Service!Next
<1>1. /\ phase = "accept" /\ s \in prep /\ alive' = [alive EXCEPT ![s] = TRUE]
      /\ serverMap' = serverMap \cup {s}
      /\ UNCHANGED <<releaseMap, clientMap, taskQueue>>
  BY DEF AcceptServerSession, Watch, clientVars
<1>2. s \in Idle /\ s \notin clientMap \cup releaseMap
  BY <1>1, Facts DEF Idle
<1>3. \A m \in Range(taskQueue) : m.id # s
  <2>1. taskQueue = <<>>  BY <1>1 DEF IInv, LoopOrder
  <2> QED BY <2>1 DEF Range
<1>4. alive'[s] /\ \A t \in ID : t # s => alive'[t] = alive[t]
  BY <1>1, Facts
<1>5. \A t \in ID : t # s => ConnState(t)' = ConnState(t)
  BY <1>1, <1>4, SameState
<1>6. ConnState(s)' = "open"
  BY <1>1, <1>2, <1>4 DEF ConnState
<1> QED BY <1>1, <1>2, <1>3, <1>5, <1>6, ServiceOpen

\* A live incoming connection whose number was queued before it was opened is
\* announced without having been closed.
EndsOpen(s) ==
    /\ DestroysLive(s) /\ ConnState(s) = "open"
    /\ Service!Become(s, "ended")
    /\ taskQueue' = Append(taskQueue, Disconnect(s))

\* NDServerSession::destroy, of a closed session or of a live one.
LEMMA ServiceDestroyServer ==
    ASSUME IInv, ReuseInv, NEW s \in ID, s \in serverMap, DestroyServerSession(s),
           alive[s] => DestroysLive(s)
    PROVE  Service!Next \/ EndsOpen(s)
<1>1. /\ taskQueue' = Append(taskQueue, Disconnect(s))
      /\ serverMap' = serverMap \ {s} /\ releaseMap' = releaseMap \cup {s}
      /\ UNCHANGED <<clientMap, alive>>
  BY DEF DestroyServerSession, clientVars
<1>2. \A t \in ID : t # s => ConnState(t)' = ConnState(t)
  BY <1>1, SameState
<1>3. ConnState(s)' = "ended" /\ Service!Become(s, "ended")
  <2>1. ConnState(s)' = "ended"
    BY <1>1, Facts DEF ConnState
  <2> QED BY <1>2, <2>1, BecomeState
<1>4. CASE ~alive[s]
  <2>1. ConnState(s) = "closed"
    BY <1>4, Facts DEF ConnState
  <2>2. Service!Announce(s)
    BY <1>1, <1>3, <2>1 DEF Service!Announce, Service!Disconnect, Disconnect
  <2> QED BY <2>2 DEF Service!Next
<1>5. CASE alive[s]
  <2>1. ConnState(s) = "open"
    BY <1>5, Facts DEF ConnState
  <2> QED BY <1>1, <1>3, <1>5, <2>1 DEF EndsOpen
<1> QED BY <1>4, <1>5

\* NDClientSession::destroy.
LEMMA ServiceDestroyClient ==
    ASSUME IInv, ReuseInv, NEW s \in ID, s \in clientMap, DestroyClientSession(s)
    PROVE  Service!Next
<1>1. /\ clientMap' = clientMap \ {s} /\ alive' = [alive EXCEPT ![s] = FALSE]
      /\ UNCHANGED <<serverMap, releaseMap, taskQueue>>
  BY DEF DestroyClientSession, serverVars
<1>2. \A t \in ID : t # s => alive'[t] = alive[t]
  BY <1>1, Facts
<1>3. \A t \in ID : t # s => ConnState(t)' = ConnState(t)
  BY <1>1, <1>2, SameState
<1>4. ConnState(s) = "outgoing" /\ ConnState(s)' = "spare"
  BY <1>1, Facts DEF ConnState
<1>5. Service!Recycle(s)
  BY <1>1, <1>3, <1>4, BecomeState DEF Service!Recycle
<1> QED BY <1>5 DEF Service!Next

\* The one place that announces the end of a connection.
LEMMA ServiceCloseInvalid ==
    ASSUME IInv, ReuseInv, CloseInvalidWorkSession
    PROVE  [Service!Next]_(Service!vars) \/ \E s \in ID : EndsOpen(s)
<1> DEFINE f == Head(invalid)
           s == allWork[f]
<1>1. invalid # <<>>
  BY DEF CloseInvalidWorkSession
<1>2. /\ s # NoSession => s \in ID
      /\ s \in serverObj => s \in serverMap
      /\ s \in clientObj => s \in clientMap
      /\ s = NoSession \/ s \in serverObj \/ s \in clientObj
      /\ serverObj \cap clientObj = {} /\ NoSession \notin serverObj \cup clientObj
  BY <1>1, QueuedSession, Facts
<1>3. CASE s = NoSession
  <2>1. UNCHANGED <<serverVars, clientVars, taskQueue, alive>>
    BY <1>2, <1>3 DEF CloseInvalidWorkSession
  <2> QED BY <2>1, ServiceStutter DEF serverVars, clientVars
<1>4. CASE s \in serverObj
  <2>1. DestroyServerSession(s) /\ s \in serverMap /\ s \in ID /\ s # NoSession
    BY <1>2, <1>4 DEF CloseInvalidWorkSession
  <2>2. alive[s] => DestroysLive(s)
    BY <2>1 DEF DestroysLive
  <2> QED BY <2>1, <2>2, ServiceDestroyServer
<1>5. CASE s \in clientObj
  <2>1. DestroyClientSession(s) /\ s \in clientMap /\ s \in ID
    BY <1>2, <1>5 DEF CloseInvalidWorkSession
  <2> QED BY <2>1, ServiceDestroyClient
<1> QED BY <1>2, <1>3, <1>4, <1>5

\* A release is nothing to the service.
LEMMA ServiceReleaseTimeout ==
    ASSUME IInv, ReuseInv, NEW s \in ID, ReleaseTimeout(s)
    PROVE  Service!Next
<1>1. /\ s \in releaseMap /\ releaseMap' = releaseMap \ {s}
      /\ alive' = [alive EXCEPT ![s] = FALSE]
      /\ UNCHANGED <<serverMap, clientMap, taskQueue>>
  BY DEF ReleaseTimeout, clientVars
<1>2. \A t \in ID : t # s => alive'[t] = alive[t]
  BY <1>1, Facts
<1>3. \A t \in ID : t # s => ConnState(t)' = ConnState(t)
  BY <1>1, <1>2, SameState
<1>4. ConnState(s) = "ended" /\ ConnState(s)' = "spare"
  BY <1>1, Facts DEF ConnState
<1>5. Service!Recycle(s)
  BY <1>1, <1>3, <1>4, BecomeState DEF Service!Recycle
<1> QED BY <1>5 DEF Service!Next

\* A read is requests, an end, or both, of the service.
LEMMA ServiceHandleRead ==
    ASSUME IInv, ReuseInv, NEW s \in ID, NEW n \in 0..MaxPackets,
           NEW closes \in BOOLEAN, HandleRead(s, n, closes)
    PROVE  [Service!Next]_(Service!vars)
<1>1. s \in ready /\ UNCHANGED <<serverMap, clientMap, releaseMap>>
  BY DEF HandleRead, serverVars, clientVars
<1>2. CASE ~alive[s]
  <2>1. UNCHANGED <<taskQueue, alive>>  BY <1>2 DEF HandleRead, ioVars
  <2> QED BY <1>1, <2>1, ServiceStutter
<1>3. CASE alive[s]
  <2>1. s \in serverMap \cup clientMap
    BY <1>1 DEF IInv, DescriptorsOwned
  <2>2. /\ s \in serverMap => ConnState(s) = "open"
        /\ s \in clientMap => ConnState(s) = "outgoing"
    BY <1>3, Facts DEF ConnState
  <2>3. taskQueue' = taskQueue \o [i \in 1..n |-> Service!Request(s)]
    BY <1>3 DEF HandleRead, Request, Service!Request
  <2>4. CASE closes /\ s \in serverMap
    <3>1. alive' = [alive EXCEPT ![s] = FALSE]
      BY <1>3, <2>4 DEF HandleRead, Close
    <3>2. ~alive'[s] /\ \A t \in ID : t # s => alive'[t] = alive[t]
      BY <3>1, Facts
    <3>3. \A t \in ID : t # s => ConnState(t)' = ConnState(t)
      BY <1>1, <3>2, SameState
    <3>4. ConnState(s)' = "closed"
      BY <1>1, <2>4, <3>2, Facts DEF ConnState
    <3>5. Service!Receive(s, n, closes)
      BY <2>2, <2>3, <2>4, <3>3, <3>4, BecomeState DEF Service!Receive
    <3> QED BY <3>5 DEF Service!Next
  <2>5. CASE ~(closes /\ s \in serverMap)
    <3>1. \A t \in serverMap : alive'[t] = alive[t]
      <4>1. alive' = alive \/ (alive' = [alive EXCEPT ![s] = FALSE] /\ s \notin serverMap)
        BY <1>3, <2>5 DEF HandleRead, Close, ioVars
      <4> QED BY <4>1, Facts
    <3>2. \A t \in ID : ConnState(t)' = ConnState(t)
      BY <1>1, <3>1, SameState
    <3>3. closes => ConnState(s) # "open"
      BY <2>1, <2>2, <2>5
    <3>4. Service!Receive(s, n, closes)
      BY <2>1, <2>2, <2>3, <3>2, <3>3 DEF Service!Receive
    <3> QED BY <3>4 DEF Service!Next
  <2> QED BY <2>4, <2>5
<1> QED BY <1>2, <1>3

\* Every step is one of the service's, nothing to it, or ends a live connection.
LEMMA ServiceStep ==
    ASSUME IInv, ReuseInv, [Next]_vars
    PROVE  [Service!Next]_(Service!vars) \/ \E s \in ID : EndsOpen(s)
<1>1. ASSUME NEW s \in ID, NEW f \in Fd,
             \/ ClientConnect(s, f)
             \/ \E live \in BOOLEAN : ClientConnectFail(s, f, live)
             \/ ClientConnectUnwatched(s, f)
      PROVE  [Service!Next]_(Service!vars)
  BY <1>1, ServiceClientConnect
<1>2. ASSUME NEW s \in ID, ClientDisConnect(s) PROVE [Service!Next]_(Service!vars)
  <2>1. UNCHANGED <<taskQueue, serverMap, clientMap, releaseMap>>
    BY <1>2 DEF ClientDisConnect, serverVars
  <2>2. CASE alive[s]
    BY <1>2, <2>1, <2>2, ServiceClose DEF ClientDisConnect
  <2>3. CASE ~alive[s]
    BY <1>2, <2>1, <2>3, ServiceStutter DEF ClientDisConnect, ioVars
  <2> QED BY <2>2, <2>3
<1>3. ASSUME NEW s \in ID, NEW f \in Fd, AcceptServerSession(s, f)
      PROVE  [Service!Next]_(Service!vars)
  BY <1>3, ServiceAccept
<1>4. ASSUME NEW s \in ID, PingTimeout(s) \/ DisConnectClient(s)
      PROVE  [Service!Next]_(Service!vars)
  BY <1>4, ServiceClose DEF PingTimeout, DisConnectClient, serverVars, clientVars
<1>5. CASE CloseInvalidWorkSession
  BY <1>5, ServiceCloseInvalid
<1>6. ASSUME NEW s \in ID, ReleaseTimeout(s) PROVE [Service!Next]_(Service!vars)
  BY <1>6, ServiceReleaseTimeout
<1>7. CASE ReadStep
  BY <1>7, ServiceHandleRead DEF ReadStep
<1>8. CASE DisposeMessage
  <2>1. /\ taskQueue # <<>> /\ taskQueue' = Tail(taskQueue)
        /\ UNCHANGED <<serverMap, clientMap, releaseMap, alive>>
    BY <1>8 DEF DisposeMessage, serverVars, clientVars, ioVars
  <2>2. \A t \in ID : ConnState(t)' = ConnState(t)
    BY <2>1, SameState
  <2>3. Service!Deliver
    BY <2>1, <2>2 DEF Service!Deliver
  <2> QED BY <2>3 DEF Service!Next
<1>9. CASE \/ CreateServerSession \/ (\E s \in ID : AcceptNone(s) \/ AcceptInitFail(s))
           \/ EndCheck \/ EndAccept \/ EndTimer \/ EndClose \/ EndGc \/ EpollWait
           \/ EndEvent \/ EndTask \/ EndRun \/ UNCHANGED vars
  <2>1. UNCHANGED <<alive, taskQueue, serverMap, clientMap, releaseMap>>
    BY <1>9 DEF CreateServerSession, AcceptNone, AcceptInitFail, ReleasePrep, EndCheck,
                EndAccept, EndTimer, EndClose, EndGc, EpollWait, EndEvent,
                EndTask, EndRun, vars, serverVars, clientVars, ioVars
  <2> QED BY <2>1, ServiceStutter
<1> QED
  BY <1>1, <1>2, <1>3, <1>4, <1>5, <1>6, <1>7, <1>8, <1>9
     DEF Next, ClientStep, AcceptStep

\* The client sessions start as the pool does.
LEMMA PoolRefInit == Init => Pool!PoolInit
BY DEF Init, Pool!PoolInit

\* Steps that the pool's users do not see.
LEMMA PoolStutter ==
    ASSUME UNCHANGED <<generateID, createClientDeque, clientMap>>,
           \A s \in clientMap : alive'[s] = alive[s]
    PROVE  UNCHANGED Pool!poolVars
BY DEF Pool!poolVars

\* handleClose, of any session.
LEMMA PoolCloses ==
    ASSUME IInv, ReuseInv, NEW s \in ID, alive[s], Close(s),
           UNCHANGED <<generateID, createClientDeque, clientMap>>
    PROVE  [Pool!PoolNext]_(Pool!poolVars)
<1>1. /\ alive' = [alive EXCEPT ![s] = FALSE] /\ ~alive'[s]
      /\ \A t \in ID : t # s => alive'[t] = alive[t]
  BY Facts DEF Close
<1>2. CASE s \in clientMap
  <2>1. {t \in clientMap' : alive'[t]} = {t \in clientMap : alive[t]} \ {s}
    BY <1>1, Facts
  <2>2. {t \in clientMap' : ~alive'[t]} = {t \in clientMap : ~alive[t]} \cup {s}
    BY <1>1, <1>2, Facts
  <2>3. Pool!CloseSessions({s})
    BY <1>2, <2>1, <2>2 DEF Pool!CloseSessions
  <2>4. {s} \in SUBSET {t \in clientMap : alive[t]}
    BY <1>2
  <2> QED BY <2>3, <2>4 DEF Pool!PoolNext
<1>3. CASE s \notin clientMap
  BY <1>1, <1>3, Facts, PoolStutter
<1> QED BY <1>2, <1>3

\* createClientSession is the pool's Take.
LEMMA PoolTakes ==
    ASSUME IInv, ReuseInv, NEW s \in ID, TakeClientSession(s)
    PROVE  Pool!Take(s) /\ s \in Pool!ID /\ s \notin clientMap
<1>1. NewIDs = Pool!NewIDs
  BY DEF NewIDs, Pool!NewIDs
<1>2. Pool!Take(s)
  BY <1>1 DEF TakeClientSession, CanAllocate, Pool!Take
<1> QED BY <1>2, Facts, TakeClient DEF Pool!ID, ID

\* A connect() takes an ID from the pool.
LEMMA PoolClientConnects ==
    ASSUME IInv, ReuseInv, NEW s \in ID, NEW f \in Fd,
           \/ ClientConnect(s, f)
           \/ \E live \in BOOLEAN : ClientConnectFail(s, f, live)
           \/ ClientConnectUnwatched(s, f)
    PROVE  Pool!PoolNext
<1>1. /\ TakeClientSession(s)
      /\ \E live \in BOOLEAN : alive' = [alive EXCEPT ![s] = live]
  BY DEF ClientConnect, ClientConnectFail, ClientConnectUnwatched, Watch
<1>2. Pool!Take(s) /\ s \in Pool!ID /\ s \notin clientMap
  BY <1>1, PoolTakes
<1>3. \A t \in ID : t # s => alive'[t] = alive[t]
  BY <1>1, Facts
<1>4. CASE ClientConnect(s, f)
  <2>1. clientMap' = clientMap \cup {s} /\ alive' = [alive EXCEPT ![s] = TRUE]
    BY <1>4 DEF ClientConnect, Watch
  <2>2. alive'[s]
    BY <2>1, Facts
  <2>3. {t \in clientMap' : alive'[t]} = {t \in clientMap : alive[t]} \cup {s}
    BY <1>3, <2>1, <2>2, Facts
  <2>4. {t \in clientMap' : ~alive'[t]} = {t \in clientMap : ~alive[t]}
    BY <1>2, <1>3, <2>1, <2>2, Facts
  <2>5. Pool!OpenSession(s)
    BY <1>2, <2>3, <2>4 DEF Pool!OpenSession
  <2> QED BY <1>2, <2>5 DEF Pool!PoolNext
<1>5. CASE \/ \E live \in BOOLEAN : ClientConnectFail(s, f, live)
           \/ ClientConnectUnwatched(s, f)
  <2>1. clientMap' = clientMap
    BY <1>5 DEF ClientConnectFail, ClientConnectUnwatched
  <2>2. \A t \in clientMap : alive'[t] = alive[t]
    BY <1>2, <1>3, Facts
  <2>3. /\ {t \in clientMap' : alive'[t]} = {t \in clientMap : alive[t]}
        /\ {t \in clientMap' : ~alive'[t]} = {t \in clientMap : ~alive[t]}
    BY <2>1, <2>2
  <2>4. Pool!LoseSession(s)
    BY <1>2, <2>3 DEF Pool!LoseSession
  <2> QED BY <1>2, <2>4 DEF Pool!PoolNext
<1> QED BY <1>4, <1>5

\* Server sessions come from the same IDs.
LEMMA PoolServerIDs ==
    ASSUME IInv, ReuseInv, CreateServerSession
    PROVE  [Pool!PoolNext]_(Pool!poolVars)
<1>1. /\ UNCHANGED <<createClientDeque, clientMap, alive>>
      /\ \/ UNCHANGED generateID
         \/ CanAllocate /\ generateID' = generateID + CreateSessionNum
  BY DEF CreateServerSession, clientVars, ioVars
<1>2. CASE UNCHANGED generateID
  BY <1>1, <1>2, PoolStutter
<1>3. CASE CanAllocate /\ generateID' = generateID + CreateSessionNum
  <2>1. Pool!ServerIDs
    BY <1>1, <1>3 DEF Pool!ServerIDs, CanAllocate
  <2> QED BY <2>1 DEF Pool!PoolNext
<1> QED BY <1>1, <1>2, <1>3

\* A live outgoing connection whose number was queued before it was opened goes
\* back to the pool without having been closed.
RecyclesOpen(s) ==
    /\ DestroysLive(s) /\ s \in clientMap
    /\ clientMap' = clientMap \ {s}
    /\ createClientDeque' = Append(createClientDeque, s)
    /\ UNCHANGED generateID

\* NDClientSession::destroy of a closed session, or of a live one.
LEMMA PoolRecycles ==
    ASSUME IInv, ReuseInv, NEW s \in ID, s \in clientMap, alive[s] => DestroysLive(s),
           DestroyClientSession(s), UNCHANGED generateID
    PROVE  Pool!PoolNext \/ RecyclesOpen(s)
<1>1. /\ clientMap' = clientMap \ {s} /\ alive' = [alive EXCEPT ![s] = FALSE]
      /\ createClientDeque' = Append(createClientDeque, s)
  BY DEF DestroyClientSession
<1>2. CASE alive[s]
  BY <1>1, <1>2 DEF RecyclesOpen
<1>3. CASE ~alive[s]
  <2>1. \A t \in ID : alive'[t] = alive[t]
    BY <1>1, <1>3, Facts
  <2>2. /\ {t \in clientMap' : alive'[t]} = {t \in clientMap : alive[t]}
        /\ {t \in clientMap' : ~alive'[t]} = {t \in clientMap : ~alive[t]} \ {s}
    BY <1>1, <1>3, <2>1, Facts
  <2>3. Pool!RecycleSession(s)
    BY <1>1, <1>3, <2>2 DEF Pool!RecycleSession
  <2>4. s \in Pool!ID
    BY DEF Pool!ID, ID
  <2> QED BY <2>3, <2>4 DEF Pool!PoolNext
<1> QED BY <1>2, <1>3

\* closeInvalidWorkSession gives an ID back to the pool, or is nothing to
\* it.
LEMMA PoolCloseInvalids ==
    ASSUME IInv, ReuseInv, CloseInvalidWorkSession
    PROVE  [Pool!PoolNext]_(Pool!poolVars) \/ \E s \in ID : RecyclesOpen(s)
<1> DEFINE f == Head(invalid)
           s == allWork[f]
<1>1. invalid # <<>> /\ UNCHANGED generateID
  BY DEF CloseInvalidWorkSession, poolVars
<1>2. /\ s # NoSession => s \in ID
      /\ s \in clientObj => s \in clientMap
      /\ s = NoSession \/ s \in serverObj \/ s \in clientObj
      /\ serverObj \cap clientObj = {} /\ NoSession \notin serverObj \cup clientObj
  BY <1>1, QueuedSession, Facts
<1>3. CASE s = NoSession \/ s \in serverObj
  <2>1. UNCHANGED <<clientVars, alive>>
    <3>1. CASE s = NoSession
      BY <1>2, <3>1 DEF CloseInvalidWorkSession
    <3>2. CASE s \in serverObj
      <4>1. DestroyServerSession(s)
        BY <1>2, <3>2 DEF CloseInvalidWorkSession
      <4> QED BY <4>1 DEF DestroyServerSession
    <3> QED BY <1>3, <3>1, <3>2
  <2> QED BY <1>1, <2>1, PoolStutter DEF clientVars
<1>4. CASE s \in clientObj
  <2>1. DestroyClientSession(s) /\ s \in clientMap /\ s \in ID /\ s # NoSession
    BY <1>2, <1>4 DEF CloseInvalidWorkSession
  <2>2. alive[s] => DestroysLive(s)
    BY <2>1 DEF DestroysLive
  <2> QED BY <1>1, <2>1, <2>2, PoolRecycles
<1> QED BY <1>2, <1>3, <1>4

\* Every step is one of the pool's, nothing to it, or ends a live connection.
LEMMA PoolRefStep ==
    ASSUME IInv, ReuseInv, [Next]_vars
    PROVE  [Pool!PoolNext]_(Pool!poolVars) \/ \E s \in ID : RecyclesOpen(s)
<1>0. \A s \in serverMap \cup releaseMap \cup prep : s \notin clientMap
  BY Facts DEF PoolInv, ServerSessionsPartitioned, ClientSessionsDisjoint
<1>1. ASSUME NEW s \in ID, NEW f \in Fd,
             \/ ClientConnect(s, f)
             \/ \E live \in BOOLEAN : ClientConnectFail(s, f, live)
             \/ ClientConnectUnwatched(s, f)
      PROVE  [Pool!PoolNext]_(Pool!poolVars)
  BY <1>1, PoolClientConnects
<1>2. ASSUME NEW s \in ID, ClientDisConnect(s) PROVE [Pool!PoolNext]_(Pool!poolVars)
  <2>1. UNCHANGED <<generateID, createClientDeque, clientMap>>
    BY <1>2 DEF ClientDisConnect, poolVars
  <2>2. CASE alive[s]
    BY <1>2, <2>1, <2>2, PoolCloses DEF ClientDisConnect
  <2>3. CASE ~alive[s]
    BY <1>2, <2>1, <2>3, PoolStutter DEF ClientDisConnect, ioVars
  <2> QED BY <2>2, <2>3
<1>3. CASE CreateServerSession
  BY <1>3, PoolServerIDs
<1>4. ASSUME NEW s \in ID,
             \/ \E f \in Fd : AcceptServerSession(s, f)
             \/ ReleaseTimeout(s)
      PROVE  [Pool!PoolNext]_(Pool!poolVars)
  <2>1. /\ s \notin clientMap
        /\ \E live \in BOOLEAN : alive' = [alive EXCEPT ![s] = live]
        /\ UNCHANGED <<generateID, createClientDeque, clientMap>>
    BY <1>0, <1>4 DEF AcceptServerSession, ReleaseTimeout, Watch, poolVars, clientVars
  <2>2. \A t \in clientMap : alive'[t] = alive[t]
    BY <2>1, Facts
  <2> QED BY <2>1, <2>2, PoolStutter
<1>5. ASSUME NEW s \in ID, PingTimeout(s) \/ DisConnectClient(s)
      PROVE  [Pool!PoolNext]_(Pool!poolVars)
  BY <1>5, PoolCloses DEF PingTimeout, DisConnectClient, poolVars, clientVars
<1>6. CASE CloseInvalidWorkSession
  BY <1>6, PoolCloseInvalids
<1>7. ASSUME NEW s \in ID, NEW n \in 0..MaxPackets, NEW closes \in BOOLEAN,
             HandleRead(s, n, closes)
      PROVE  [Pool!PoolNext]_(Pool!poolVars)
  <2>1. UNCHANGED <<generateID, createClientDeque, clientMap>>
    BY <1>7 DEF HandleRead, poolVars, clientVars
  <2>2. CASE alive[s] /\ closes
    BY <1>7, <2>1, <2>2, PoolCloses DEF HandleRead
  <2>3. CASE ~(alive[s] /\ closes)
    BY <1>7, <2>1, <2>3, PoolStutter DEF HandleRead, ioVars
  <2> QED BY <2>2, <2>3
<1>8. CASE \/ (\E s \in ID : AcceptNone(s) \/ AcceptInitFail(s)) \/ EndAccept
           \/ EndCheck \/ EndTimer \/ EndClose \/ EndGc \/ EpollWait \/ EndEvent
           \/ DisposeMessage \/ EndTask \/ EndRun \/ UNCHANGED vars
  <2>1. UNCHANGED <<generateID, createClientDeque, clientMap, alive>>
    BY <1>8 DEF AcceptNone, AcceptInitFail, ReleasePrep, EndAccept, EndCheck, EndTimer,
                EndClose, EndGc, EpollWait, EndEvent, DisposeMessage, EndTask, EndRun,
                vars, poolVars, clientVars, ioVars
  <2> QED BY <2>1, PoolStutter
<1> QED
  BY <1>1, <1>2, <1>3, <1>4, <1>5, <1>6, <1>7, <1>8
     DEF Next, ClientStep, AcceptStep, ReadStep

-----------------------------------------------------------------------------
(* Theorems. *)

\* Type correctness.
THEOREM TypeCorrect == Spec => []TypeOK
<1>1. IInv => TypeOK  BY DEF IInv, PoolInv
<1> QED BY <1>1, Inductive, PTL

\* A server session object is in exactly one container of NDSessionManagerImpl,
\* however accepts, closes, timeouts and failures interleave, and for any
\* allocation batch and number of descriptors.
THEOREM ServerSessionsNeverLost == Spec => []ServerSessionsPartitioned
<1>1. IInv => ServerSessionsPartitioned  BY DEF IInv, PoolInv
<1> QED BY <1>1, Inductive, PTL

\* Client session objects are never in use twice.
THEOREM ClientSessionsNeverShared == Spec => []ClientSessionsDisjoint
<1>1. IInv => ClientSessionsDisjoint  BY DEF IInv, PoolInv
<1> QED BY <1>1, Inductive, PTL

\* m_nSpareNum, m_nAliveNum and m_nCreateNum are the sizes of what they count,
\* so createServerSessionDeque never pops an empty deque.
THEOREM CountersCorrect == Spec => []CountersAgree
<1>1. IInv => CountersAgree  BY DEF IInv, PoolInv
<1> QED BY <1>1, Inductive, PTL

\* A queued request's session is still in its map when the handler looks it up,
\* and no notice about an earlier connection is waiting when an ID is in service:
\* even on a kernel that reuses descriptors at once.
THEOREM MessagesCorrect == Spec => []MessagesMatchSessions
<1>1. IInv => MessagesMatchSessions  BY DEF IInv
<1> QED BY <1>1, Inductive, PTL

\* Objects are clean when they wait for their next connection.
THEOREM SpareSessionsCorrect == Spec => []SpareSessionsClean
<1>1. IInv => SpareSessionsClean  BY DEF IInv
<1> QED BY <1>1, Inductive, PTL

\* A descriptor belongs to one session, and epoll reports live sessions only.
THEOREM DescriptorsCorrect == Spec => []DescriptorsOwned
<1>1. IInv => DescriptorsOwned  BY DEF IInv
<1> QED BY <1>1, Inductive, PTL

-----------------------------------------------------------------------------
\* The theorems below say how far the harm goes that a number given out too early
\* does: the SessionManager_reuse run shows that it happens.

\* A connection can be found and is watched from its first moment on, and its end
\* will be found, unless the kernel gave it a number that was still queued.
THEOREM ConnectionsStartFound == Spec => [][StartsFound]_vars
<1>1. IInv /\ ReuseInv /\ [Next]_vars => StartsFound
  BY IInvParts, StartsFoundStep DEF ReuseInv
<1> QED BY <1>1, Inductive, ReuseInductive, PTL DEF Spec

\* Whatever numbers other connections get, one that started found stays found:
\* live under its socket, closed from the queue, until it is destroyed.
THEOREM ConnectionsStayFound == Spec => [][StaysFound]_vars
<1>1. IInv /\ [Next]_vars => StaysFound
  BY IInvParts, StaysFoundStep
<1> QED BY <1>1, Inductive, PTL DEF Spec

\* closeInvalidWorkSession destroys a live session only if that session started on
\* a queued number: an early reuse never harms another connection.
THEOREM LiveDestroyedUnfound == Spec => [][DestroysUnfound]_vars
<1>1. IInv => DestroysUnfound
  BY IInvParts, DestroysUnfoundStep
<1> QED BY <1>1, Inductive, PTL

\* A session that an NDClientNetIO holds is given to another connect() only if it
\* was destroyed alive.
THEOREM HeldSessionsKept == Spec => [][HeldGivenBack]_vars
<1>1. IInv /\ ReuseInv /\ [Next]_vars => HeldGivenBack
  BY IInvParts, HeldGivenBackStep DEF ReuseInv
<1> QED BY <1>1, Inductive, ReuseInductive, PTL DEF Spec

\* Every step is one of ConnectionService: connections are opened on IDs about
\* which nothing waits, announced once, closed, and after all their requests.  The
\* one exception announces a live connection that started on a queued number.
THEOREM ServiceImplemented ==
    Spec => /\ Service!Init
            /\ [][[Service!Next]_(Service!vars) \/ \E s \in ID : EndsOpen(s)]_vars
<1>1. IInv /\ ReuseInv /\ [Next]_vars =>
          [Service!Next]_(Service!vars) \/ \E s \in ID : EndsOpen(s)
  BY ServiceStep
<1> QED BY <1>1, ServiceInit, Inductive, ReuseInductive, PTL DEF Spec

\* Every step is one of the pool NDServerManager's model is built on, but that a
\* live connection that started on a queued number goes back unclosed.
THEOREM PoolImplemented ==
    Spec => /\ Pool!PoolInit
            /\ [][[Pool!PoolNext]_(Pool!poolVars) \/ \E s \in ID : RecyclesOpen(s)]_vars
<1>1. IInv /\ ReuseInv /\ [Next]_vars =>
          [Pool!PoolNext]_(Pool!poolVars) \/ \E s \in ID : RecyclesOpen(s)
  BY PoolRefStep
<1> QED BY <1>1, PoolRefInit, Inductive, ReuseInductive, PTL DEF Spec
=============================================================================
