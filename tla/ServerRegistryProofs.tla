------------------------ MODULE ServerRegistryProofs ------------------------
(***************************************************************************)
(* Theorems about ServerRegistry, for any servers, registries, session IDs *)
(* and bounds.                                                             *)
(***************************************************************************)
EXTENDS ServerRegistry, TLAPS

Message == {Service!Request(s) : s \in ID} \cup {Service!Disconnect(s) : s \in ID}

-----------------------------------------------------------------------------
(* The inbox. *)

\* The messages that are about some session are requests or its notice.
LEMMA Messages ==
    ASSUME NEW s, NEW x
    PROVE  /\ Service!Request(s).id = s /\ Service!Disconnect(s).id = s
           /\ Service!Request(s) # Service!Disconnect(x)
           /\ Service!Disconnect(s) = Service!Disconnect(x) => s = x
           /\ Service!Request(s) = Service!Request(x) => s = x
  BY SMT DEF Service!Request, Service!Disconnect

\* The elements of a sequence are those at its places.
LEMMA RangeOfSeq ==
    ASSUME NEW S, NEW q \in Seq(S)
    PROVE  Range(q) = {q[i] : i \in 1..Len(q)}
  <1>1. DOMAIN q = 1..Len(q)
    BY SMT
  <1> QED
    BY <1>1 DEF Range

\* Appending adds one element.
LEMMA RangeOfAppend ==
    ASSUME NEW S, NEW q \in Seq(S), NEW m \in S
    PROVE  Append(q, m) \in Seq(S) /\ Range(Append(q, m)) = Range(q) \cup {m}
  <1>1. Append(q, m) \in Seq(S) /\ Len(Append(q, m)) = Len(q) + 1 /\ Len(q) \in Nat
    BY SMT
  <1>2. \A i \in 1..Len(q) : Append(q, m)[i] = q[i]
    BY SMT
  <1>3. Append(q, m)[Len(q) + 1] = m
    BY SMT
  <1> QED
    BY <1>1, <1>2, <1>3, SMT DEF Range

\* The elements of a concatenation.
LEMMA RangeOfConcat ==
    ASSUME NEW S, NEW q \in Seq(S), NEW r \in Seq(S)
    PROVE  q \o r \in Seq(S) /\ Range(q \o r) = Range(q) \cup Range(r)
  <1>1. q \o r \in Seq(S) /\ Len(q \o r) = Len(q) + Len(r) /\ Len(q) \in Nat /\ Len(r) \in Nat
    BY SMT
  <1>2. \A i \in 1..Len(q) : (q \o r)[i] = q[i]
    BY SMT
  <1>3. \A i \in 1..Len(r) : (q \o r)[Len(q) + i] = r[i] /\ Len(q) + i \in 1..Len(q \o r)
    BY SMT
  <1>4. \A i \in 1..Len(q \o r) : i \in 1..Len(q) \/ (i - Len(q) \in 1..Len(r) /\ i = Len(q) + (i - Len(q)))
    BY <1>1, SMT
  <1>5. Range(q \o r) \subseteq Range(q) \cup Range(r)
    <2> SUFFICES ASSUME NEW i \in 1..Len(q \o r) PROVE (q \o r)[i] \in Range(q) \cup Range(r)
      BY <1>1, SMT DEF Range
    <2>1. CASE i \in 1..Len(q)
      BY <1>2, <2>1, SMT DEF Range
    <2>2. CASE i - Len(q) \in 1..Len(r) /\ i = Len(q) + (i - Len(q))
      BY <1>3, <2>2, SMT DEF Range
    <2> QED
      BY <1>4, <2>1, <2>2
  <1>6. Range(q) \cup Range(r) \subseteq Range(q \o r)
    <2>1. \A i \in 1..Len(q) : i \in 1..Len(q \o r)
      BY <1>1, SMT
    <2>2. Range(q \o r) = {(q \o r)[i] : i \in 1..Len(q \o r)}
      BY <1>1, RangeOfSeq
    <2>3. \A i \in 1..Len(q) : q[i] \in Range(q \o r)
      BY <1>2, <2>1, <2>2
    <2>4. \A i \in 1..Len(r) : r[i] \in Range(q \o r)
      BY <1>3, <2>2
    <2> QED
      BY <2>3, <2>4, RangeOfSeq
  <1> QED
    BY <1>1, <1>5, <1>6

\* The elements of a sequence are its head and those of its tail.
LEMMA RangeOfTail ==
    ASSUME NEW S, NEW q \in Seq(S), q # <<>>
    PROVE  /\ Tail(q) \in Seq(S) /\ Head(q) \in Range(q) /\ Head(q) \in S
           /\ Range(q) = {Head(q)} \cup Range(Tail(q))
  <1>1. Len(q) \in Nat /\ Len(q) >= 1 /\ Tail(q) \in Seq(S) /\ Len(Tail(q)) = Len(q) - 1 /\ Head(q) = q[1]
    BY SMT
  <1>2. \A i \in 1..Len(q) - 1 : Tail(q)[i] = q[i + 1] /\ i + 1 \in 1..Len(q)
    BY <1>1, SMT
  <1>3. \A i \in 1..Len(q) : i = 1 \/ (i - 1 \in 1..Len(q) - 1 /\ i = (i - 1) + 1)
    BY <1>1, SMT
  <1>4. Range(q) \subseteq {Head(q)} \cup Range(Tail(q))
    <2> SUFFICES ASSUME NEW i \in 1..Len(q), i # 1 PROVE q[i] \in Range(Tail(q))
      BY <1>1, SMT DEF Range
    <2>1. i - 1 \in 1..Len(Tail(q)) /\ Tail(q)[i - 1] = q[i]
      BY <1>1, <1>2, <1>3, SMT
    <2>2. Range(Tail(q)) = {Tail(q)[j] : j \in 1..Len(Tail(q))}
      BY <1>1, RangeOfSeq
    <2> QED
      BY <2>1, <2>2
  <1>5. {Head(q)} \cup Range(Tail(q)) \subseteq Range(q)
    BY <1>1, <1>2, SMT DEF Range
  <1> QED
    BY <1>1, <1>4, <1>5, SMT

-----------------------------------------------------------------------------
(* The steps of the session layer. *)

\* What a step of the sessions may do to keep the invariant: the messages it puts
\* in the inbox are requests, or the notice of a session that was closed, and what
\* it opens has no owner.
Sound(s) ==
    \* the registries are as before
    /\ UNCHANGED <<typed, remote>>
    /\ link' \in [Peer -> ID \cup {None}] /\ received' \in SUBSET ID
    /\ dialer' \in [ID -> Peer \cup {None}]
    /\ conn' \in [ID -> Service!States]
    /\ inbox' \in Seq(Message)
    \* s alone changes
    /\ \A x \in ID \ {s} : /\ conn'[x] = conn[x] /\ dialer'[x] = dialer[x]
                           /\ (Service!Disconnect(x) \in Range(inbox'))
                                = (Service!Disconnect(x) \in Range(inbox))
    /\ dialer[s] # None => dialer'[s] = dialer[s]
    /\ Service!Disconnect(s) \in Range(inbox) => Service!Disconnect(s) \in Range(inbox')
    /\ Service!Disconnect(s) \in Range(inbox') => conn'[s] \in {"ended", "spare"}
    /\ conn'[s] \in {"open", "closed"} => dialer'[s] # None
    /\ dialer'[s] # None => \/ conn'[s] \in {"open", "closed"}
                            \/ Service!Disconnect(s) \in Range(inbox')

\* A step that does to one session what Sound says keeps the invariant.
LEMMA SoundKeeps ==
    ASSUME IInv, NEW s \in ID, Sound(s) PROVE IInv'
  <1>1. TypeOK'
    BY DEF IInv, TypeOK, Sound, Message
  <1>2. NoticesFinal'
    BY DEF IInv, NoticesFinal, Sound
  <1>3. DialersKnown'
    BY DEF IInv, DialersKnown, Sound
  <1>4. RegisteredTyped'
    BY DEF IInv, RegisteredTyped, Sound
  <1>5. EntriesOwned'
    <2> SUFFICES ASSUME NEW t \in Range(Types), NEW x \in ID, remote[t][x] # None
                 PROVE  /\ remote[t][x] = dialer'[x] /\ TypeOf[dialer'[x]] = t
                        /\ \/ conn'[x] \in {"open", "closed"}
                           \/ Service!Disconnect(x) \in Range(inbox')
      BY DEF EntriesOwned, Sound
    <2>1. dialer[x] # None /\ remote[t][x] = dialer[x] /\ TypeOf[dialer[x]] = t
      BY DEF IInv, EntriesOwned, RegisteredTyped
    <2>2. dialer'[x] = dialer[x]
      BY <2>1 DEF Sound
    <2> QED
      BY <1>3, <2>1, <2>2 DEF DialersKnown
  <1> QED
    BY <1>1, <1>2, <1>3, <1>4, <1>5 DEF IInv

\* The messages of the inbox are about known sessions.
LEMMA WaitingNotice ==
    ASSUME NEW s \in ID, ~Service!Waiting(s)
    PROVE  Service!Disconnect(s) \notin Range(inbox)
  <1>1. Service!Disconnect(s).id = s
    BY Messages
  <1> QED
    BY <1>1 DEF Service!Waiting, Service!Range, Range

\* A peer's connect keeps the invariant.
LEMMA DialKeeps ==
    ASSUME IInv, NEW p \in Peer, Dial(p) PROVE IInv'
  <1>1. PICK s \in ID : /\ Service!Open(s, "open") /\ link' = [link EXCEPT ![p] = s]
                        /\ dialer' = [dialer EXCEPT ![s] = p]
    BY DEF Dial
  <1>2. /\ conn[s] = "spare" /\ Service!Disconnect(s) \notin Range(inbox)
        /\ conn' = [conn EXCEPT ![s] = "open"] /\ inbox' = inbox
        /\ received' = received /\ typed' = typed /\ remote' = remote
    BY <1>1, WaitingNotice DEF Dial, Service!Open, Service!Become, registries
  <1>3. dialer[s] = None
    BY <1>2 DEF IInv, DialersKnown
  <1>4. p # None /\ "open" \in Service!States
    BY RegistryAssumption DEF Service!States
  <1>5. Sound(s)
    BY <1>1, <1>2, <1>3, <1>4 DEF IInv, TypeOK, Sound, Message
  <1> QED
    BY <1>5, SoundKeeps

\* So does the loss of a peer's connection,
LEMMA LoseKeeps ==
    ASSUME IInv, NEW p \in Peer, Lose(p) PROVE IInv'
  <1>1. /\ link' = [link EXCEPT ![p] = None]
        /\ UNCHANGED <<conn, inbox, dialer, received, typed, remote>>
    BY DEF Lose, registries
  <1>2. TypeOK'
    BY <1>1 DEF IInv, TypeOK
  <1> QED
    BY <1>1, <1>2 DEF IInv, EntriesOwned, NoticesFinal, DialersKnown, RegisteredTyped

\* a connection this server opens,
LEMMA DialOutKeeps ==
    ASSUME IInv, NEW s \in ID, DialOut(s) PROVE IInv'
  <1>1. /\ conn[s] = "spare" /\ Service!Disconnect(s) \notin Range(inbox)
        /\ conn' = [conn EXCEPT ![s] = "outgoing"] /\ inbox' = inbox
        /\ UNCHANGED <<link, dialer, received, typed, remote>>
    BY WaitingNotice DEF DialOut, Service!Open, Service!Become, registries
  <1>2. dialer[s] = None
    BY <1>1 DEF IInv, DialersKnown
  <1>3. "outgoing" \in Service!States
    BY DEF Service!States
  <1>4. Sound(s)
    BY <1>1, <1>2, <1>3 DEF IInv, TypeOK, Sound, Message
  <1> QED
    BY <1>4, SoundKeeps

\* Packets that are read are requests.
LEMMA ReceiveAppends ==
    ASSUME IInv, NEW s \in ID, NEW n \in Nat, NEW closes \in BOOLEAN,
           Service!Receive(s, n, closes)
    PROVE  /\ conn[s] \in {"open", "outgoing"}
           /\ inbox' \in Seq(Message)
           /\ \A x \in ID : (Service!Disconnect(x) \in Range(inbox'))
                               = (Service!Disconnect(x) \in Range(inbox))
           /\ \/ conn' = conn
              \/ conn[s] = "open" /\ conn' = [conn EXCEPT ![s] = "closed"]
  <1> DEFINE packets == [i \in 1..n |-> Service!Request(s)]
  <1>1. /\ conn[s] \in {"open", "outgoing"}
        /\ inbox' = inbox \o packets
        /\ \/ conn' = conn
           \/ conn[s] = "open" /\ conn' = [conn EXCEPT ![s] = "closed"]
    BY DEF Service!Receive, Service!Become
  <1>2. packets \in Seq(Message)
    <2>1. Service!Request(s) \in Message
      BY DEF Message
    <2> QED
      BY <2>1, SMT
  <1>3. \A x \in ID : Service!Disconnect(x) \notin Range(packets)
    BY Messages DEF Range
  <1>4. inbox \in Seq(Message)
    BY DEF IInv, TypeOK, Message
  <1> HIDE DEF packets
  <1>5. inbox \o packets \in Seq(Message) /\ Range(inbox \o packets) = Range(inbox) \cup Range(packets)
    BY <1>2, <1>4, RangeOfConcat
  <1> QED
    BY <1>1, <1>3, <1>5

\* what a peer sends,
LEMMA ReceiveKeeps ==
    ASSUME IInv, NEW s \in ID, NEW n \in Nat, NEW closes \in BOOLEAN,
           Service!Receive(s, n, closes), received' \in SUBSET ID,
           UNCHANGED <<link, dialer, typed, remote>>
    PROVE  IInv'
  <1>1. Service!Disconnect(s) \notin Range(inbox)
    BY ReceiveAppends DEF IInv, NoticesFinal
  <1>2. conn' \in [ID -> Service!States] /\ \A x \in ID \ {s} : conn'[x] = conn[x]
    BY ReceiveAppends DEF IInv, TypeOK, Service!States
  <1>3. /\ conn'[s] \in {"open", "closed"} => dialer'[s] # None
        /\ dialer'[s] # None => conn'[s] \in {"open", "closed"}
    BY <1>1, ReceiveAppends DEF IInv, TypeOK, DialersKnown
  <1>4. Sound(s)
    BY <1>1, <1>2, <1>3, ReceiveAppends DEF IInv, TypeOK, Sound
  <1> QED
    BY <1>4, SoundKeeps

\* what is read from a connection,
LEMMA ReadKeeps ==
    ASSUME IInv, NEW s \in ID, Read(s) PROVE IInv'
  <1>1. PICK n \in Nat, closes \in BOOLEAN : Service!Receive(s, n, closes)
    <2>1. CASE s \in received /\ s \notin typed
      <3>1. Service!Receive(s, 0, TRUE)
        BY <2>1 DEF Read
      <3> QED
        BY <3>1
    <2>2. CASE ~(s \in received /\ s \notin typed)
      <3>1. PICK n \in 1..MaxPackets : Service!Receive(s, n, FALSE)
        BY <2>2 DEF Read
      <3>2. n \in Nat
        BY RegistryAssumption, SMT
      <3> QED
        BY <3>1, <3>2
    <2> QED
      BY <2>1, <2>2
  <1>2. received' \in SUBSET ID /\ UNCHANGED <<link, dialer, typed, remote>>
    BY DEF Read, registries, IInv, TypeOK
  <1> QED
    BY <1>1, <1>2, ReceiveKeeps

\* the answers to this server's own registration,
LEMMA ReadAnswersKeeps ==
    ASSUME IInv, NEW s \in ID, ReadAnswers(s) PROVE IInv'
  <1>1. Service!Receive(s, 1, FALSE)
    BY DEF ReadAnswers
  <1>2. received' \in SUBSET ID /\ UNCHANGED <<link, dialer, typed, remote>>
    BY DEF ReadAnswers, registries, IInv, TypeOK
  <1> QED
    BY <1>1, <1>2, ReceiveKeeps

\* the close of a session,
LEMMA CloseKeeps ==
    ASSUME IInv, NEW s \in ID, Close(s) PROVE IInv'
  <1>1. /\ conn[s] = "open" /\ conn' = [conn EXCEPT ![s] = "closed"] /\ inbox' = inbox
        /\ UNCHANGED <<link, dialer, received, typed, remote>>
    BY DEF Close, Service!Close, Service!Become, registries
  <1>2. Service!Disconnect(s) \notin Range(inbox) /\ dialer[s] # None /\ "closed" \in Service!States
    BY <1>1 DEF IInv, NoticesFinal, DialersKnown, Service!States
  <1>3. Sound(s)
    BY <1>1, <1>2 DEF IInv, TypeOK, Sound, Message
  <1> QED
    BY <1>3, SoundKeeps

\* its notice,
LEMMA AnnounceKeeps ==
    ASSUME IInv, NEW s \in ID, Announce(s) PROVE IInv'
  <1>1. /\ conn[s] = "closed" /\ conn' = [conn EXCEPT ![s] = "ended"]
        /\ inbox' = Append(inbox, Service!Disconnect(s))
        /\ received' = received \ {s}
        /\ UNCHANGED <<link, dialer, typed, remote>>
    BY DEF Announce, Service!Announce, Service!Become, registries
  <1>2. inbox \in Seq(Message) /\ Service!Disconnect(s) \in Message
    BY DEF IInv, TypeOK, Message
  <1>3. inbox' \in Seq(Message) /\ Range(inbox') = Range(inbox) \cup {Service!Disconnect(s)}
    BY <1>1, <1>2, RangeOfAppend
  <1>4. \A x \in ID \ {s} : (Service!Disconnect(x) \in Range(inbox'))
                              = (Service!Disconnect(x) \in Range(inbox))
    BY <1>3, Messages
  <1>5. conn' \in [ID -> Service!States] /\ conn'[s] = "ended" /\ \A x \in ID \ {s} : conn'[x] = conn[x]
    BY <1>1 DEF IInv, TypeOK, Service!States
  <1>6. Sound(s)
    BY <1>1, <1>3, <1>4, <1>5 DEF IInv, TypeOK, Sound
  <1> QED
    BY <1>6, SoundKeeps

\* the reuse of its ID,
LEMMA RecycleKeeps ==
    ASSUME IInv, NEW s \in ID, Recycle(s) PROVE IInv'
  <1>1. /\ conn[s] \in {"ended", "outgoing"} /\ conn' = [conn EXCEPT ![s] = "spare"] /\ inbox' = inbox
        /\ UNCHANGED <<link, dialer, received, typed, remote>>
    BY DEF Recycle, Service!Recycle, Service!Become, registries
  <1>2. conn' \in [ID -> Service!States] /\ conn'[s] = "spare" /\ \A x \in ID \ {s} : conn'[x] = conn[x]
    BY <1>1 DEF IInv, TypeOK, Service!States
  <1>3. dialer[s] # None => Service!Disconnect(s) \in Range(inbox)
    BY <1>1 DEF IInv, DialersKnown
  <1>4. Sound(s)
    BY <1>1, <1>2, <1>3 DEF IInv, TypeOK, Sound, Message
  <1> QED
    BY <1>4, SoundKeeps

-----------------------------------------------------------------------------
(* The message handlers. *)

\* An entry of a session is in one registry only: the one of its owner's type.
LEMMA OneHolder ==
    ASSUME IInv, NEW s \in ID, NEW i \in Holders(s)
    PROVE  /\ i \in DOMAIN Types /\ Types[i] \in Range(Types)
           /\ Holders(s) = {i} /\ Min(Holders(s)) = i
           /\ \A t \in Range(Types) : remote[t][s] # None => t = Types[i]
  <1>1. \A j \in Holders(s) : j \in DOMAIN Types /\ Types[j] \in Range(Types) /\ remote[Types[j]][s] # None
    BY DEF Holders, Range
  <1>2. \A t \in Range(Types) : remote[t][s] # None => t = TypeOf[dialer[s]]
    BY DEF IInv, EntriesOwned
  <1>3. \A j \in Holders(s) : j = i
    BY <1>1, <1>2, RegistryAssumption DEF IsInjective
  <1>4. i \in Nat
    BY <1>1, RegistryAssumption, SMT
  <1>5. Holders(s) = {i}
    BY <1>3
  <1>6. Min({i}) = i
    BY <1>4, SMT DEF Min
  <1> QED
    BY <1>1, <1>2, <1>5, <1>6

\* The end of a session takes its entry out of the registries, and no other one.
LEMMA Cleared ==
    ASSUME IInv, NEW s \in ID, DisconnectNotifyDispose(s)
    PROVE  /\ remote' \in [Range(Types) -> [ID -> Peer \cup {None}]]
           /\ \A t \in Range(Types) :
                  /\ remote'[t][s] = None
                  /\ \A x \in ID \ {s} : remote'[t][x] = remote[t][x]
  <1>1. remote \in [Range(Types) -> [ID -> Peer \cup {None}]]
    BY DEF IInv, TypeOK
  <1>2. CASE Holders(s) = {}
    <2>1. \A t \in Range(Types) : remote[t][s] = None
      BY <1>2 DEF Holders, Range
    <2> QED
      BY <1>1, <1>2, <2>1 DEF DisconnectNotifyDispose
  <1>3. CASE Holders(s) # {}
    <2>1. PICK i : i \in Holders(s)
      BY <1>3
    <2>2. /\ Types[i] \in Range(Types) /\ Min(Holders(s)) = i
          /\ \A t \in Range(Types) : remote[t][s] # None => t = Types[i]
      BY <2>1, OneHolder
    <2>3. remote' = [remote EXCEPT ![Types[i]][s] = None]
      BY <1>3, <2>2 DEF DisconnectNotifyDispose
    <2> QED
      BY <1>1, <2>2, <2>3
  <1> QED
    BY <1>2, <1>3

\* A registration fills the entry of its session in the registry of its type.
LEMMA Registered ==
    ASSUME IInv, NEW s \in ID, RegisterReqDispose(s)
    PROVE  /\ dialer[s] \in Peer /\ s \notin typed /\ typed' = typed \cup {s}
           /\ TypeOf[dialer[s]] \in Range(Types)
           /\ remote' = [remote EXCEPT ![TypeOf[dialer[s]]][s] = dialer[s]]
  <1>1. /\ dialer[s] \in Peer /\ s \notin typed /\ typed' = typed \cup {s}
        /\ TypeOf[dialer[s]] \in Range(Types)
    BY RegistryAssumption DEF RegisterReqDispose, IInv, TypeOK
  <1>2. remote[TypeOf[dialer[s]]][s] = None
    BY <1>1 DEF IInv, RegisteredTyped
  <1>3. remote' = [remote EXCEPT ![TypeOf[dialer[s]]][s] = IF @ = None THEN dialer[s] ELSE @]
    BY DEF RegisterReqDispose, AddRemoteServer
  <1>4. remote \in [Range(Types) -> [ID -> Peer \cup {None}]]
    BY DEF IInv, TypeOK
  <1> QED
    BY <1>1, <1>2, <1>3, <1>4

\* What is processed is the first message, and it is about a known session.
LEMMA Delivered ==
    ASSUME IInv, Process, NEW s, s = Head(inbox).id
    PROVE  /\ s \in ID
           /\ Head(inbox) = Service!Request(s) \/ Head(inbox) = Service!Disconnect(s)
           /\ Head(inbox) \in Range(inbox)
           /\ inbox' \in Seq(Message)
           /\ \A x \in ID : Head(inbox) # Service!Disconnect(x) =>
                  (Service!Disconnect(x) \in Range(inbox')) = (Service!Disconnect(x) \in Range(inbox))
           /\ UNCHANGED <<conn, link, received>>
  <1>1. inbox # <<>> /\ inbox' = Tail(inbox) /\ UNCHANGED <<conn, link, received>>
    BY DEF Process, Service!Deliver
  <1>2. inbox \in Seq(Message)
    BY DEF IInv, TypeOK, Message
  <1>3. /\ Tail(inbox) \in Seq(Message) /\ Head(inbox) \in Message
        /\ Range(inbox) = {Head(inbox)} \cup Range(Tail(inbox))
    BY <1>1, <1>2, RangeOfTail
  <1>4. s \in ID /\ (Head(inbox) = Service!Request(s) \/ Head(inbox) = Service!Disconnect(s))
    BY <1>3, Messages DEF Message
  <1> QED
    BY <1>1, <1>3, <1>4

\* and a message through process.
LEMMA ProcessKeeps ==
    ASSUME IInv, Process PROVE IInv'
  <1> DEFINE s == Head(inbox).id
  <1>1. s \in ID
    BY Delivered
  <1>2. CASE Head(inbox) = Service!Disconnect(s)
    <2>1. DisconnectNotifyDispose(s) /\ dialer' = [dialer EXCEPT ![s] = None] /\ typed' = typed \ {s}
      BY <1>2 DEF Process, DisconnectNotifyDispose
    <2>2. conn[s] \in {"ended", "spare"}
      BY <1>1, <1>2, Delivered DEF IInv, NoticesFinal
    <2>3. /\ inbox' \in Seq(Message) /\ UNCHANGED <<conn, link, received>>
          /\ \A x \in ID \ {s} : (Service!Disconnect(x) \in Range(inbox'))
                                    = (Service!Disconnect(x) \in Range(inbox))
      BY <1>2, Delivered, Messages
    <2> HIDE DEF s
    <2>4. /\ remote' \in [Range(Types) -> [ID -> Peer \cup {None}]]
          /\ \A t \in Range(Types) :
                 /\ remote'[t][s] = None
                 /\ \A x \in ID \ {s} : remote'[t][x] = remote[t][x]
      BY <1>1, <2>1, Cleared
    <2>5. dialer' \in [ID -> Peer \cup {None}] /\ dialer'[s] = None
          /\ \A x \in ID \ {s} : dialer'[x] = dialer[x]
      BY <1>1, <2>1 DEF IInv, TypeOK
    <2>6. TypeOK'
      BY <2>1, <2>3, <2>4, <2>5 DEF IInv, TypeOK, Message
    <2>7. NoticesFinal'
      BY <2>2, <2>3 DEF IInv, NoticesFinal
    <2>8. DialersKnown'
      BY <2>2, <2>3, <2>5 DEF IInv, DialersKnown
    <2>9. RegisteredTyped'
      BY <2>1, <2>4, <2>5 DEF IInv, RegisteredTyped
    <2>10. EntriesOwned'
      BY <2>3, <2>4, <2>5 DEF IInv, EntriesOwned
    <2> QED
      BY <2>6, <2>7, <2>8, <2>9, <2>10 DEF IInv
  <1>3. CASE Head(inbox) # Service!Disconnect(s)
    <2>1. dialer' = dialer /\ (RegisterReqDispose(s) \/ OtherDispose(s))
      BY <1>3 DEF Process
    <2>2. /\ inbox' \in Seq(Message) /\ UNCHANGED <<conn, link, received>>
          /\ \A x \in ID : (Service!Disconnect(x) \in Range(inbox'))
                              = (Service!Disconnect(x) \in Range(inbox))
      <3>1. Head(inbox) = Service!Request(s)
        BY <1>3, Delivered
      <3> QED
        BY <3>1, Delivered, Messages
    <2> HIDE DEF s
    <2>3. CASE OtherDispose(s)
      <3>1. UNCHANGED <<typed, remote>>
        BY <2>3 DEF OtherDispose, registries
      <3> QED
        BY <2>1, <2>2, <3>1 DEF IInv, TypeOK, Message, EntriesOwned, NoticesFinal, DialersKnown,
                                RegisteredTyped
    <2>4. CASE RegisterReqDispose(s)
      <3>1. /\ dialer[s] \in Peer /\ s \notin typed /\ typed' = typed \cup {s}
            /\ TypeOf[dialer[s]] \in Range(Types)
            /\ remote' = [remote EXCEPT ![TypeOf[dialer[s]]][s] = dialer[s]]
        BY <1>1, <2>4, Registered
      <3>2. remote \in [Range(Types) -> [ID -> Peer \cup {None}]]
        BY DEF IInv, TypeOK
      <3>3. /\ \A t \in Range(Types), x \in ID : x # s => remote'[t][x] = remote[t][x]
            /\ \A t \in Range(Types) : t # TypeOf[dialer[s]] => remote'[t][s] = remote[t][s]
            /\ remote'[TypeOf[dialer[s]]][s] = dialer[s]
            /\ remote' \in [Range(Types) -> [ID -> Peer \cup {None}]]
        BY <1>1, <3>1, <3>2
      <3>4. dialer[s] # None
        BY <3>1, RegistryAssumption
      <3>5. TypeOK'
        BY <1>1, <2>1, <2>2, <3>1, <3>3 DEF IInv, TypeOK, Message
      <3>6. NoticesFinal' /\ DialersKnown'
        BY <2>1, <2>2 DEF IInv, NoticesFinal, DialersKnown
      <3>7. RegisteredTyped'
        BY <2>1, <3>1, <3>3, <3>4 DEF IInv, RegisteredTyped
      <3>8. EntriesOwned'
        <4> SUFFICES ASSUME NEW t \in Range(Types), NEW x \in ID, remote'[t][x] # None
                     PROVE  /\ remote'[t][x] = dialer[x] /\ TypeOf[dialer[x]] = t
                            /\ \/ conn[x] \in {"open", "closed"}
                               \/ Service!Disconnect(x) \in Range(inbox)
          BY <2>1, <2>2 DEF EntriesOwned
        <4>1. CASE x = s /\ t = TypeOf[dialer[s]]
          BY <4>1, <1>1, <3>3, <3>4 DEF IInv, DialersKnown
        <4>2. CASE ~(x = s /\ t = TypeOf[dialer[s]])
          <5>1. remote[t][x] # None /\ remote'[t][x] = remote[t][x]
            BY <4>2, <3>3
          <5> QED
            BY <5>1 DEF IInv, EntriesOwned
        <4> QED
          BY <4>1, <4>2
      <3> QED
        BY <3>5, <3>6, <3>7, <3>8 DEF IInv
    <2> QED
      BY <2>1, <2>3, <2>4
  <1> QED
    BY <1>2, <1>3

-----------------------------------------------------------------------------
(* The theorems. *)

\* A server starts with the invariant.
LEMMA InitIInv == Init => IInv
  <1> SUFFICES ASSUME Init PROVE IInv
    OBVIOUS
  <1>1. /\ conn = [s \in ID |-> "spare"] /\ inbox = <<>> /\ "spare" \in Service!States
        /\ link = [p \in Peer |-> None] /\ dialer = [s \in ID |-> None]
        /\ received = {} /\ typed = {} /\ remote = [t \in Range(Types) |-> [s \in ID |-> None]]
    BY DEF Init, Service!Init, Service!States
  <1>2. inbox \in Seq(Message) /\ Range(inbox) = {}
    BY <1>1, SMT DEF Range
  <1>3. TypeOK
    BY <1>1, <1>2 DEF TypeOK, Message
  <1> QED
    BY <1>1, <1>2, <1>3 DEF IInv, EntriesOwned, NoticesFinal, DialersKnown, RegisteredTyped

\* Every step keeps the invariant.
LEMMA NextIInv == IInv /\ [Next]_vars => IInv'
  <1> SUFFICES ASSUME IInv, [Next]_vars PROVE IInv'
    OBVIOUS
  <1>1. CASE UNCHANGED vars
    BY <1>1 DEF vars, registries, IInv, TypeOK, EntriesOwned, NoticesFinal, DialersKnown, RegisteredTyped
  <1>2. CASE Process
    BY <1>2, ProcessKeeps
  <1>3. ASSUME NEW p \in Peer, Dial(p) \/ Lose(p) PROVE IInv'
    BY <1>3, DialKeeps, LoseKeeps
  <1>4. ASSUME NEW s \in ID, \/ DialOut(s) \/ Read(s) \/ ReadAnswers(s)
                             \/ Close(s) \/ Announce(s) \/ Recycle(s) PROVE IInv'
    BY <1>4, DialOutKeeps, ReadKeeps, ReadAnswersKeeps, CloseKeeps, AnnounceKeeps, RecycleKeeps
  <1> QED
    BY <1>1, <1>2, <1>3, <1>4 DEF Next

\* The inductive invariant holds in every reachable state: the notice of a
\* connection (popCommonDisconnectNtyProtocol) is the end of its session ID for
\* the handlers, and only the register handlers put it into a registry.
THEOREM Inductive == Spec => []IInv
  <1> QED
    BY InitIInv, NextIInv, PTL DEF Spec

\* All variables keep their types, m_remoteServerMap's keys and values included.
THEOREM TypeCorrect == Spec => []TypeOK
  <1>1. IInv => TypeOK
    BY DEF IInv
  <1> QED
    BY <1>1, Inductive, PTL

\* However servers connect, break off and connect again, a registry knows a
\* session as the server that opened it, and not longer than it is connected or
\* its notice waits: removeRemoteServer never comes too late for the next user
\* of the session ID.
THEOREM EntriesCorrect == Spec => []EntriesOwned
  <1>1. IInv => EntriesOwned
    BY DEF IInv
  <1> QED
    BY <1>1, Inductive, PTL

\* addRemoteServer never finds its session ID in the map, so that the handlers may
\* ignore its result.
THEOREM RegistrationsNeverRefused == Spec => []RegistrationsTaken
  <1>1. ASSUME IInv PROVE RegistrationsTaken
    <2> SUFFICES ASSUME NEW i \in DOMAIN inbox, NEW s, inbox[i] = Service!Request(s), s \notin typed
                 PROVE  Holders(s) = {}
      BY Messages DEF RegistrationsTaken
    <2>1. inbox[i] \in Message
      <3>1. inbox \in Seq(Message)
        BY <1>1 DEF IInv, TypeOK, Message
      <3> QED
        BY <3>1, SMT
    <2>2. s \in ID
      BY <2>1, Messages DEF Message
    <2>3. \A t \in Range(Types) : remote[t][s] = None
      BY <1>1, <2>2 DEF IInv, RegisteredTyped
    <2> QED
      BY <2>3 DEF Holders, Range
  <1> QED
    BY <1>1, Inductive, PTL

\* No step of the server takes the entry of a connected server out of its registry
\* or changes it.
THEOREM ConnectedNeverDropped == Spec => ConnectedStay
  <1> DEFINE Stay == \A t \in Range(Types), s \in ID :
                         remote[t][s] # None /\ conn[s] = "open" => remote'[t][s] = remote[t][s]
  <1>1. ASSUME IInv, Next PROVE Stay
    <2> SUFFICES ASSUME NEW t \in Range(Types), NEW s \in ID, remote[t][s] # None, conn[s] = "open"
                 PROVE  remote'[t][s] = remote[t][s]
      OBVIOUS
    <2>1. CASE remote' = remote
      BY <2>1
    <2>2. CASE Process
      <3> DEFINE x == Head(inbox).id
      <3>1. x \in ID /\ Head(inbox) \in Range(inbox)
        BY <1>1, <2>2, Delivered
      <3>2. CASE Head(inbox) = Service!Disconnect(x)
        <4>1. x # s
          BY <1>1, <3>1, <3>2 DEF IInv, NoticesFinal
        <4>2. DisconnectNotifyDispose(x)
          BY <2>2, <3>2 DEF Process
        <4> QED
          BY <1>1, <3>1, <4>1, <4>2, Cleared
      <3>3. CASE Head(inbox) # Service!Disconnect(x)
        <4>1. CASE OtherDispose(x)
          BY <4>1 DEF OtherDispose, registries
        <4>2. CASE RegisterReqDispose(x)
          <5>1. /\ x \notin typed /\ TypeOf[dialer[x]] \in Range(Types)
                /\ remote' = [remote EXCEPT ![TypeOf[dialer[x]]][x] = dialer[x]]
            BY <1>1, <3>1, <4>2, Registered
          <5>2. x # s
            BY <1>1, <3>1, <5>1 DEF IInv, RegisteredTyped
          <5> HIDE DEF x
          <5> QED
            BY <1>1, <3>1, <5>1, <5>2 DEF IInv, TypeOK
        <4> QED
          BY <2>2, <3>3, <4>1, <4>2 DEF Process
      <3> QED
        BY <3>2, <3>3
    <2>3. ASSUME NEW p \in Peer, Dial(p) \/ Lose(p) PROVE remote' = remote
      BY <2>3 DEF Dial, Lose, registries
    <2>4. ASSUME NEW x \in ID, \/ DialOut(x) \/ Read(x) \/ ReadAnswers(x)
                               \/ Close(x) \/ Announce(x) \/ Recycle(x) PROVE remote' = remote
      BY <2>4 DEF DialOut, Read, ReadAnswers, Close, Announce, Recycle, registries
    <2> QED
      BY <1>1, <2>1, <2>2, <2>3, <2>4 DEF Next
  <1>2. IInv /\ [Next]_vars => [Stay]_vars
    BY <1>1
  <1> QED
    BY <1>2, Inductive, PTL DEF Spec, ConnectedStay
=============================================================================
