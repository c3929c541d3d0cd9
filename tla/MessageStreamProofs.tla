------------------------ MODULE MessageStreamProofs ------------------------
(***************************************************************************)
(* Theorems about MessageStream, for every connection in Links, those the   *)
(* violation run uses too.  SetWriteBufSize cuts off what does not fit     *)
(* behind the tail: the stream and its messages are whole up to then, and  *)
(* it happens only to packets sent one behind the other that are more than *)
(* the receive buffer holds.                                               *)
(***************************************************************************)
EXTENDS MessageStream, ByteBufferProofs, FiniteSetTheorems, SequenceTheorems, WellFoundedInduction

\* registerWriteEvent leaves a session whose flag is set as it is: it must be
\* watched already.
FlagWatched == writeFlag => watched

IInv == TypeOK /\ BuffersLinear /\ WriteWatched /\ FlagWatched

\* The constants are numbers.
LEMMA Numbers ==
    /\ HeadSize \in Nat /\ HeadSize > 0 /\ SocketSendBuf \in Nat /\ PipeMax \in Nat
    /\ ExtraSize \in Nat /\ MaxBody \in Nat /\ MaxSent \in Nat
    /\ Sizes \subseteq Nat
  BY StreamAssumption, SMT

\* The bytes of a packet.
LEMMA PacketType ==
    ASSUME NEW i \in 1..MaxSent, NEW size \in Nat, size < MaxBody + ExtraSize
    PROVE  PacketBytes(i, size) \in Seq(Bytes)
  <1>1. HeadSize + size \in Nat /\ HeadSize + size <= HeadSize + MaxBody + ExtraSize - 1
    BY Numbers, SMT
  <1>2. \A j \in 1..(HeadSize + size) : <<i, j>> \in Bytes
    BY <1>1, Numbers, SMT DEF Bytes
  <1> QED
    BY <1>1, <1>2, SMT DEF PacketBytes

\* A connection starts with the invariant.
LEMMA InitIInv == Init => IInv
  <1> SUFFICES ASSUME Init PROVE IInv
    OBVIOUS
  <1>1. link \in Links /\ link.out \in Nat /\ link.in \in Nat
    BY StreamAssumption DEF Init, Capacities
  <1>2. /\ out \in Buffer(Bytes) /\ Linear(out)
        /\ in \in Buffer(Bytes) /\ Linear(in)
    BY <1>1, NewLinear DEF Init
  <1>3. /\ sent \in Seq(Nat) /\ Len(sent) <= MaxSent
        /\ pipe \in Seq(Bytes) /\ Len(pipe) <= PipeMax
    BY Numbers, SMT DEF Init
  <1>4. messages \in Seq(Seq(Bytes)) /\ \A i \in DOMAIN messages : Len(messages[i]) < MaxBody
    BY SMT DEF Init
  <1>5. TypeOK
    BY <1>1, <1>2, <1>3, <1>4 DEF Init, TypeOK
  <1>6. WriteWatched /\ FlagWatched
    BY DEF Init, WriteWatched, FlagWatched
  <1> QED
    BY <1>2, <1>5, <1>6 DEF IInv, BuffersLinear

\* Sending a packet keeps the invariant.
LEMMA SendKeeps ==
    ASSUME IInv, NEW size \in Sizes, SendData(size) PROVE IInv'
  <1> DEFINE n == size + ExtraSize
             bytes == PacketBytes(Len(sent) + 1, n)
  <1>1. size \in Nat /\ size < MaxBody /\ Len(sent) \in Nat /\ Len(sent) < MaxSent /\ sent \in Seq(Nat)
    BY Numbers DEF IInv, TypeOK, SendData
  <1>2. Len(sent) + 1 \in 1..MaxSent /\ n \in Nat /\ n < MaxBody + ExtraSize
    BY <1>1, Numbers, SMT
  <1>3. bytes \in Seq(Bytes)
    BY <1>2, PacketType
  <1>4. sent' = Append(sent, n) /\ Len(sent') = Len(sent) + 1 /\ sent' \in Seq(Nat) /\ Len(sent') <= MaxSent
    <2>1. sent' = Append(sent, n)
      BY DEF SendData
    <2> HIDE DEF n
    <2> QED
      BY <1>1, <1>2, <2>1, Numbers, SMT
  <1>5. out' = WriteBuffer(out, bytes)
    BY <1>4 DEF SendData
  <1> HIDE DEF bytes
  <1>6. out' \in Buffer(Bytes) /\ Linear(out')
    BY <1>3, <1>5, WriteKeepsLinear DEF IInv, TypeOK, BuffersLinear
  <1>7. writeFlag' = TRUE /\ watched' = TRUE
    BY DEF SendData, IInv, FlagWatched, TypeOK
  <1>8. UNCHANGED <<link, cut, sending, pipe, eof, in, phase, alive, typed, first, messages>>
    BY DEF SendData, kernels, receiver
  <1>9. TypeOK'
    BY <1>4, <1>6, <1>7, <1>8 DEF IInv, TypeOK
  <1>10. BuffersLinear'
    BY <1>6, <1>8 DEF IInv, BuffersLinear
  <1> QED
    BY <1>7, <1>9, <1>10 DEF IInv, WriteWatched, FlagWatched

\* Writing to the socket keeps the invariant.
LEMMA WriteKeeps ==
    ASSUME IInv, NEW k \in 0..SocketSendBuf, HandleWrite(k) PROVE IInv'
  <1>1. /\ k \in Nat /\ k <= Size(out) /\ Len(pipe) + k <= PipeMax
        /\ out \in Buffer(Bytes) /\ Linear(out) /\ pipe \in Seq(Bytes)
    BY Numbers, SMT DEF HandleWrite, IInv, TypeOK, BuffersLinear
  <1>2. out.data \in Seq(Bytes) /\ k <= Len(out.data)
    BY <1>1 DEF Buffer, Size
  <1>3. SubSeq(out.data, 1, k) \in Seq(Bytes) /\ Len(SubSeq(out.data, 1, k)) = k
    BY <1>1, <1>2, FrontType
  <1>4. pipe' \in Seq(Bytes) /\ Len(pipe') <= PipeMax
    <2> DEFINE front == SubSeq(out.data, 1, k)
    <2>1. pipe' = pipe \o front \/ pipe' = pipe
      BY DEF HandleWrite
    <2>2. front \in Seq(Bytes) /\ Len(front) = k
      BY <1>3
    <2> HIDE DEF front
    <2>3. pipe \o front \in Seq(Bytes) /\ Len(pipe \o front) = Len(pipe) + k
      BY <1>1, <2>2, SMT
    <2>4. Len(pipe) <= PipeMax
      BY DEF IInv, TypeOK
    <2> QED
      BY <1>1, <2>1, <2>3, <2>4
  <1>5. out' \in Buffer(Bytes) /\ Linear(out') /\ out' = SetReadBufSize(out, k)
    BY <1>1, ReadKeepsLinear DEF HandleWrite
  <1>6. CASE Size(out) = k
    <2>1. writeFlag' = FALSE /\ watched' = FALSE
      BY <1>6 DEF HandleWrite, UnregisterWriteEvent
    <2>2. Size(out') = 0
      <3>1. ~(out.head > out.tail)
        BY <1>1, <1>2, SMT DEF Linear, Size, Buffer
      <3>2. out' = NewBuffer(out.capacity)
        BY <1>1, <1>5, <1>6, <3>1, SMT DEF SetReadBufSize, Drop
      <3> QED
        BY <3>2, SMT DEF NewBuffer, Size
    <2>3. TypeOK'
      BY <1>4, <1>5, <2>1 DEF IInv, TypeOK, HandleWrite, receiver
    <2>4. BuffersLinear' /\ WriteWatched' /\ FlagWatched'
      BY <1>5, <2>1, <2>2, SMT DEF IInv, BuffersLinear, WriteWatched, FlagWatched, HandleWrite, receiver
    <2> QED
      BY <2>3, <2>4 DEF IInv
  <1>7. CASE Size(out) # k
    <2>1. UNCHANGED <<writeFlag, watched>> /\ watched
      BY <1>7 DEF HandleWrite
    <2>2. TypeOK'
      BY <1>4, <1>5, <2>1 DEF IInv, TypeOK, HandleWrite, receiver
    <2>3. BuffersLinear' /\ WriteWatched' /\ FlagWatched'
      BY <1>5, <2>1 DEF IInv, BuffersLinear, WriteWatched, FlagWatched, HandleWrite, receiver
    <2> QED
      BY <2>2, <2>3 DEF IInv
  <1> QED
    BY <1>6, <1>7

\* Reading from the socket keeps the invariant.
LEMMA ReadKeeps ==
    ASSUME IInv, NEW n \in 1..Len(pipe), HandleRead(n) PROVE IInv'
  <1>1. /\ pipe \in Seq(Bytes) /\ Len(pipe) \in Nat /\ Len(pipe) <= PipeMax /\ n \in Nat /\ n <= Len(pipe)
        /\ in \in Buffer(Bytes) /\ Linear(in)
    BY SMT DEF IInv, TypeOK, BuffersLinear
  <1>2. SubSeq(pipe, 1, n) \in Seq(Bytes)
    BY <1>1, FrontType
  <1>3. pipe' \in Seq(Bytes) /\ Len(pipe') <= PipeMax
    <2>1. pipe' = SubSeq(pipe, n + 1, Len(pipe))
      BY DEF HandleRead
    <2>2. CASE n < Len(pipe)
      <3>1. SubSeq(pipe, n + 1, Len(pipe)) \in Seq(Bytes) /\ Len(SubSeq(pipe, n + 1, Len(pipe))) = Len(pipe) - n
        BY <1>1, <2>2, RestType
      <3> QED
        BY <1>1, <2>1, <3>1, Numbers, SMT
    <2>3. CASE n = Len(pipe)
      BY <1>1, <2>1, <2>3, Numbers, SMT
    <2> QED
      BY <1>1, <2>2, <2>3, SMT
  <1>4. in' \in Buffer(Bytes) /\ Linear(in')
    <2> DEFINE room == IF n > Space(in) THEN ReSet(in, in.capacity + n) ELSE in
    <2>1. in.capacity + n \in Nat
      BY <1>1 DEF Buffer
    <2>2. room \in Buffer(Bytes) /\ Linear(room)
      BY <1>1, <2>1, ReSetLinear
    <2>3. in' = SetWriteBufSize(room, SubSeq(pipe, 1, n))
      BY DEF HandleRead
    <2> HIDE DEF room
    <2> QED
      BY <1>2, <2>2, <2>3, ReceiveKeepsLinear
  <1>5. phase' = "parse" /\ UNCHANGED <<link, sent, out, writeFlag, watched, sending, eof, alive, typed, first, messages>>
    BY DEF HandleRead, sender
  <1>c. cut' \in BOOLEAN
    BY DEF HandleRead, IInv, TypeOK
  <1>6. TypeOK'
    BY <1>3, <1>4, <1>5, <1>c DEF IInv, TypeOK
  <1>7. BuffersLinear' /\ WriteWatched' /\ FlagWatched'
    BY <1>4, <1>5 DEF IInv, BuffersLinear, WriteWatched, FlagWatched
  <1> QED
    BY <1>6, <1>7 DEF IInv

\* Cutting a message off the front of the buffer keeps the invariant.
LEMMA TakeKeeps ==
    ASSUME IInv, NEW size \in HeadSizes, Size(in) > HeadSize, Take(size) PROVE IInv'
  <1> DEFINE rest == ReadIntactBuffer(in, HeadSize)
             body == SubSeq(rest.data, 1, size)
  <1>1. size \in Nat /\ size < MaxBody
    BY Numbers, SMT DEF HeadSizes, Take
  <1>2. in \in Buffer(Bytes) /\ Linear(in)
    BY DEF IInv, TypeOK, BuffersLinear
  <1>3. rest \in Buffer(Bytes) /\ Linear(rest)
    BY <1>2, Numbers, DropLinear DEF ReadIntactBuffer
  <1>4. Len(rest.data) = Size(in) - HeadSize
    <2>1. in.data \in Seq(Bytes) /\ Size(in) = Len(in.data) /\ HeadSize < Len(in.data)
      BY <1>2 DEF Buffer, Size
    <2>2. rest.data = SubSeq(in.data, HeadSize + 1, Len(in.data))
      BY <1>2, <2>1 DEF ReadIntactBuffer, Drop, Buffer
    <2> QED
      BY <2>1, <2>2, Numbers, RestType
  <1>5. messages' = Append(messages, body) /\ in' = SetReadBufSize(rest, size)
    BY DEF Take
  <1>6. body \in Seq(Bytes) /\ Len(body) = size
    <2>1. rest.data \in Seq(Bytes)
      BY <1>3 DEF Buffer
    <2>2. size <= Len(rest.data)
      BY <1>4 DEF Take
    <2> HIDE DEF rest
    <2> QED
      BY <1>1, <2>1, <2>2, FrontType
  <1> HIDE DEF rest, body
  <1>7. in' \in Buffer(Bytes) /\ Linear(in')
    BY <1>1, <1>3, <1>5, ReadKeepsLinear
  <1>8. messages' \in Seq(Seq(Bytes)) /\ \A i \in DOMAIN messages' : Len(messages'[i]) < MaxBody
    <2>1. messages \in Seq(Seq(Bytes)) /\ \A i \in DOMAIN messages : Len(messages[i]) < MaxBody
      BY DEF IInv, TypeOK
    <2>2. Len(body) < MaxBody
      BY <1>1, <1>6
    <2> QED
      BY <1>5, <1>6, <2>1, <2>2, SMT
  <1>9. UNCHANGED <<link, cut, sent, out, writeFlag, watched, sending, pipe, eof, phase, alive, typed, first>>
    BY DEF Take, sender, kernels
  <1>10. TypeOK'
    BY <1>7, <1>8, <1>9 DEF IInv, TypeOK
  <1>11. BuffersLinear' /\ WriteWatched' /\ FlagWatched'
    BY <1>7, <1>9 DEF IInv, BuffersLinear, WriteWatched, FlagWatched
  <1> QED
    BY <1>10, <1>11 DEF IInv

\* Closing keeps the invariant.
LEMMA CloseKeeps ==
    ASSUME IInv, Close PROVE IInv'
  <1>1. /\ alive' = FALSE /\ pipe' = <<>>
        /\ UNCHANGED <<link, cut, sent, out, writeFlag, watched, sending, eof, in, phase, typed, first, messages>>
    BY DEF Close, sender
  <1>2. pipe' \in Seq(Bytes) /\ Len(pipe') <= PipeMax
    BY <1>1, Numbers, SMT
  <1>3. TypeOK'
    BY <1>1, <1>2 DEF IInv, TypeOK
  <1> QED
    BY <1>1, <1>3 DEF IInv, BuffersLinear, WriteWatched, FlagWatched

\* What only moves the receiver's loop on, or ends the sending, keeps it.
LEMMA LoopKeeps ==
    ASSUME IInv,
           \/ EndParse \/ TaskProcess \/ SendFails
           \/ \E size \in HeadSizes : Incomplete(size)
    PROVE  IInv'
  <1>1. UNCHANGED <<link, cut, sent, out, writeFlag, watched, pipe, in, alive, messages>>
    BY DEF EndParse, TaskProcess, SendFails, Incomplete, sender, kernels, receiver
  <1>2. phase' \in {"loop", "parse", "task"} /\ {typed', first', eof', sending'} \subseteq BOOLEAN
        /\ (sending' => sending)
    <2>1. CASE EndParse \/ \E size \in HeadSizes : Incomplete(size)
      <3>1. phase' = "task" /\ first' = (messages = <<>>) /\ UNCHANGED <<typed, eof, sending>>
        BY <2>1 DEF EndParse, Incomplete, sender, kernels
      <3>2. first' \in BOOLEAN
        BY <3>1
      <3> QED
        BY <3>1, <3>2 DEF IInv, TypeOK
    <2>2. CASE TaskProcess
      <3>1. typed' \in BOOLEAN
        BY <2>2 DEF TaskProcess
      <3>2. phase' = "loop" /\ UNCHANGED <<first, eof, sending>>
        BY <2>2 DEF TaskProcess, sender, kernels
      <3> QED
        BY <3>1, <3>2 DEF IInv, TypeOK
    <2>3. CASE SendFails
      BY <2>3 DEF IInv, TypeOK, SendFails, receiver
    <2> QED
      BY <2>1, <2>2, <2>3
  <1>3. TypeOK'
    BY <1>1, <1>2 DEF IInv, TypeOK
  <1> QED
    BY <1>1, <1>2, <1>3 DEF IInv, BuffersLinear, WriteWatched, FlagWatched

\* So does the end of the sending.
LEMMA BreakKeeps ==
    ASSUME IInv, NEW k \in 0..Len(pipe), Break(k) PROVE IInv'
  <1>1. pipe \in Seq(Bytes) /\ Len(pipe) \in Nat /\ Len(pipe) <= PipeMax /\ k \in Nat /\ k <= Len(pipe)
    BY SMT DEF IInv, TypeOK
  <1>2. SubSeq(pipe, 1, k) \in Seq(Bytes) /\ Len(SubSeq(pipe, 1, k)) = k
    BY <1>1, FrontType
  <1>3. pipe' \in Seq(Bytes) /\ Len(pipe') <= PipeMax
    BY <1>1, <1>2, Numbers, SMT DEF Break
  <1>4. sending' = FALSE /\ eof' = TRUE
        /\ UNCHANGED <<link, cut, sent, out, writeFlag, watched, in, phase, alive, typed, first, messages>>
    BY DEF Break, receiver
  <1>5. TypeOK'
    BY <1>3, <1>4 DEF IInv, TypeOK
  <1> QED
    BY <1>4, <1>5 DEF IInv, BuffersLinear, WriteWatched, FlagWatched

\* Every step keeps the invariant.
LEMMA StepIInv == IInv /\ [Next]_vars => IInv'
  <1> SUFFICES ASSUME IInv, [Next]_vars PROVE IInv'
    OBVIOUS
  <1>1. CASE \E size \in Sizes : SendData(size)
    BY <1>1, SendKeeps
  <1>2. CASE Write
    BY <1>2, WriteKeeps DEF Write
  <1>3. CASE Read
    BY <1>3, ReadKeeps, CloseKeeps DEF Read, HandleEof
  <1>4. CASE ParsePacket
    <2>1. Size(in) > HeadSize
      BY <1>4 DEF ParsePacket
    <2>2. PICK size \in HeadSizes : Refuse(size) \/ Incomplete(size) \/ Take(size)
      BY <1>4 DEF ParsePacket
    <2>3. CASE Refuse(size)
      BY <2>3, CloseKeeps DEF Refuse
    <2>4. CASE Incomplete(size)
      BY <2>4, LoopKeeps
    <2>5. CASE Take(size)
      BY <2>1, <2>5, TakeKeeps
    <2> QED
      BY <2>2, <2>3, <2>4, <2>5
  <1>5. CASE EndParse \/ TaskProcess \/ SendFails
    BY <1>5, LoopKeeps
  <1>6. CASE \E k \in 0..Len(pipe) : Break(k)
    BY <1>6, BreakKeeps
  <1>7. CASE Disconnect
    BY <1>7, CloseKeeps DEF Disconnect
  <1>8. CASE UNCHANGED vars
    BY <1>8 DEF vars, sender, kernels, receiver, IInv, TypeOK, BuffersLinear, WriteWatched, FlagWatched
  <1> QED
    BY <1>1, <1>2, <1>3, <1>4, <1>5, <1>6, <1>7, <1>8 DEF Next

\* The invariant holds in every reachable state, whatever the buffers'
\* capacities and the sizes of bursts.
THEOREM Inductive == Spec => []IInv
  BY InitIInv, StepIInv, PTL DEF Spec

\* All variables keep their types, and no message is as large as MaxBody.
THEOREM TypeCorrect == Spec => []TypeOK
  <1>1. IInv => TypeOK
    BY DEF IInv
  <1> QED
    BY <1>1, Inductive, PTL

\* Session buffers never wrap, so SetReadBufSize and SetWriteBufSize never
\* refuse: not even a burst that is cut breaks what they take for granted.
THEOREM BuffersStayLinear == Spec => []BuffersLinear
  <1>1. IInv => BuffersLinear
    BY DEF IInv
  <1> QED
    BY <1>1, Inductive, PTL

\* Who has something to send is watched for EPOLLOUT.
THEOREM WritersWatched == Spec => []WriteWatched
  <1>1. IInv => WriteWatched
    BY DEF IInv
  <1> QED
    BY <1>1, Inductive, PTL

-----------------------------------------------------------------------------
(* Sequences of sequences.  What holds of 0..n by induction is stated of the *)
(* set of the numbers of which it holds.                                     *)

\* A non-empty set of numbers up to n has a largest one.
LEMMA LargestOf ==
    ASSUME NEW n \in Nat, NEW T \in SUBSET (0..n), T # {}
    PROVE  \E w \in T : \A v \in T : v <= w
  <1> DEFINE From == {w..n : w \in T}
  <1>1. IsFiniteSet(0..n)
    BY FS_Interval
  <1>2. FiniteSubsetsOf(0..n) = SUBSET (0..n)
    BY <1>1, FS_FiniteSubsetsOfFinite
  <1>3. IsWellFoundedOn(StrictSubsetOrdering(0..n), FiniteSubsetsOf(0..n))
    BY FS_StrictSubsetOrderingWellFounded
  <1>4. From \subseteq SUBSET (0..n) /\ From # {}
    <2>1. \A w \in T : w..n \in SUBSET (0..n)
      OBVIOUS
    <2>2. PICK w : w \in T
      OBVIOUS
    <2>3. w..n \in From
      BY <2>2
    <2> QED
      BY <2>1, <2>3
  <1>5. PICK X \in From : \A Y \in From : ~ (<<Y, X>> \in StrictSubsetOrdering(0..n))
    <2> HIDE DEF From
    <2> QED
      BY <1>2, <1>3, <1>4, WFMin
  <1>6. PICK w \in T : X = w..n
    BY <1>5
  <1>7. ASSUME NEW v \in T PROVE v <= w
    <2>1. v \in 0..n /\ w \in 0..n /\ v..n \in From
      OBVIOUS
    <2>2. ~ (<<v..n, w..n>> \in StrictSubsetOrdering(0..n))
      BY <2>1, <1>5, <1>6
    <2>3. SUFFICES ASSUME w < v PROVE FALSE
      BY <2>1
    <2>4. v..n \subseteq w..n /\ v..n # w..n /\ v..n \in SUBSET (0..n) /\ w..n \in SUBSET (0..n)
      <3>1. w \in w..n /\ w \notin v..n
        BY <2>1, <2>3
      <3> QED
        BY <2>1, <2>3, <3>1
    <2> QED
      BY <2>2, <2>4 DEF StrictSubsetOrdering
  <1> QED
    BY <1>7

\* Induction over 0..n.
LEMMA Induction ==
    ASSUME NEW n \in Nat, NEW T \in SUBSET (0..n), 0 \in T,
           \A k \in 0..n : k \in T /\ k < n => k + 1 \in T
    PROVE  \A k \in 0..n : k \in T
  <1> DEFINE Up == {x \in T : \A y \in 0..x : y \in T}
  <1>1. 0 \in Up /\ Up \in SUBSET (0..n) /\ Up # {}
    <2>1. \A y \in 0..0 : y = 0
      OBVIOUS
    <2>2. 0 \in Up
      BY <2>1
    <2> QED
      BY <2>2
  <1>2. PICK x \in Up : \A y \in Up : y <= x
    <2> HIDE DEF Up
    <2> QED
      BY <1>1, LargestOf
  <1>3. x \in T /\ \A y \in 0..x : y \in T
    OBVIOUS
  <1>4. x \in 0..n
    BY <1>3
  <1>5. x = n
    <2> SUFFICES ASSUME x < n PROVE FALSE
      BY <1>4
    <2>1. x + 1 \in T /\ x + 1 \in 0..n
      BY <1>3, <1>4
    <2>2. \A y \in 0..(x + 1) : y \in T
      <3>1. \A y \in 0..(x + 1) : y \in 0..x \/ y = x + 1
        BY <1>4
      <3> QED
        BY <1>3, <2>1, <3>1
    <2>3. x + 1 \in Up
      BY <2>1, <2>2
    <2>4. x + 1 <= x
      BY <1>2, <2>3
    <2> QED
      BY <1>4, <2>4
  <1> QED
    BY <1>3, <1>5

\* f[i] is the first i of the sequences seqs, one behind the other.
Flattened(seqs, f, k) ==
    \A i \in 1..k : f[i] = IF i = 1 THEN seqs[i] ELSE f[i - 1] \o seqs[i]

\* Every sequence of sequences can be flattened step by step.
LEMMA FlattenedExists ==
    ASSUME NEW S, NEW seqs \in Seq(Seq(S)), NEW n \in Nat, n <= Len(seqs)
    PROVE  \E f \in [1..n -> Seq(S)] : Flattened(seqs, f, n)
  <1> DEFINE T == {k \in 0..n : \E f \in [1..k -> Seq(S)] : Flattened(seqs, f, k)}
  <1>1. 0 \in T
    <2>1. PICK f : f = [i \in 1..0 |-> <<>>]
      OBVIOUS
    <2>2. f \in [1..0 -> Seq(S)] /\ 1..0 = {}
      BY <2>1
    <2>3. Flattened(seqs, f, 0)
      BY <2>2 DEF Flattened
    <2>4. 0 \in 0..n
      OBVIOUS
    <2> QED
      BY <2>2, <2>3, <2>4
  <1>2. ASSUME NEW k \in 0..n, k \in T, k < n PROVE k + 1 \in T
    <2>1. PICK f \in [1..k -> Seq(S)] : Flattened(seqs, f, k)
      BY <1>2
    <2>2. seqs[k + 1] \in Seq(S) /\ k \in Nat
      BY <1>2
    <2>3. PICK x \in Seq(S) : x = IF k + 1 = 1 THEN seqs[k + 1] ELSE f[k] \o seqs[k + 1]
      <3>1. CASE k = 0
        BY <2>2, <3>1
      <3>2. CASE k # 0
        <4>1. f[k] \in Seq(S) /\ k + 1 # 1
          BY <2>2, <3>2
        <4>2. f[k] \o seqs[k + 1] \in Seq(S)
          BY <2>2, <4>1
        <4> QED
          BY <4>1, <4>2
      <3> QED
        BY <3>1, <3>2
    <2>4. PICK g : g = [i \in 1..(k + 1) |-> IF i = k + 1 THEN x ELSE f[i]]
      OBVIOUS
    <2>5. g \in [1..(k + 1) -> Seq(S)] /\ g[k + 1] = x /\ \A i \in 1..k : g[i] = f[i]
      <3>1. \A i \in 1..(k + 1) : i = k + 1 \/ i \in 1..k
        BY <2>2
      <3>2. k + 1 \in 1..(k + 1) /\ \A i \in 1..k : i \in 1..(k + 1) /\ i # k + 1
        BY <2>2
      <3>3. \A i \in 1..(k + 1) : g[i] \in Seq(S)
        BY <2>4, <3>1
      <3> QED
        BY <2>4, <3>2, <3>3
    <2>6. Flattened(seqs, g, k + 1)
      <3> SUFFICES ASSUME NEW i \in 1..(k + 1)
                   PROVE  g[i] = IF i = 1 THEN seqs[i] ELSE g[i - 1] \o seqs[i]
        BY DEF Flattened
      <3>1. CASE i = k + 1
        <4>1. i # 1 => k \in 1..k /\ i - 1 = k
          BY <2>2, <3>1
        <4> QED
          BY <2>3, <2>5, <3>1, <4>1
      <3>2. CASE i # k + 1
        <4>1. i \in 1..k /\ (i # 1 => i - 1 \in 1..k)
          BY <2>2, <3>2
        <4>2. f[i] = IF i = 1 THEN seqs[i] ELSE f[i - 1] \o seqs[i]
          BY <2>1, <4>1 DEF Flattened
        <4> QED
          BY <2>5, <4>1, <4>2
      <3> QED
        BY <3>1, <3>2
    <2> QED
      BY <1>2, <2>2, <2>5, <2>6
  <1>3. \A k \in 0..n : k \in T
    <2>1. T \in SUBSET (0..n)
      OBVIOUS
    <2> HIDE DEF T
    <2> QED
      BY <1>1, <1>2, <2>1, Induction
  <1>4. n \in T
    <2> HIDE DEF T
    <2> QED
      BY <1>3
  <1> QED
    BY <1>4

\* FlattenSeq is what its recursion says.
LEMMA FlattenIs ==
    ASSUME NEW S, NEW seqs \in Seq(Seq(S)), Len(seqs) # 0,
           NEW f \in [1..Len(seqs) -> Seq(S)], Flattened(seqs, f, Len(seqs))
    PROVE  FlattenSeq(seqs) = f[Len(seqs)] /\ FlattenSeq(seqs) \in Seq(S)
  <1> DEFINE c == CHOOSE g : g = [i \in 1..Len(seqs) |-> IF i = 1 THEN seqs[i] ELSE g[i - 1] \o seqs[i]]
  <1>1. PICK n \in Nat : n = Len(seqs) /\ n # 0
    OBVIOUS
  <1>2. f = [i \in 1..Len(seqs) |-> IF i = 1 THEN seqs[i] ELSE f[i - 1] \o seqs[i]]
    BY DEF Flattened
  <1>3. c = [i \in 1..Len(seqs) |-> IF i = 1 THEN seqs[i] ELSE c[i - 1] \o seqs[i]]
    BY <1>2, Zenon
  <1>4. FlattenSeq(seqs) = c[Len(seqs)]
    BY Zenon DEF FlattenSeq
  <1> HIDE DEF c
  <1>5. \A i \in 1..n : c[i] = IF i = 1 THEN seqs[i] ELSE c[i - 1] \o seqs[i]
    BY <1>1, <1>3
  <1>6. \A i \in 1..n : f[i] = IF i = 1 THEN seqs[i] ELSE f[i - 1] \o seqs[i]
    BY <1>1 DEF Flattened
  <1> DEFINE T == {k \in 0..n : k = 0 \/ c[k] = f[k]}
  <1>7. 0 \in T /\ T \in SUBSET (0..n)
    OBVIOUS
  <1>8. ASSUME NEW k \in 0..n, k \in T, k < n PROVE k + 1 \in T
    <2>1. k + 1 \in 1..n /\ (k + 1) - 1 = k
      BY <1>8
    <2>2. CASE k = 0
      <3>1. c[1] = seqs[1] /\ f[1] = seqs[1]
        BY <1>5, <1>6, <2>1, <2>2
      <3> QED
        BY <2>1, <2>2, <3>1
    <2>3. CASE k # 0
      <3>1. c[k] = f[k] /\ k + 1 # 1
        BY <1>8, <2>3
      <3>2. c[k + 1] = c[k] \o seqs[k + 1] /\ f[k + 1] = f[k] \o seqs[k + 1]
        BY <1>5, <1>6, <2>1, <3>1
      <3>3. k + 1 \in 0..n /\ c[k + 1] = f[k + 1]
        <4>1. k + 1 \in 0..n
          BY <2>1, <1>1
        <4>2. c[k + 1] = f[k + 1]
          BY <3>1, <3>2, Zenon
        <4> QED
          BY <4>1, <4>2
      <3> QED
        BY <3>3
    <2> QED
      BY <2>2, <2>3
  <1>9. \A k \in 0..n : k \in T
    <2> HIDE DEF T
    <2> QED
      BY <1>7, <1>8, Induction
  <1>10. c[n] = f[n] /\ f[n] \in Seq(S)
    <2>1. n \in 0..n /\ n \in 1..n
      BY <1>1
    <2> QED
      BY <1>1, <1>9, <2>1
  <1> QED
    BY <1>1, <1>4, <1>10

\* Nothing flattens to nothing.
LEMMA FlattenEmpty == FlattenSeq(<<>>) = <<>>
  BY DEF FlattenSeq

\* One sequence more.
LEMMA FlattenAppend ==
    ASSUME NEW S, NEW seqs \in Seq(Seq(S)), NEW x \in Seq(S)
    PROVE  /\ FlattenSeq(seqs) \in Seq(S)
           /\ FlattenSeq(Append(seqs, x)) = FlattenSeq(seqs) \o x
  <1>1. PICK n \in Nat, more \in Seq(Seq(S)) :
            /\ n = Len(seqs) /\ more = Append(seqs, x) /\ Len(more) = n + 1 /\ more[n + 1] = x
            /\ \A i \in 1..n : more[i] = seqs[i]
    <2>1. PICK n \in Nat : n = Len(seqs)
      OBVIOUS
    <2>2. PICK more : more = Append(seqs, x)
      OBVIOUS
    <2>3. more \in Seq(Seq(S)) /\ Len(more) = n + 1
      BY <2>1, <2>2
    <2>4. more[n + 1] = x /\ \A i \in 1..n : more[i] = seqs[i]
      BY <2>1, <2>2
    <2> QED
      BY <2>1, <2>2, <2>3, <2>4
  <1>2. PICK f \in [1..(n + 1) -> Seq(S)] : Flattened(more, f, n + 1)
    <2>1. n + 1 \in Nat /\ n + 1 <= Len(more)
      BY <1>1
    <2> QED
      BY <2>1, FlattenedExists
  <1>3. FlattenSeq(more) = f[n + 1]
    <2>1. Len(more) # 0 /\ Len(more) = n + 1
      BY <1>1
    <2> QED
      BY <1>2, <2>1, FlattenIs
  <1>4. f[n + 1] = IF n + 1 = 1 THEN more[n + 1] ELSE f[n] \o more[n + 1]
    <2>1. n + 1 \in 1..(n + 1) /\ (n + 1) - 1 = n
      OBVIOUS
    <2> QED
      BY <1>2, <2>1 DEF Flattened
  <1>5. CASE n = 0
    <2>1. seqs = <<>> /\ FlattenSeq(seqs) = <<>>
      <3>1. seqs = <<>>
        BY <1>1, <1>5
      <3> QED
        BY <3>1, FlattenEmpty
    <2>2. <<>> \in Seq(S) /\ <<>> \o x = x
      OBVIOUS
    <2>3. n + 1 = 1
      BY <1>5
    <2>4. f[n + 1] = more[n + 1]
      BY <1>4, <2>3
    <2>5. FlattenSeq(Append(seqs, x)) = x
      BY <1>1, <1>3, <2>4, Zenon
    <2> QED
      BY <2>1, <2>2, <2>5
  <1>6. CASE n # 0
    <2>1. PICK g \in [1..n -> Seq(S)] : g = [i \in 1..n |-> f[i]]
      <3>1. \A i \in 1..n : i \in 1..(n + 1)
        OBVIOUS
      <3> QED
        BY <3>1
    <2>2. Flattened(seqs, g, n)
      <3> SUFFICES ASSUME NEW i \in 1..n
                   PROVE  g[i] = IF i = 1 THEN seqs[i] ELSE g[i - 1] \o seqs[i]
        BY DEF Flattened
      <3>1. i \in 1..(n + 1) /\ (i # 1 => i - 1 \in 1..n)
        OBVIOUS
      <3>2. f[i] = IF i = 1 THEN more[i] ELSE f[i - 1] \o more[i]
        BY <1>2, <3>1 DEF Flattened
      <3> QED
        BY <1>1, <2>1, <3>1, <3>2
    <2>3. FlattenSeq(seqs) = g[n] /\ FlattenSeq(seqs) \in Seq(S)
      BY <1>1, <1>6, <2>2, FlattenIs
    <2>4. g[n] = f[n] /\ n + 1 # 1
      BY <1>6, <2>1
    <2> QED
      BY <1>1, <1>3, <1>4, <2>3, <2>4
  <1> QED
    BY <1>5, <1>6

\* Concatenation stays in Q.
Closed(Q) == \A s, t \in Q : s \o t \in Q
\* Concatenation of s, t and u is associative; and of all in Q.
Assoc(s, t, u) == (s \o t) \o u = s \o (t \o u)
Moves(Q) == \A s, t, u \in Q : Assoc(s, t, u)

\* Concatenation of sequences over S is one, and is associative.
LEMMA SeqMoves ==
    ASSUME NEW S
    PROVE  Closed(Seq(S)) /\ Moves(Seq(S))
  <1>1. Closed(Seq(S))
    BY ConcatProperties DEF Closed
  <1>2. Moves(Seq(S))
    <2> SUFFICES ASSUME NEW s \in Seq(S), NEW t \in Seq(S), NEW u \in Seq(S)
                 PROVE  (s \o t) \o u = s \o (t \o u)
      BY DEF Moves, Assoc
    <2> QED
      BY ConcatAssociative, SMT
  <1> QED
    BY <1>1, <1>2

\* A row of sequences that goes on longer flattens to what its first part
\* flattens to, with the next one behind it and something behind that.
LEMMA FlattenSplit ==
    ASSUME NEW S, NEW seqs \in Seq(Seq(S)), NEW front \in Seq(Seq(S)),
           Len(front) < Len(seqs), \A i \in 1..Len(front) : front[i] = seqs[i]
    PROVE  \E q \in Seq(S) : FlattenSeq(seqs) = FlattenSeq(front) \o (seqs[Len(front) + 1] \o q)
  <1>1. PICK n \in Nat, m \in Nat : n = Len(seqs) /\ m = Len(front) /\ m < n
    OBVIOUS
  <1>2. PICK f \in [1..n -> Seq(S)] : Flattened(seqs, f, n)
    <2>1. n <= Len(seqs)
      BY <1>1
    <2> QED
      BY <2>1, FlattenedExists
  <1>3. \A i \in 1..n : f[i] = IF i = 1 THEN seqs[i] ELSE f[i - 1] \o seqs[i]
    BY <1>2 DEF Flattened
  <1>4. FlattenSeq(seqs) = f[n]
    <2>1. Len(seqs) # 0 /\ n = Len(seqs)
      BY <1>1
    <2> QED
      BY <1>2, <2>1, FlattenIs
  <1>5. \A i \in 1..n : f[i] \in Seq(S) /\ seqs[i] \in Seq(S)
    BY <1>1, <1>2
  <1>6. f[m + 1] = FlattenSeq(front) \o seqs[m + 1] /\ FlattenSeq(front) \in Seq(S)
    <2>1. m + 1 \in 1..n /\ (m + 1) - 1 = m
      BY <1>1
    <2>2. CASE m = 0
      <3>1. front = <<>> /\ <<>> \in Seq(S)
        <4>1. Len(front) = 0
          BY <1>1, <2>2
        <4> QED
          BY <4>1, EmptySeq
      <3>2. FlattenSeq(front) = <<>> /\ FlattenSeq(front) \in Seq(S)
        BY <3>1, FlattenEmpty
      <3>3. f[m + 1] = seqs[m + 1] /\ seqs[m + 1] \in Seq(S)
        <4>1. m + 1 = 1
          BY <2>2
        <4>2. f[m + 1] = seqs[m + 1]
          BY <1>3, <2>1, <4>1
        <4> QED
          BY <1>5, <2>1, <4>2
      <3>4. <<>> \o seqs[m + 1] = seqs[m + 1]
        BY <3>3, ConcatEmptySeq
      <3> QED
        BY <3>2, <3>3, <3>4
    <2>3. CASE m # 0
      <3>1. PICK g \in [1..m -> Seq(S)] : g = [i \in 1..m |-> f[i]]
        <4>1. \A i \in 1..m : i \in 1..n
          BY <1>1
        <4> QED
          BY <1>5, <4>1
      <3>2. Flattened(front, g, m)
        <4> SUFFICES ASSUME NEW i \in 1..m
                     PROVE  g[i] = IF i = 1 THEN front[i] ELSE g[i - 1] \o front[i]
          BY DEF Flattened
        <4>1. i \in 1..n /\ (i # 1 => i - 1 \in 1..m)
          BY <1>1
        <4>2. front[i] = seqs[i]
          BY <1>1
        <4> QED
          BY <1>3, <3>1, <4>1, <4>2
      <3>3. FlattenSeq(front) = g[m] /\ FlattenSeq(front) \in Seq(S)
        BY <1>1, <2>3, <3>2, FlattenIs
      <3>4. g[m] = f[m] /\ m + 1 # 1
        BY <2>3, <3>1
      <3>5. f[m + 1] = f[m] \o seqs[m + 1]
        BY <1>3, <2>1, <3>4
      <3> QED
        BY <3>3, <3>4, <3>5
    <2> QED
      BY <2>2, <2>3
  <1> DEFINE T == {k \in 0..(n - m - 1) : \E q \in Seq(S) : f[m + 1 + k] = f[m + 1] \o q}
  <1>7. n - m - 1 \in Nat /\ m + 1 \in 1..n
    BY <1>1
  <1>8. 0 \in T /\ T \in SUBSET (0..(n - m - 1))
    <2>1. f[m + 1] \in Seq(S)
      BY <1>5, <1>7
    <2>2. f[m + 1] \o <<>> = f[m + 1] /\ <<>> \in Seq(S)
      <3> HIDE DEF T
      <3> QED
        BY <2>1, ConcatEmptySeq, EmptySeq
    <2>3. m + 1 + 0 = m + 1 /\ 0 \in 0..(n - m - 1)
      BY <1>7
    <2> QED
      BY <2>2, <2>3, Zenon
  <1>9. ASSUME NEW k \in 0..(n - m - 1), k \in T, k < n - m - 1 PROVE k + 1 \in T
    <2>1. PICK q \in Seq(S) : f[m + 1 + k] = f[m + 1] \o q
      BY <1>9
    <2>2. m + 1 + (k + 1) \in 1..n /\ m + 1 + (k + 1) # 1 /\ (m + 1 + (k + 1)) - 1 = m + 1 + k
      BY <1>1, <1>9
    <2>3. PICK x \in Seq(S) : x = seqs[m + 1 + (k + 1)]
      BY <1>5, <2>2
    <2>4. f[m + 1 + (k + 1)] = (f[m + 1] \o q) \o x
      BY <1>3, <2>1, <2>2, <2>3
    <2>5. (f[m + 1] \o q) \o x = f[m + 1] \o (q \o x) /\ q \o x \in Seq(S)
      <3>1. f[m + 1] \in Seq(S)
        BY <1>5, <1>7
      <3>2. PICK a \in Seq(S) : a = f[m + 1]
        BY <3>1
      <3> HIDE DEF T
      <3>3. q \in Seq(S) /\ x \in Seq(S) /\ a \in Seq(S)
        BY <2>1, <2>3, <3>2
      <3>4. (a \o q) \o x = a \o (q \o x)
        <4>1. Moves(Seq(S))
          BY SeqMoves
        <4>2. Assoc(a, q, x)
          BY <3>3, <4>1, Zenon DEF Moves
        <4> QED
          BY <4>2 DEF Assoc
      <3>5. q \o x \in Seq(S)
        BY <3>3, ConcatProperties
      <3> QED
        BY <3>2, <3>4, <3>5
    <2>6. k + 1 \in 0..(n - m - 1)
      BY <1>7, <1>9
    <2> QED
      BY <2>4, <2>5, <2>6
  <1>10. \A k \in 0..(n - m - 1) : k \in T
    <2> HIDE DEF T
    <2> QED
      BY <1>7, <1>8, <1>9, Induction
  <1>11. PICK q \in Seq(S) : f[n] = f[m + 1] \o q
    <2>1. n - m - 1 \in 0..(n - m - 1) /\ m + 1 + (n - m - 1) = n
      BY <1>7
    <2> QED
      BY <1>10, <2>1
  <1>12. f[n] = FlattenSeq(front) \o (seqs[m + 1] \o q)
    <2>1. PICK a \in Seq(S), b \in Seq(S) : a = FlattenSeq(front) /\ b = seqs[m + 1]
      BY <1>5, <1>6, <1>7
    <2>2. (a \o b) \o q = a \o (b \o q)
      <3>1. Moves(Seq(S))
        BY SeqMoves
      <3>2. Assoc(a, b, q)
        BY <3>1, Zenon DEF Moves
      <3> QED
        BY <3>2 DEF Assoc
    <2>3. f[m + 1] = a \o b
      BY <1>6, <2>1
    <2> QED
      BY <1>11, <2>1, <2>2, <2>3
  <1> QED
    BY <1>1, <1>4, <1>12

-----------------------------------------------------------------------------
(* The stream stays whole. *)

\* The largest packet.
PacketMax == HeadSize + MaxBody + ExtraSize - 1

\* Sizes that composePacket lets pass.
GoodSizes(s) ==
    /\ s \in Seq(Nat) /\ Len(s) <= MaxSent
    /\ \A i \in 1..Len(s) : s[i] > 0 /\ s[i] < MaxBody + ExtraSize

\* The first m packets of those with the bodies' sizes s.
Row(s, m) == [i \in 1..m |-> PacketBytes(i, s[i])]

\* A packet byte by byte.
LEMMA PacketIs ==
    ASSUME NEW i \in 1..MaxSent, NEW size \in Nat, size < MaxBody + ExtraSize
    PROVE  /\ PacketBytes(i, size) \in Seq(Bytes)
           /\ Len(PacketBytes(i, size)) = HeadSize + size
           /\ \A j \in 1..(HeadSize + size) : PacketBytes(i, size)[j] = <<i, j>>
  <1>1. PacketBytes(i, size) \in Seq(Bytes)
    BY PacketType
  <1>2. HeadSize + size \in Nat
    BY Numbers
  <1> QED
    BY <1>1, <1>2, SMT DEF PacketBytes

\* Types of rows of packets.
LEMMA RowType ==
    ASSUME NEW s, GoodSizes(s), NEW m \in 0..Len(s)
    PROVE  /\ Row(s, m) \in Seq(Seq(Bytes)) /\ Len(Row(s, m)) = m
           /\ \A i \in 1..m : Row(s, m)[i] = PacketBytes(i, s[i])
           /\ FlattenSeq(Row(s, m)) \in Seq(Bytes)
  <1>1. s \in Seq(Nat) /\ Len(s) \in Nat /\ Len(s) <= MaxSent /\ m \in Nat /\ MaxSent \in Nat
    BY Numbers DEF GoodSizes
  <1>2. \A i \in 1..m : PacketBytes(i, s[i]) \in Seq(Bytes)
    <2> TAKE i \in 1..m
    <2>1. i \in 1..MaxSent /\ i \in 1..Len(s)
      BY <1>1
    <2>2. s[i] \in Nat /\ s[i] < MaxBody + ExtraSize
      BY <1>1, <2>1 DEF GoodSizes
    <2> QED
      BY <2>1, <2>2, PacketType
  <1>3. Row(s, m) \in Seq(Seq(Bytes)) /\ Len(Row(s, m)) = m
    BY <1>1, <1>2, SMT DEF Row
  <1>4. FlattenSeq(Row(s, m)) \in Seq(Bytes)
    <2>1. <<>> \in Seq(Bytes)
      OBVIOUS
    <2> QED
      BY <1>3, <2>1, FlattenAppend
  <1> QED
    BY <1>3, <1>4 DEF Row

\* One packet more.
LEMMA RowNext ==
    ASSUME NEW s, GoodSizes(s), NEW m \in 0..Len(s), m < Len(s)
    PROVE  /\ PacketBytes(m + 1, s[m + 1]) \in Seq(Bytes)
           /\ FlattenSeq(Row(s, m + 1)) = FlattenSeq(Row(s, m)) \o PacketBytes(m + 1, s[m + 1])
  <1>1. s \in Seq(Nat) /\ Len(s) \in Nat /\ m \in Nat /\ m + 1 \in 0..Len(s) /\ m + 1 \in 1..(m + 1)
    BY DEF GoodSizes
  <1>2. PICK a \in Seq(Seq(Bytes)), b \in Seq(Seq(Bytes)) :
            /\ a = Row(s, m) /\ Len(a) = m /\ \A i \in 1..m : a[i] = PacketBytes(i, s[i])
            /\ b = Row(s, m + 1) /\ Len(b) = m + 1 /\ \A i \in 1..(m + 1) : b[i] = PacketBytes(i, s[i])
    BY <1>1, RowType
  <1>3. PICK p \in Seq(Bytes) : p = PacketBytes(m + 1, s[m + 1])
    BY <1>1, <1>2
  <1>4. b = Append(a, p)
    <2>1. \A i \in 1..m : b[i] = a[i]
      <3> TAKE i \in 1..m
      <3>1. i \in 1..(m + 1)
        BY <1>1
      <3> QED
        BY <1>2, <3>1, Zenon
    <2>2. b[m + 1] = p
      BY <1>1, <1>2, <1>3
    <2> QED
      BY <1>1, <1>2, <1>3, <2>1, <2>2
  <1>5. FlattenSeq(b) = FlattenSeq(a) \o p
    BY <1>4, FlattenAppend
  <1> QED
    BY <1>2, <1>3, <1>5

\* One packet more is sent.
LEMMA RowSent ==
    ASSUME NEW s, GoodSizes(s), NEW n \in Nat, GoodSizes(Append(s, n))
    PROVE  /\ \A m \in 0..Len(s) : Row(Append(s, n), m) = Row(s, m)
           /\ PacketBytes(Len(s) + 1, n) \in Seq(Bytes)
           /\ FlattenSeq(Row(Append(s, n), Len(s) + 1))
                = FlattenSeq(Row(s, Len(s))) \o PacketBytes(Len(s) + 1, n)
  <1>1. PICK t \in Seq(Nat), k \in Nat :
            /\ t = Append(s, n) /\ k = Len(s) /\ Len(t) = k + 1 /\ t[k + 1] = n
            /\ \A i \in 1..k : t[i] = s[i]
    <2>1. s \in Seq(Nat)
      BY DEF GoodSizes
    <2>2. PICK k \in Nat : k = Len(s)
      BY <2>1
    <2>3. PICK t \in Seq(Nat) : t = Append(s, n)
      BY <2>1, AppendProperties
    <2>4. Len(t) = k + 1 /\ t[k + 1] = n /\ \A i \in 1..k : t[i] = s[i]
      BY <2>1, <2>2, <2>3, AppendProperties
    <2> QED
      BY <2>2, <2>3, <2>4
  <1>2. \A m \in 0..k : Row(t, m) = Row(s, m)
    <2> TAKE m \in 0..k
    <2>1. \A i \in 1..m : t[i] = s[i]
      BY <1>1
    <2> QED
      BY <2>1 DEF Row
  <1>3. PacketBytes(k + 1, t[k + 1]) \in Seq(Bytes)
        /\ FlattenSeq(Row(t, k + 1)) = FlattenSeq(Row(t, k)) \o PacketBytes(k + 1, t[k + 1])
    <2>1. GoodSizes(t) /\ k \in 0..Len(t) /\ k < Len(t)
      BY <1>1
    <2> QED
      BY <2>1, RowNext
  <1>4. k \in 0..k
    OBVIOUS
  <1> QED
    BY <1>1, <1>2, <1>3, <1>4

\* What follows the first m packets is the next one and more; or nothing.
LEMMA RowSplit ==
    ASSUME NEW s, GoodSizes(s), NEW m \in 0..Len(s), m < Len(s)
    PROVE  \E q \in Seq(Bytes) :
             /\ FlattenSeq(Row(s, Len(s)))
                  = FlattenSeq(Row(s, m)) \o (PacketBytes(m + 1, s[m + 1]) \o q)
             /\ Len(s) = m + 1 => q = <<>>
  <1>1. s \in Seq(Nat) /\ Len(s) \in Nat /\ m \in Nat /\ Len(s) \in 0..Len(s) /\ m + 1 \in 1..Len(s)
    BY DEF GoodSizes
  <1>2. PICK a \in Seq(Seq(Bytes)), b \in Seq(Seq(Bytes)) :
            /\ a = Row(s, m) /\ Len(a) = m /\ \A i \in 1..m : a[i] = PacketBytes(i, s[i])
            /\ b = Row(s, Len(s)) /\ Len(b) = Len(s) /\ \A i \in 1..Len(s) : b[i] = PacketBytes(i, s[i])
    BY <1>1, RowType
  <1>3. CASE Len(s) = m + 1
    <2>1. PICK p \in Seq(Bytes) : p = PacketBytes(m + 1, s[m + 1])
      BY RowNext
    <2>2. p \o <<>> = p /\ <<>> \in Seq(Bytes)
      BY ConcatEmptySeq, EmptySeq
    <2>3. FlattenSeq(Row(s, Len(s))) = FlattenSeq(Row(s, m)) \o p
      BY <1>3, <2>1, RowNext
    <2> QED
      BY <2>1, <2>2, <2>3
  <1>4. CASE Len(s) # m + 1
    <2>1. Len(a) < Len(b) /\ \A i \in 1..Len(a) : a[i] = b[i]
      BY <1>1, <1>2
    <2>2. PICK q \in Seq(Bytes) : FlattenSeq(b) = FlattenSeq(a) \o (b[Len(a) + 1] \o q)
      BY <2>1, FlattenSplit
    <2>3. b[Len(a) + 1] = PacketBytes(m + 1, s[m + 1])
      BY <1>1, <1>2
    <2> QED
      BY <1>2, <1>4, <2>2, <2>3
  <1> QED
    BY <1>3, <1>4

\* What a receiver that has taken m packets finds in front of it.
LEMMA FrontIs ==
    ASSUME NEW s, GoodSizes(s), NEW m \in 0..Len(s), NEW d \in Seq(Bytes), NEW y \in Seq(Bytes),
           Len(d) > HeadSize, FlattenSeq(Row(s, m)) \o (d \o y) = FlattenSeq(Row(s, Len(s)))
    PROVE  /\ m < Len(s)
           /\ d[1][1] = m + 1
           /\ SubSeq(d, 1, HeadSize) = SubSeq(PacketBytes(m + 1, s[m + 1]), 1, HeadSize)
           /\ \A j \in 1..Len(d) : j <= HeadSize + s[m + 1] => d[j] = <<m + 1, j>>
           /\ Len(s) = m + 1 => Len(d) <= HeadSize + s[m + 1]
  <1>1. s \in Seq(Nat) /\ Len(s) \in Nat /\ m \in Nat /\ Len(s) \in 0..Len(s) /\ Len(s) <= MaxSent
    BY DEF GoodSizes
  <1>2. PICK a \in Seq(Bytes) : a = FlattenSeq(Row(s, m))
    BY RowType
  <1>3. PICK n \in Nat : n = Len(d) /\ n > HeadSize /\ HeadSize > 0 /\ HeadSize \in Nat
    BY Numbers
  <1>4. d \o y \in Seq(Bytes) /\ Len(d \o y) = n + Len(y) /\ \A j \in 1..n : (d \o y)[j] = d[j]
    BY <1>3
  <1>5. m < Len(s)
    <2> SUFFICES ASSUME m = Len(s) PROVE FALSE
      BY <1>1
    <2>1. a \o (d \o y) = a
      BY <1>2
    <2>2. d \o y = <<>>
      BY <1>4, <2>1, ConcatEqualIffEmpty
    <2>3. Len(y) \in Nat /\ Len(d \o y) = 0
      BY <2>2, EmptySeq
    <2> QED
      BY <1>3, <1>4, <2>3
  <1>6. PICK q \in Seq(Bytes) :
             /\ FlattenSeq(Row(s, Len(s))) = a \o (PacketBytes(m + 1, s[m + 1]) \o q)
             /\ Len(s) = m + 1 => q = <<>>
    BY <1>2, <1>5, RowSplit
  <1>7. m + 1 \in 1..MaxSent /\ m + 1 \in 1..Len(s) /\ MaxSent \in Nat
    BY <1>1, <1>5, Numbers
  <1>8. PICK size \in Nat : size = s[m + 1] /\ size < MaxBody + ExtraSize
    BY <1>1, <1>7 DEF GoodSizes
  <1>9. PICK p \in Seq(Bytes) : /\ p = PacketBytes(m + 1, size) /\ Len(p) = HeadSize + size
                                 /\ \A j \in 1..(HeadSize + size) : p[j] = <<m + 1, j>>
    BY <1>7, <1>8, PacketIs
  <1>10. d \o y = p \o q
    <2>1. a \o (d \o y) = a \o (p \o q)
      BY <1>2, <1>6, <1>8, <1>9
    <2>2. p \o q \in Seq(Bytes)
      BY ConcatProperties
    <2> QED
      BY <1>4, <2>1, <2>2, ConcatSimplifications
  <1>11. Len(p \o q) = HeadSize + size + Len(q) /\ \A j \in 1..(HeadSize + size) : (p \o q)[j] = p[j]
    <2>1. Len(p) = HeadSize + size /\ HeadSize + size \in Nat /\ Len(q) \in Nat
      BY <1>3, <1>9
    <2>2. Len(p \o q) = HeadSize + size + Len(q)
      BY <2>1, ConcatProperties
    <2>3. \A j \in 1..(HeadSize + size) : (p \o q)[j] = p[j]
      <3> TAKE j \in 1..(HeadSize + size)
      <3>1. j \in 1..(Len(p) + Len(q)) /\ j <= Len(p)
        BY <2>1
      <3> QED
        BY <3>1, ConcatProperties
    <2> QED
      BY <2>2, <2>3
  <1>12. \A j \in 1..n : j <= HeadSize + size => d[j] = <<m + 1, j>>
    <2> TAKE j \in 1..n
    <2> HAVE j <= HeadSize + size
    <2>1. j \in 1..(HeadSize + size)
      BY <1>3
    <2> QED
      BY <1>4, <1>9, <1>10, <1>11, <2>1
  <1>13. d[1][1] = m + 1
    <2>1. 1 \in 1..n /\ 1 <= HeadSize + size
      BY <1>3
    <2>2. d[1] = <<m + 1, 1>>
      BY <1>12, <2>1
    <2> QED
      BY <2>2
  <1>14. SubSeq(d, 1, HeadSize) = SubSeq(p, 1, HeadSize)
    <2>1. SubSeq(d, 1, HeadSize) \in Seq(Bytes) /\ Len(SubSeq(d, 1, HeadSize)) = HeadSize
          /\ \A j \in 1..HeadSize : SubSeq(d, 1, HeadSize)[j] = d[j]
      BY <1>3
    <2>2. SubSeq(p, 1, HeadSize) \in Seq(Bytes) /\ Len(SubSeq(p, 1, HeadSize)) = HeadSize
          /\ \A j \in 1..HeadSize : SubSeq(p, 1, HeadSize)[j] = p[j]
      BY <1>3, <1>9
    <2>3. \A j \in 1..HeadSize : d[j] = p[j]
      <3> TAKE j \in 1..HeadSize
      <3>1. j \in 1..n /\ j <= HeadSize + size /\ j \in 1..(HeadSize + size)
        BY <1>3
      <3> QED
        BY <1>9, <1>12, <3>1
    <2> QED
      BY <2>1, <2>2, <2>3, SeqEqual
  <1>15. ASSUME Len(s) = m + 1 PROVE n <= HeadSize + size
    <2>1. q = <<>> /\ Len(q) = 0
      BY <1>6, <1>15, EmptySeq
    <2>2. PICK k \in Nat : k = Len(y)
      OBVIOUS
    <2>3. Len(d \o y) = n + k /\ Len(p \o q) = HeadSize + size + 0
      BY <1>4, <1>11, <2>1, <2>2
    <2>4. n + k = HeadSize + size + 0
      BY <1>10, <2>3
    <2> QED
      BY <1>3, <2>4
  <1> QED
    BY <1>3, <1>5, <1>8, <1>9, <1>12, <1>13, <1>14, <1>15

\* n elements from the h-th on.
LEMMA PieceIs ==
    ASSUME NEW S, NEW s \in Seq(S), NEW h \in Nat, NEW n \in Nat, h + n <= Len(s)
    PROVE  /\ SubSeq(s, h + 1, h + n) \in Seq(S) /\ Len(SubSeq(s, h + 1, h + n)) = n
           /\ \A j \in 1..n : SubSeq(s, h + 1, h + n)[j] = s[h + j]
  <1>1. \A i \in (h + 1)..(h + n) : s[i] \in S
    OBVIOUS
  <1>2. /\ SubSeq(s, h + 1, h + n) \in Seq(S)
        /\ Len(SubSeq(s, h + 1, h + n)) = IF h + 1 <= h + n THEN (h + n) - (h + 1) + 1 ELSE 0
        /\ \A j \in 1..((h + n) - (h + 1) + 1) : SubSeq(s, h + 1, h + n)[j] = s[(h + 1) + j - 1]
    BY <1>1, SubSeqProperties
  <1>3. (h + n) - (h + 1) + 1 = n /\ (~ (h + 1 <= h + n) => n = 0)
    OBVIOUS
  <1>4. \A j \in 1..n : (h + 1) + j - 1 = h + j
    OBVIOUS
  <1> QED
    BY <1>2, <1>3, <1>4

\* What Take does with the receive buffer.
LEMMA CutIs ==
    ASSUME NEW b \in Buffer(Bytes), Linear(b), NEW size \in Nat,
           Len(b.data) > HeadSize, Len(b.data) >= HeadSize + size,
           NEW rest, rest = ReadIntactBuffer(b, HeadSize),
           NEW c, c = SetReadBufSize(rest, size)
    PROVE  /\ SubSeq(rest.data, 1, size) \in Seq(Bytes)
           /\ Len(SubSeq(rest.data, 1, size)) = size
           /\ \A j \in 1..size : SubSeq(rest.data, 1, size)[j] = b.data[HeadSize + j]
           /\ c.data \in Seq(Bytes) /\ Len(c.data) = Len(b.data) - (HeadSize + size)
           /\ \A j \in 1..Len(c.data) : c.data[j] = b.data[HeadSize + size + j]
           /\ c.capacity = b.capacity /\ c.tail <= b.tail
           /\ Len(b.data) = HeadSize + size => c.head = 0
  <1>1. PICK n \in Nat, d \in Seq(Bytes), h \in Nat :
            n = Len(d) /\ d = b.data /\ h = HeadSize /\ h > 0 /\ n > h /\ n >= h + size
    BY Numbers DEF Buffer
  <1>2. b.tail \in Nat /\ b.head \in Nat /\ b.capacity \in Nat
    BY DEF Buffer
  <1>3. rest \in Buffer(Bytes) /\ Linear(rest)
    BY Numbers, DropLinear DEF ReadIntactBuffer
  <1>4. rest = [b EXCEPT !.head = (@ + h) % b.capacity, !.data = SubSeq(d, h + 1, n)]
    BY <1>1 DEF ReadIntactBuffer, Drop, Size
  <1>5. rest.data = SubSeq(d, h + 1, n) /\ rest.capacity = b.capacity /\ rest.tail = b.tail
    BY <1>4 DEF Buffer
  <1>6. PICK r \in Seq(Bytes), k \in Nat :
            r = rest.data /\ k = Len(r) /\ k = n - h /\ \A j \in 1..k : r[j] = d[h + j]
    <2>1. SubSeq(d, h + 1, n) \in Seq(Bytes) /\ Len(SubSeq(d, h + 1, n)) = n - h
      BY <1>1, RestType
    <2>2. \A j \in 1..(n - h) : SubSeq(d, h + 1, n)[j] = d[h + j]
      BY <1>1
    <2>3. n - h \in Nat
      BY <1>1
    <2>4. rest.data \in Seq(Bytes) /\ Len(rest.data) = n - h /\ \A j \in 1..(n - h) : rest.data[j] = d[h + j]
      BY <1>5, <2>1, <2>2
    <2> QED
      BY <2>3, <2>4, Zenon
  <1>7. /\ SubSeq(r, 1, size) \in Seq(Bytes) /\ Len(SubSeq(r, 1, size)) = size
        /\ \A j \in 1..size : SubSeq(r, 1, size)[j] = d[h + j]
    <2>1. SubSeq(r, 1, size) \in Seq(Bytes) /\ Len(SubSeq(r, 1, size)) = size
      <3>1. size <= Len(r)
        BY <1>1, <1>6
      <3> QED
        BY <3>1, FrontType
    <2>2. \A j \in 1..size : SubSeq(r, 1, size)[j] = r[j] /\ j \in 1..k
      BY <1>1, <1>6
    <2> QED
      BY <1>6, <2>1, <2>2
  <1>8. c = Drop(rest, size)
    <2>1. ~ (rest.head > rest.tail)
      BY <1>3, SMT DEF Linear, Size, Buffer
    <2> QED
      BY <2>1 DEF SetReadBufSize
  <1>9. CASE size < k
    <2>1. c = [rest EXCEPT !.head = (@ + size) % rest.capacity, !.data = SubSeq(r, size + 1, k)]
      BY <1>6, <1>8, <1>9 DEF Drop, Size
    <2>2. c.data = SubSeq(r, size + 1, k) /\ c.capacity = rest.capacity /\ c.tail = rest.tail
      BY <1>3, <2>1 DEF Buffer
    <2>3. SubSeq(r, size + 1, k) \in Seq(Bytes) /\ Len(SubSeq(r, size + 1, k)) = k - size
      <3>1. size < Len(r) /\ Len(r) = k
        BY <1>6, <1>9
      <3> QED
        BY <3>1, RestType
    <2>4. \A j \in 1..(k - size) : SubSeq(r, size + 1, k)[j] = d[h + size + j]
      <3> TAKE j \in 1..(k - size)
      <3>1. SubSeq(r, size + 1, k)[j] = r[size + j] /\ size + j \in 1..k
        <4>1. size + j \in 1..k /\ size + (k - size) = k /\ k - size \in Nat
          BY <1>9
        <4>2. size + (k - size) <= Len(r)
          BY <1>6, <4>1
        <4>3. SubSeq(r, size + 1, size + (k - size))[j] = r[size + j]
          BY <4>1, <4>2, PieceIs
        <4> QED
          BY <4>1, <4>3
      <3>2. r[size + j] = d[h + (size + j)] /\ h + (size + j) = h + size + j
        BY <1>1, <1>6, <3>1
      <3> QED
        BY <3>1, <3>2
    <2>5. k - size = n - (h + size) /\ n # h + size
      BY <1>1, <1>6, <1>9
    <2>6. c.tail <= b.tail /\ c.capacity = b.capacity
      BY <1>2, <1>5, <2>2
    <2>7. c.data \in Seq(Bytes) /\ Len(c.data) = n - (h + size)
      BY <2>2, <2>3, <2>5
    <2>8. \A j \in 1..Len(c.data) : c.data[j] = d[h + size + j]
      BY <2>2, <2>4, <2>5, <2>7
    <2>9. rest.data = r
      BY <1>6
    <2> QED
      BY <1>1, <1>7, <2>5, <2>6, <2>7, <2>8, <2>9
  <1>10. CASE ~ (size < k)
    <2>1. c = NewBuffer(rest.capacity)
      BY <1>6, <1>8, <1>10 DEF Drop, Size
    <2>2. c.data = <<>> /\ c.capacity = b.capacity /\ c.tail = 0 /\ c.head = 0
      BY <1>5, <2>1 DEF NewBuffer
    <2>3. n - (h + size) = 0 /\ Len(c.data) = 0 /\ c.data \in Seq(Bytes)
      BY <1>1, <1>6, <1>10, <2>2, EmptySeq
    <2> QED
      BY <1>1, <1>2, <1>6, <1>7, <2>2, <2>3
  <1> QED
    BY <1>9, <1>10

\* A sequence is its front and the rest.
LEMMA FrontAndRest ==
    ASSUME NEW S, NEW d \in Seq(S), NEW p \in Seq(S), NEW e \in Seq(S),
           Len(e) = Len(d) - Len(p), Len(p) <= Len(d),
           \A j \in 1..Len(p) : d[j] = p[j],
           \A j \in 1..Len(e) : e[j] = d[Len(p) + j]
    PROVE  d = p \o e
  <1>1. PICK n \in Nat, k \in Nat : n = Len(d) /\ k = Len(p) /\ k <= n /\ Len(e) = n - k
    <2>1. Len(d) \in Nat /\ Len(p) \in Nat
      OBVIOUS
    <2> QED
      BY <2>1, Zenon
  <1>2. /\ p \o e \in Seq(S) /\ Len(p \o e) = n
        /\ \A i \in 1..n : (p \o e)[i] = IF i <= k THEN p[i] ELSE e[i - k]
    <2>1. Len(p) + Len(e) = n
      BY <1>1
    <2> QED
      BY <1>1, <2>1, ConcatProperties
  <1>3. \A i \in 1..n : d[i] = (p \o e)[i]
    <2> TAKE i \in 1..n
    <2>1. CASE i <= k
      BY <1>1, <1>2, <2>1
    <2>2. CASE ~ (i <= k)
      <3>1. i - k \in 1..Len(e) /\ k + (i - k) = i
        BY <1>1, <2>2
      <3> QED
        BY <1>1, <1>2, <2>2, <3>1
    <2> QED
      BY <2>1, <2>2
  <1> QED
    BY <1>1, <1>2, <1>3, SeqEqual

\* What comes first is a prefix.
LEMMA FrontPrefix ==
    ASSUME NEW S, NEW s \in Seq(S), NEW t \in Seq(S)
    PROVE  IsPrefix(s, s \o t)
  <1>1. PICK n \in Nat, k \in Nat : n = Len(s) /\ k = Len(t)
    OBVIOUS
  <1>2. PICK u \in Seq(S) : u = s \o t /\ Len(u) = n + k /\ \A i \in 1..n : u[i] = s[i]
    <2>1. s \o t \in Seq(S) /\ Len(s \o t) = n + k
      BY <1>1, ConcatProperties
    <2>2. \A i \in 1..n : (s \o t)[i] = s[i]
      BY <1>1
    <2> QED
      BY <2>1, <2>2
  <1>3. /\ SubSeq(s, 1, n) \in Seq(S) /\ Len(SubSeq(s, 1, n)) = n
        /\ SubSeq(u, 1, n) \in Seq(S) /\ Len(SubSeq(u, 1, n)) = n
    BY <1>1, <1>2, FrontType
  <1>4. \A i \in 1..n : SubSeq(s, 1, n)[i] = s[i] /\ SubSeq(u, 1, n)[i] = u[i]
    BY <1>1, <1>2
  <1>5. SubSeq(s, 1, n) = SubSeq(u, 1, n)
    BY <1>2, <1>3, <1>4, SeqEqual
  <1> QED
    BY <1>1, <1>2, <1>5 DEF IsPrefix

\* No more is taken than was sent.
SizesKnown == GoodSizes(sent) /\ Len(messages) <= Len(sent)

\* The stream is what is parsed, in the receive buffer, in the kernels and
\* still to come; as long as the sender is there, that is in its buffer.
Whole ==
    alive => \E rest \in Seq(Bytes) :
        /\ FlattenSeq(Row(sent, Len(messages))) \o (in.data \o (pipe \o rest))
             = FlattenSeq(Row(sent, Len(sent)))
        /\ sending => rest = out.data

\* On a pipelined link the tail and what is on its way stay within the largest
\* packets, as many as were sent; on another the buffer's data begins at its front.
RoomAhead ==
    alive => IF link.pipelined
             THEN /\ in.capacity >= link.in
                  /\ in.tail + Len(pipe) + Len(out.data) <= Len(sent) * PacketMax
             ELSE in.head = 0 /\ Len(sent) <= Len(messages) + 1

\* The inductive invariant of the stream.
StreamInv == IInv /\ SizesKnown /\ Whole /\ RoomAhead /\ MessagesIntact /\ ClassifiedInTime

\* What the invariant says of the types.
LEMMA StreamTypes ==
    ASSUME StreamInv
    PROVE  /\ GoodSizes(sent) /\ Len(sent) \in Nat /\ sent \in Seq(Nat)
           /\ Len(messages) \in 0..Len(sent)
           /\ in \in Buffer(Bytes) /\ Linear(in) /\ in.data \in Seq(Bytes)
           /\ out \in Buffer(Bytes) /\ Linear(out) /\ out.data \in Seq(Bytes)
           /\ pipe \in Seq(Bytes) /\ messages \in Seq(Seq(Bytes))
           /\ link \in Links /\ link.out \in Nat /\ link.in \in Nat
  <1>1. IInv /\ TypeOK /\ BuffersLinear /\ SizesKnown
    BY DEF StreamInv, IInv
  <1>2. Len(messages) \in Nat /\ Len(sent) \in Nat
    BY <1>1 DEF TypeOK
  <1>3. link \in [out : Capacities, in : Capacities, pipelined : BOOLEAN]
    BY <1>1, StreamAssumption DEF TypeOK
  <1> QED
    BY <1>1, <1>2, <1>3 DEF TypeOK, BuffersLinear, SizesKnown, Buffer, Capacities

\* The kept messages are still right when more packets are sent.
LEMMA BodiesKept ==
    ASSUME StreamInv, messages' = messages, DOMAIN sent \subseteq DOMAIN sent',
           \A i \in DOMAIN sent : sent'[i] = sent[i]
    PROVE  MessagesIntact'
  <1> SUFFICES ASSUME NEW i \in DOMAIN messages
               PROVE  i \in DOMAIN sent' /\ messages[i] = Body(i)'
    BY DEF MessagesIntact
  <1>1. i \in DOMAIN sent /\ messages[i] = Body(i)
    BY DEF StreamInv, MessagesIntact
  <1>2. i \in DOMAIN sent' /\ sent'[i] = sent[i]
    BY <1>1
  <1>3. Body(i)' = Body(i)
    BY <1>2 DEF Body, PacketBytes
  <1> QED
    BY <1>1, <1>2, <1>3

\* A new connection has it.
LEMMA InitStream == Init => StreamInv
  <1> SUFFICES ASSUME Init PROVE StreamInv
    OBVIOUS
  <1>1. IInv
    BY InitIInv
  <1>2. sent = <<>> /\ messages = <<>> /\ Len(sent) = 0 /\ Len(messages) = 0
    BY DEF Init
  <1>3. SizesKnown
    BY <1>2, Numbers DEF SizesKnown, GoodSizes
  <1>4. in.data = <<>> /\ out.data = <<>> /\ pipe = <<>> /\ in.head = 0 /\ in.tail = 0 /\ in.capacity = link.in
    BY DEF Init, NewBuffer
  <1>5. Whole
    <2>1. PICK a \in Seq(Bytes) : a = FlattenSeq(Row(sent, 0))
      <3>1. 0 \in 0..Len(sent) /\ GoodSizes(sent)
        BY <1>2, <1>3 DEF SizesKnown
      <3> QED
        BY <3>1, RowType
    <2>2. <<>> \in Seq(Bytes) /\ <<>> \o <<>> = <<>> /\ a \o <<>> = a
      BY EmptySeq, ConcatEmptySeq
    <2> QED
      BY <1>2, <1>4, <2>1, <2>2 DEF Whole
  <1>6. RoomAhead
    <2>1. link.in \in Nat
      BY <1>1, StreamAssumption DEF IInv, TypeOK, Capacities
    <2>2. Len(pipe) = 0 /\ Len(out.data) = 0 /\ 0 * PacketMax = 0
      BY <1>4, Numbers DEF PacketMax
    <2> QED
      BY <1>2, <1>4, <2>1, <2>2 DEF RoomAhead
  <1>7. MessagesIntact /\ ClassifiedInTime
    BY <1>2 DEF MessagesIntact, ClassifiedInTime
  <1> QED
    BY <1>1, <1>3, <1>5, <1>6, <1>7 DEF StreamInv

\* Sending a packet keeps it: it is put behind all the others.
LEMMA SendStream ==
    ASSUME StreamInv, IInv', NEW size \in Sizes, SendData(size) PROVE StreamInv'
  <1>1. PICK n \in Nat, k \in Nat, m \in Nat :
            n = size + ExtraSize /\ k = Len(sent) /\ m = Len(messages) /\ m <= k
    <2>1. size + ExtraSize \in Nat
      BY Numbers
    <2>2. Len(sent) \in Nat /\ Len(messages) \in 0..Len(sent)
      BY StreamTypes
    <2>3. Len(messages) \in Nat /\ Len(messages) <= Len(sent)
      BY <2>2
    <2> QED
      BY <2>1, <2>2, <2>3, Zenon
  <1>2. n > 0 /\ n < MaxBody + ExtraSize /\ size \in Nat /\ k < MaxSent
    BY <1>1, StreamAssumption, Numbers, SMT DEF SendData
  <1>3. /\ sent' = Append(sent, n) /\ messages' = messages /\ in' = in /\ pipe' = pipe
        /\ alive' = alive /\ typed' = typed /\ phase' = phase /\ sending' = sending /\ link' = link
        /\ sending
    BY <1>1 DEF SendData, receiver, kernels
  <1>4. Len(sent') = k + 1 /\ sent'[k + 1] = n /\ (\A i \in 1..k : sent'[i] = sent[i]) /\ sent' \in Seq(Nat)
    <2>1. sent \in Seq(Nat)
      BY StreamTypes
    <2> QED
      BY <1>1, <1>3, <2>1, AppendProperties
  <1>5. SizesKnown'
    <2>1. \A i \in 1..(k + 1) : sent'[i] > 0 /\ sent'[i] < MaxBody + ExtraSize
      <3> TAKE i \in 1..(k + 1)
      <3>1. CASE i = k + 1
        BY <1>2, <1>4, <3>1
      <3>2. CASE i \in 1..k
        BY <1>1, <1>4, <3>2 DEF StreamInv, SizesKnown, GoodSizes
      <3> QED
        BY <1>1, <3>1, <3>2
    <2>2. k + 1 <= MaxSent /\ m <= k + 1
      BY <1>1, <1>2, Numbers
    <2> QED
      BY <1>1, <1>3, <1>4, <2>1, <2>2 DEF SizesKnown, GoodSizes
  <1>6. PICK p \in Seq(Bytes) : p = PacketBytes(k + 1, n) /\ Len(p) = HeadSize + n
    <2>1. k + 1 \in 1..MaxSent
      BY <1>1, <1>2, Numbers
    <2> QED
      BY <1>2, <2>1, PacketIs
  <1>7. out'.data = out.data \o p
    <2>1. out' = WriteBuffer(out, p)
      BY <1>1, <1>4, <1>6 DEF SendData
    <2>2. out \in Buffer(Bytes) /\ Linear(out)
      BY StreamTypes
    <2> QED
      BY <1>6, <2>1, <2>2, WriteKeepsLinear
  <1>8. Whole'
    <2> SUFFICES ASSUME alive
                 PROVE  \E rest \in Seq(Bytes) :
                          /\ FlattenSeq(Row(sent', m)) \o (in.data \o (pipe \o rest))
                               = FlattenSeq(Row(sent', k + 1))
                          /\ rest = out'.data
      BY <1>1, <1>3, <1>4 DEF Whole
    <2>1. FlattenSeq(Row(sent, m)) \o (in.data \o (pipe \o out.data)) = FlattenSeq(Row(sent, k))
      BY <1>1, <1>3 DEF StreamInv, Whole
    <2>2. Row(sent', m) = Row(sent, m) /\ FlattenSeq(Row(sent', k + 1)) = FlattenSeq(Row(sent, k)) \o p
      <3>1. GoodSizes(sent) /\ GoodSizes(Append(sent, n)) /\ m \in 0..Len(sent)
        BY <1>1, <1>3, <1>5 DEF StreamInv, SizesKnown
      <3> QED
        BY <1>1, <1>3, <1>6, <3>1, RowSent
    <2>3. PICK Q : Q = Seq(Bytes) /\ Closed(Q) /\ Moves(Q)
      BY SeqMoves
    <2>4. PICK a \in Q, d \in Q, x \in Q, y \in Q, z \in Q :
              /\ a = FlattenSeq(Row(sent, m)) /\ d = in.data /\ x = pipe /\ y = out.data /\ z = p
      <3>1. GoodSizes(sent) /\ m \in 0..Len(sent)
        BY <1>1 DEF StreamInv, SizesKnown
      <3>2. FlattenSeq(Row(sent, m)) \in Q
        BY <2>3, <3>1, RowType
      <3>3. in.data \in Q /\ pipe \in Q /\ out.data \in Q /\ p \in Q
        BY <2>3, StreamTypes
      <3> QED
        BY <3>2, <3>3, Zenon
    <2>5. (a \o (d \o (x \o y))) \o z = a \o (d \o (x \o (y \o z)))
      <3>1. Closed(Q) /\ Moves(Q)
        BY <2>3
      <3>2. x \o y \in Q
        BY <3>1, Zenon DEF Closed
      <3>3. d \o (x \o y) \in Q
        BY <3>1, <3>2, Zenon DEF Closed
      <3>4. (a \o (d \o (x \o y))) \o z = a \o ((d \o (x \o y)) \o z)
        BY <3>1, <3>3, Zenon DEF Moves, Assoc
      <3>5. (d \o (x \o y)) \o z = d \o ((x \o y) \o z)
        BY <3>1, <3>2, Zenon DEF Moves, Assoc
      <3>6. (x \o y) \o z = x \o (y \o z)
        BY <3>1, Zenon DEF Moves, Assoc
      <3> QED
        BY <3>4, <3>5, <3>6, Zenon
    <2>6. y \o z \in Seq(Bytes) /\ out'.data = y \o z
      <3>1. y \o z \in Q
        BY <2>3, Zenon DEF Closed
      <3> QED
        BY <1>7, <2>3, <2>4, <3>1
    <2>7. FlattenSeq(Row(sent', m)) \o (in.data \o (pipe \o out'.data)) = FlattenSeq(Row(sent', k + 1))
      BY <2>1, <2>2, <2>4, <2>5, <2>6, Zenon
    <2> QED
      BY <2>6, <2>7
  <1>9. RoomAhead'
    <2> SUFFICES ASSUME alive PROVE RoomAhead'
      BY <1>3 DEF RoomAhead
    <2>1. CASE link.pipelined
      <3>1. PICK u \in Nat, w \in Nat, l \in Nat, t \in Nat, c \in Nat :
                u = Len(pipe) /\ w = Len(out.data) /\ l = link.in /\ t = in.tail /\ c = in.capacity
        <4>1. Len(pipe) \in Nat /\ Len(out.data) \in Nat
          BY StreamTypes
        <4>2. link.in \in Nat /\ in.tail \in Nat /\ in.capacity \in Nat
          BY StreamTypes DEF Buffer
        <4> QED
          BY <4>1, <4>2, Zenon
      <3>2. PICK g \in Nat : g = PacketMax /\ HeadSize + n <= g
        BY <1>1, <1>2, Numbers DEF PacketMax
      <3>3. c >= l /\ t + u + w <= k * g
        BY <1>1, <2>1, <3>1, <3>2 DEF StreamInv, RoomAhead
      <3>4. Len(out'.data) = w + Len(p) /\ Len(p) = HeadSize + n
        <4>1. out.data \in Seq(Bytes)
          BY StreamTypes
        <4> QED
          BY <1>6, <1>7, <3>1, <4>1, ConcatProperties
      <3>5. t + u + (w + (HeadSize + n)) <= (k + 1) * g
        <4>1. PICK h \in Nat : h = HeadSize + n
          BY Numbers
        <4>2. (k + 1) * g = k * g + g
          BY <1>1, <3>2
        <4>3. PICK z \in Nat : z = k * g
          BY <1>1, <3>2
        <4>4. t + u + w <= z /\ h <= g
          BY <3>2, <3>3, <4>1, <4>3
        <4>5. t + u + (w + h) <= z + g
          BY <4>4
        <4> QED
          BY <4>1, <4>2, <4>3, <4>5
      <3> QED
        BY <1>3, <1>4, <2>1, <3>1, <3>2, <3>3, <3>4, <3>5 DEF RoomAhead, PacketMax
    <2>2. CASE ~ link.pipelined
      <3>1. in.head = 0 /\ k <= m
        BY <1>1, <2>2 DEF StreamInv, RoomAhead, SendData, OnTheWay
      <3> QED
        BY <1>1, <1>3, <1>4, <2>2, <3>1 DEF RoomAhead
    <2> QED
      BY <2>1, <2>2
  <1>10. MessagesIntact'
    <2>1. DOMAIN sent = 1..k /\ DOMAIN sent' = 1..(k + 1)
      BY <1>1, <1>4, StreamTypes, LenProperties
    <2>2. DOMAIN sent \subseteq DOMAIN sent'
      BY <1>1, <2>1
    <2> QED
      BY <1>3, <1>4, <2>1, <2>2, BodiesKept
  <1>11. ClassifiedInTime'
    BY <1>3 DEF StreamInv, ClassifiedInTime
  <1> QED
    BY <1>5, <1>8, <1>9, <1>10, <1>11 DEF StreamInv

\* A sequence is its first n elements and the others.
LEMMA SplitAt ==
    ASSUME NEW S, NEW s \in Seq(S), NEW n \in 0..Len(s)
    PROVE  /\ SubSeq(s, 1, n) \in Seq(S) /\ Len(SubSeq(s, 1, n)) = n
           /\ SubSeq(s, n + 1, Len(s)) \in Seq(S) /\ Len(SubSeq(s, n + 1, Len(s))) = Len(s) - n
           /\ s = SubSeq(s, 1, n) \o SubSeq(s, n + 1, Len(s))
  <1>1. PICK l \in Nat : l = Len(s) /\ n \in Nat /\ n <= l
    OBVIOUS
  <1>2. SubSeq(s, 1, n) \in Seq(S) /\ Len(SubSeq(s, 1, n)) = n
    BY <1>1, FrontType
  <1>3. SubSeq(s, n + 1, l) \in Seq(S) /\ Len(SubSeq(s, n + 1, l)) = l - n
    <2>1. CASE n < l
      BY <1>1, <2>1, RestType
    <2>2. CASE n = l
      <3>1. SubSeq(s, n + 1, l) = <<>>
        BY <1>1, <2>2, SubSeqEmpty
      <3> QED
        BY <1>1, <2>2, <3>1, EmptySeq
    <2> QED
      BY <1>1, <2>1, <2>2
  <1>4. s = SubSeq(s, 1, n) \o SubSeq(s, n + 1, l)
    <2>1. 1 \in 1..(l + 1) /\ n \in (1 - 1)..l /\ l \in n..l
      BY <1>1
    <2>2. SubSeq(s, 1, n) \o SubSeq(s, n + 1, l) = SubSeq(s, 1, l)
      BY <1>1, <2>1, ConcatAdjacentSubSeq
    <2>3. SubSeq(s, 1, l) = s
      BY <1>1, SubSeqFull
    <2> QED
      BY <2>2, <2>3
  <1> QED
    BY <1>1, <1>2, <1>3, <1>4

\* What is sent leaves the front of the buffer.
LEMMA SentIs ==
    ASSUME NEW b \in Buffer(Bytes), Linear(b), NEW n \in 0..Len(b.data),
           NEW c, c = SetReadBufSize(b, n)
    PROVE  /\ SubSeq(b.data, 1, n) \in Seq(Bytes) /\ Len(SubSeq(b.data, 1, n)) = n
           /\ c.data \in Seq(Bytes) /\ Len(c.data) = Len(b.data) - n
           /\ b.data = SubSeq(b.data, 1, n) \o c.data
  <1>1. PICK d \in Seq(Bytes), l \in Nat : d = b.data /\ l = Len(d) /\ n \in Nat /\ n <= l
    BY DEF Buffer
  <1>2. c = Drop(b, n)
    <2>1. ~ (b.head > b.tail)
      BY SMT DEF Linear, Size, Buffer
    <2> QED
      BY <2>1 DEF SetReadBufSize
  <1>3. c.data = SubSeq(d, n + 1, l)
    <2>1. CASE n < l
      BY <1>1, <1>2, <2>1 DEF Drop, Size, Buffer
    <2>2. CASE n = l
      <3>1. c.data = <<>>
        BY <1>1, <1>2, <2>2 DEF Drop, Size, NewBuffer
      <3>2. SubSeq(d, n + 1, l) = <<>>
        BY <1>1, <2>2, SubSeqEmpty
      <3> QED
        BY <3>1, <3>2
    <2> QED
      BY <1>1, <2>1, <2>2
  <1>4. /\ SubSeq(d, 1, n) \in Seq(Bytes) /\ Len(SubSeq(d, 1, n)) = n
        /\ SubSeq(d, n + 1, l) \in Seq(Bytes) /\ Len(SubSeq(d, n + 1, l)) = l - n
        /\ d = SubSeq(d, 1, n) \o SubSeq(d, n + 1, l)
    <2>1. n \in 0..Len(d)
      BY <1>1
    <2> QED
      BY <1>1, <2>1, SplitAt
  <1> QED
    BY <1>1, <1>3, <1>4

\* Of what is received nothing is cut off if the buffer is made larger, or there is
\* room behind the tail.
LEMMA ReceivedIs ==
    ASSUME NEW b \in Buffer(Bytes), Linear(b), NEW bytes \in Seq(Bytes),
           Len(bytes) > Space(b) \/ b.tail + Len(bytes) <= b.capacity,
           NEW room, room = IF Len(bytes) > Space(b) THEN ReSet(b, b.capacity + Len(bytes)) ELSE b,
           NEW c, c = SetWriteBufSize(room, bytes)
    PROVE  /\ c.data = b.data \o bytes
           /\ b.head = 0 => c.head = 0
           /\ c.tail \in Nat /\ c.tail <= b.tail + Len(bytes)
           /\ c.capacity \in Nat /\ c.capacity >= b.capacity
  <1>1. PICK n \in Nat, l \in Nat : n = Len(bytes) /\ l = Len(b.data)
    BY DEF Buffer
  <1>2. PICK h \in Nat, t \in Nat, k \in Nat : h = b.head /\ t = b.tail /\ k = b.capacity
    BY DEF Buffer
  <1>3. h + l = t /\ t <= k
    BY <1>1, <1>2 DEF Linear, Size
  <1>4. /\ room.data = b.data /\ room.head <= room.tail /\ room.head \in Nat /\ room.tail \in Nat
        /\ room.capacity \in Nat /\ room.tail + n <= room.capacity /\ room \in Buffer(Bytes)
        /\ (h = 0 => room.head = 0)
        /\ room.tail <= t /\ room.capacity >= k
    <2>1. CASE n > k - l
      <3>1. room = ReSet(b, k + n)
        BY <1>1, <1>2, <2>1 DEF Space, Size
      <3>2. room = [capacity |-> Aligned(k + n), head |-> 0, tail |-> l, data |-> b.data]
        <4>1. ~ (k + n <= b.capacity)
          BY <1>1, <1>2, <1>3, <2>1
        <4> QED
          BY <1>1, <3>1, <4>1 DEF ReSet, Size
      <3>3. Aligned(k + n) \in Nat /\ Aligned(k + n) >= k + n
        <4>1. k + n \in Nat
          BY <1>1, <1>2
        <4> QED
          BY <4>1, AlignedUp, Zenon
      <3>4. room \in Buffer(Bytes)
        <4>1. k + n \in Nat
          BY <1>1, <1>2
        <4> QED
          BY <3>1, <4>1, ReSetLinear
      <3>5. l <= t /\ Aligned(k + n) >= k
        BY <1>1, <1>2, <1>3, <3>3
      <3> QED
        BY <1>1, <1>2, <1>3, <3>2, <3>3, <3>4, <3>5
    <2>2. CASE ~ (n > k - l)
      <3>1. room = b
        BY <1>1, <1>2, <2>2 DEF Space, Size
      <3>2. t + n <= k
        BY <1>1, <1>2, <2>2 DEF Space, Size
      <3>3. b.head <= b.tail /\ b.tail + n <= b.capacity /\ b.head \in Nat /\ b.tail \in Nat /\ b.capacity \in Nat
        BY <1>1, <1>2, <1>3, <3>2
      <3> QED
        BY <1>2, <3>1, <3>3
    <2> QED
      BY <2>1, <2>2
  <1>5. c = [room EXCEPT !.tail = @ + Len(bytes), !.data = @ \o bytes]
    <2>1. ~ (room.head > room.tail)
      BY <1>4
    <2>2. (IF Len(bytes) >= room.capacity - room.tail
           THEN SubSeq(bytes, 1, room.capacity - room.tail) ELSE bytes) = bytes
      <3>1. CASE n >= room.capacity - room.tail
        <4>1. n = room.capacity - room.tail
          BY <1>1, <1>4, <3>1
        <4>2. SubSeq(bytes, 1, Len(bytes)) = bytes
          BY SubSeqFull
        <4> QED
          BY <1>1, <4>1, <4>2
      <3>2. CASE ~ (n >= room.capacity - room.tail)
        BY <1>1, <3>2
      <3> QED
        BY <3>1, <3>2
    <2> QED
      BY <2>1, <2>2, Zenon DEF SetWriteBufSize
  <1>6. /\ c.data = room.data \o bytes /\ c.tail = room.tail + n
        /\ c.head = room.head /\ c.capacity = room.capacity
    <2>1. room \in [capacity : Nat, head : Nat, tail : Nat, data : Seq(Bytes)]
      BY <1>4 DEF Buffer
    <2>2. c.data = room.data \o bytes /\ c.tail = room.tail + Len(bytes)
          /\ c.head = room.head /\ c.capacity = room.capacity
      BY <1>5, <2>1
    <2> QED
      BY <1>1, <2>2
  <1>7. PICK rt \in Nat, rc \in Nat : rt = room.tail /\ rc = room.capacity /\ rt <= t /\ rc >= k
    BY <1>4
  <1>8. c.tail = rt + n /\ c.capacity = rc /\ c.data = b.data \o bytes
    BY <1>4, <1>6, <1>7
  <1>9. c.tail \in Nat /\ c.tail <= b.tail + Len(bytes) /\ c.capacity \in Nat /\ c.capacity >= b.capacity
    <2>1. rt <= t /\ k <= rc
      BY <1>7
    <2>2. rt + n \in Nat /\ rt + n <= t + n /\ rc >= k
      BY <2>1
    <2>3. c.tail = rt + n /\ c.capacity = rc /\ b.tail = t /\ b.capacity = k /\ Len(bytes) = n
      BY <1>1, <1>2, <1>8
    <2> QED
      BY <2>2, <2>3
  <1>10. b.head = 0 => c.head = 0
    BY <1>2, <1>4, <1>6
  <1> QED
    BY <1>8, <1>9, <1>10

\* Steps after which the same is sent and taken.
LEMMA SameBodies ==
    ASSUME StreamInv, sent' = sent, messages' = messages
    PROVE  SizesKnown' /\ MessagesIntact'
  <1>1. SizesKnown'
    BY DEF StreamInv, SizesKnown, GoodSizes
  <1>2. MessagesIntact'
    BY BodiesKept
  <1> QED
    BY <1>1, <1>2

\* Neither is a closed connection's.
LEMMA ClosedStream ==
    ASSUME StreamInv, IInv', sent' = sent, messages' = messages, ~ alive'
    PROVE  StreamInv'
  <1>1. Whole' /\ RoomAhead' /\ ClassifiedInTime'
    BY DEF Whole, RoomAhead, ClassifiedInTime
  <1> QED
    BY <1>1, SameBodies DEF StreamInv

\* The stream in its parts: parsed, received, in the kernels, and still to come.
PartsAre(a, d, x, y, r) ==
    /\ a = FlattenSeq(Row(sent, Len(messages))) /\ d = in.data /\ x = pipe
    /\ r = FlattenSeq(Row(sent, Len(sent)))
    /\ a \o (d \o (x \o y)) = r
    /\ sending => y = out.data

\* They are what StreamInv says.
LEMMA Parts ==
    ASSUME StreamInv, alive
    PROVE  \E Q : /\ Q = Seq(Bytes) /\ Closed(Q) /\ Moves(Q)
                  /\ \E a, d, x, y, r \in Q : PartsAre(a, d, x, y, r)
  <1>1. GoodSizes(sent) /\ Len(messages) \in 0..Len(sent) /\ Len(sent) \in 0..Len(sent)
    BY StreamTypes
  <1>2. FlattenSeq(Row(sent, Len(messages))) \in Seq(Bytes) /\ FlattenSeq(Row(sent, Len(sent))) \in Seq(Bytes)
    BY <1>1, RowType
  <1>3. in.data \in Seq(Bytes) /\ pipe \in Seq(Bytes)
    BY StreamTypes
  <1>4. PICK y \in Seq(Bytes) :
            /\ FlattenSeq(Row(sent, Len(messages))) \o (in.data \o (pipe \o y)) = FlattenSeq(Row(sent, Len(sent)))
            /\ sending => y = out.data
    BY DEF StreamInv, Whole
  <1>5. Closed(Seq(Bytes)) /\ Moves(Seq(Bytes))
    BY SeqMoves
  <1>6. PICK Q : Q = Seq(Bytes)
    OBVIOUS
  <1>7. \E a, d, x, b, r \in Q : PartsAre(a, d, x, b, r)
    BY <1>2, <1>3, <1>4, <1>6, Zenon DEF PartsAre
  <1> QED
    BY <1>5, <1>6, <1>7

\* Writing to the socket keeps it: bytes move from the buffer to the kernels.
LEMMA WriteStream ==
    ASSUME StreamInv, IInv', NEW k \in 0..SocketSendBuf, HandleWrite(k) PROVE StreamInv'
  <1>1. k \in 0..Len(out.data)
    BY Numbers DEF HandleWrite, Size
  <1>2. /\ sent' = sent /\ messages' = messages /\ in' = in /\ link' = link
        /\ alive' = alive /\ typed' = typed /\ phase' = phase /\ sending' = sending /\ sending
        /\ (alive => pipe' = pipe \o SubSeq(out.data, 1, k)) /\ out' = SetReadBufSize(out, k)
    BY DEF HandleWrite, receiver
  <1>3. SizesKnown' /\ MessagesIntact'
    BY <1>2, SameBodies
  <1>4. ClassifiedInTime'
    BY <1>2 DEF StreamInv, ClassifiedInTime
  <1>5. ASSUME alive PROVE Whole' /\ RoomAhead'
    <2>1. PICK f \in Seq(Bytes) : /\ f = SubSeq(out.data, 1, k) /\ Len(f) = k
                                   /\ out'.data \in Seq(Bytes) /\ Len(out'.data) = Len(out.data) - k
                                   /\ out.data = f \o out'.data
      BY <1>1, <1>2, StreamTypes, SentIs
    <2>2. PICK Q : /\ Q = Seq(Bytes) /\ Closed(Q) /\ Moves(Q)
                   /\ \E a, d, x, y, r \in Q : PartsAre(a, d, x, y, r)
      BY <1>5, Parts
    <2>3. PICK a \in Q, d \in Q, x \in Q, y \in Q, r \in Q : PartsAre(a, d, x, y, r)
      BY <2>2
    <2>4. PICK g \in Q, e \in Q : g = out'.data /\ e = f
      <3>1. out'.data \in Q /\ f \in Q
        BY <2>1, <2>2
      <3> QED
        BY <3>1, Zenon
    <2>5. (x \o e) \o g = x \o (e \o g)
      <3>1. Moves(Q)
        BY <2>2
      <3>2. Assoc(x, e, g)
        BY <3>1, Zenon DEF Moves
      <3> QED
        BY <3>2 DEF Assoc
    <2>6. Whole'
      <3>1. y = e \o g
        BY <1>2, <2>1, <2>3, <2>4 DEF PartsAre
      <3>2. a \o (d \o ((x \o e) \o g)) = r
        BY <2>3, <2>5, <3>1, Zenon DEF PartsAre
      <3>3. FlattenSeq(Row(sent, Len(messages))) \o (in.data \o (pipe' \o out'.data)) = FlattenSeq(Row(sent, Len(sent)))
        BY <1>2, <1>5, <2>1, <2>3, <2>4, <3>2, Zenon DEF PartsAre
      <3> QED
        BY <1>2, <2>1, <3>3 DEF Whole
    <2>7. RoomAhead'
      <3>1. CASE link.pipelined
        <4>1. PICK u \in Nat, w \in Nat : u = Len(pipe) /\ w = Len(out.data) /\ k <= w /\ k \in Nat
          <5>1. Len(pipe) \in Nat /\ Len(out.data) \in Nat
            BY StreamTypes
          <5> QED
            BY <1>1, <5>1
        <4>2. Len(pipe') = u + k /\ Len(out'.data) = w - k
          <5>1. pipe' = pipe \o f /\ pipe \in Seq(Bytes)
            BY <1>2, <1>5, <2>1, StreamTypes
          <5>2. Len(pipe \o f) = Len(pipe) + Len(f)
            BY <5>1, ConcatProperties
          <5> QED
            BY <2>1, <4>1, <5>1, <5>2
        <4>3. PICK t \in Nat : t = in.tail
          <5>1. in.tail \in Nat
            BY StreamTypes DEF Buffer
          <5> QED
            BY <5>1, Zenon
        <4>4. t + (u + k) + (w - k) = t + u + w
          <5>1. k \in Nat
            BY <4>1
          <5> QED
            BY <5>1
        <4>5. in.capacity >= link.in /\ t + u + w <= Len(sent) * PacketMax
          BY <1>5, <3>1, <4>1, <4>3 DEF StreamInv, RoomAhead
        <4> QED
          BY <1>2, <3>1, <4>2, <4>3, <4>4, <4>5 DEF RoomAhead, PacketMax
      <3>2. CASE ~ link.pipelined
        BY <1>2, <1>5, <3>2 DEF StreamInv, RoomAhead
      <3> QED
        BY <3>1, <3>2
    <2> QED
      BY <2>6, <2>7
  <1>6. ASSUME ~ alive PROVE Whole' /\ RoomAhead'
    BY <1>2, <1>6 DEF Whole, RoomAhead
  <1> QED
    BY <1>3, <1>4, <1>5, <1>6 DEF StreamInv

\* The end of the sending keeps it: what is left is a prefix of the stream.
LEMMA BreakStream ==
    ASSUME StreamInv, IInv', NEW k \in 0..Len(pipe), Break(k) PROVE StreamInv'
  <1>1. /\ sent' = sent /\ messages' = messages /\ in' = in /\ link' = link /\ out' = out
        /\ alive' = alive /\ typed' = typed /\ phase' = phase /\ ~ sending'
        /\ pipe' = SubSeq(pipe, 1, k)
    BY DEF Break, receiver
  <1>2. SizesKnown' /\ MessagesIntact'
    BY <1>1, SameBodies
  <1>3. ClassifiedInTime'
    BY <1>1 DEF StreamInv, ClassifiedInTime
  <1>4. PICK f \in Seq(Bytes), g \in Seq(Bytes) : pipe' = f /\ pipe = f \o g /\ Len(f) = k
    <2>1. pipe \in Seq(Bytes)
      BY StreamTypes
    <2>2. /\ SubSeq(pipe, 1, k) \in Seq(Bytes) /\ Len(SubSeq(pipe, 1, k)) = k
          /\ SubSeq(pipe, k + 1, Len(pipe)) \in Seq(Bytes)
          /\ pipe = SubSeq(pipe, 1, k) \o SubSeq(pipe, k + 1, Len(pipe))
      BY <2>1, SplitAt
    <2> QED
      BY <1>1, <2>2
  <1>5. ASSUME alive PROVE Whole'
    <2>1. PICK Q : /\ Q = Seq(Bytes) /\ Closed(Q) /\ Moves(Q)
                   /\ \E a, d, x, y, r \in Q : PartsAre(a, d, x, y, r)
      BY <1>5, Parts
    <2>2. PICK a \in Q, d \in Q, x \in Q, y \in Q, r \in Q : PartsAre(a, d, x, y, r)
      BY <2>1
    <2>3. PICK e \in Q, h \in Q : e = f /\ h = g
      <3>1. f \in Q /\ g \in Q
        BY <1>4, <2>1
      <3> QED
        BY <3>1, Zenon
    <2>4. (e \o h) \o y = e \o (h \o y) /\ h \o y \in Q
      <3>1. Moves(Q) /\ Closed(Q)
        BY <2>1
      <3>2. Assoc(e, h, y)
        BY <3>1, Zenon DEF Moves
      <3>3. h \o y \in Q
        BY <3>1, Zenon DEF Closed
      <3> QED
        BY <3>2, <3>3 DEF Assoc
    <2>5. a \o (d \o (e \o (h \o y))) = r
      <3>1. x = e \o h
        BY <1>4, <2>2, <2>3 DEF PartsAre
      <3> QED
        BY <2>2, <2>4, <3>1, Zenon DEF PartsAre
    <2>6. FlattenSeq(Row(sent, Len(messages))) \o (in.data \o (pipe' \o (h \o y))) = FlattenSeq(Row(sent, Len(sent)))
      BY <1>4, <2>2, <2>3, <2>5, Zenon DEF PartsAre
    <2>7. h \o y \in Seq(Bytes)
      BY <2>1, <2>4
    <2> QED
      BY <1>1, <2>6, <2>7 DEF Whole
  <1>6. ASSUME alive PROVE RoomAhead'
    <2>1. CASE link.pipelined
      <3>1. PICK u \in Nat, w \in Nat, t \in Nat : u = Len(pipe) /\ w = Len(out.data) /\ t = in.tail /\ k <= u /\ k \in Nat
        <4>1. Len(pipe) \in Nat /\ Len(out.data) \in Nat /\ in.tail \in Nat
          BY StreamTypes DEF Buffer
        <4> QED
          BY <4>1
      <3>2. Len(pipe') = k
        BY <1>4
      <3>3. in.capacity >= link.in /\ t + u + w <= Len(sent) * PacketMax
        BY <1>6, <2>1, <3>1 DEF StreamInv, RoomAhead
      <3>4. PICK z \in Int : z = Len(sent) * PacketMax
        <4>1. Len(sent) \in Int /\ PacketMax \in Int
          BY StreamTypes, Numbers DEF PacketMax
        <4>2. Len(sent) * PacketMax \in Int
          BY <4>1
        <4> QED
          BY <4>2
      <3>5. t + k + w <= z
        <4>1. t + u + w <= z
          BY <3>3, <3>4, Zenon
        <4>2. k <= u /\ k \in Nat
          BY <3>1
        <4> QED
          BY <4>1, <4>2
      <3> QED
        BY <1>1, <2>1, <3>1, <3>2, <3>3, <3>4, <3>5 DEF RoomAhead, PacketMax
    <2>2. CASE ~ link.pipelined
      BY <1>1, <1>6, <2>2 DEF StreamInv, RoomAhead
    <2> QED
      BY <2>1, <2>2
  <1>7. ASSUME ~ alive PROVE Whole' /\ RoomAhead'
    BY <1>1, <1>7 DEF Whole, RoomAhead
  <1> QED
    BY <1>2, <1>3, <1>5, <1>6, <1>7 DEF StreamInv

\* Reading from the socket keeps it, if nothing is cut off.
LEMMA ReadStream ==
    ASSUME StreamInv, IInv', NEW n \in 1..Len(pipe), HandleRead(n), ~ CutsOff(n) PROVE StreamInv'
  <1>1. /\ sent' = sent /\ messages' = messages /\ out' = out /\ link' = link
        /\ alive' = alive /\ typed' = typed /\ phase' = "parse" /\ sending' = sending /\ alive
        /\ pipe' = SubSeq(pipe, n + 1, Len(pipe))
    BY DEF HandleRead, sender
  <1>2. SizesKnown' /\ MessagesIntact'
    BY <1>1, SameBodies
  <1>3. ClassifiedInTime'
    BY <1>1 DEF ClassifiedInTime
  <1>4. PICK f \in Seq(Bytes), g \in Seq(Bytes) :
            /\ f = SubSeq(pipe, 1, n) /\ Len(f) = n
            /\ pipe' = g /\ Len(g) = Len(pipe) - n /\ pipe = f \o g
    <2>1. pipe \in Seq(Bytes) /\ n \in 0..Len(pipe)
      BY StreamTypes
    <2>2. /\ SubSeq(pipe, 1, n) \in Seq(Bytes) /\ Len(SubSeq(pipe, 1, n)) = n
          /\ SubSeq(pipe, n + 1, Len(pipe)) \in Seq(Bytes)
          /\ Len(SubSeq(pipe, n + 1, Len(pipe))) = Len(pipe) - n
          /\ pipe = SubSeq(pipe, 1, n) \o SubSeq(pipe, n + 1, Len(pipe))
      BY <2>1, SplitAt
    <2> QED
      BY <1>1, <2>2
  <1>5. PICK u \in Nat, w \in Nat, t \in Nat, c \in Nat :
            u = Len(pipe) /\ w = Len(out.data) /\ t = in.tail /\ c = in.capacity /\ n <= u /\ n \in Nat
    <2>1. Len(pipe) \in Nat /\ Len(out.data) \in Nat /\ in.tail \in Nat /\ in.capacity \in Nat
      BY StreamTypes DEF Buffer
    <2>2. n <= Len(pipe) /\ n \in Nat
      BY <2>1
    <2> QED
      BY <2>1, <2>2, Zenon
  <1>7. n > Space(in) \/ t + n <= c
    <2>1. Space(in) \in Int
      <3>1. in.capacity \in Nat /\ Len(in.data) \in Nat
        BY StreamTypes DEF Buffer
      <3> QED
        BY <3>1 DEF Space, Size
    <2>2. n > Space(in) \/ ~ (n > in.capacity - in.tail)
      BY <1>5, <2>1 DEF CutsOff
    <2> QED
      BY <1>5, <2>2
  <1>8. /\ in'.data = in.data \o f
        /\ in.head = 0 => in'.head = 0
        /\ in'.tail \in Nat /\ in'.tail <= t + n
        /\ in'.capacity \in Nat /\ in'.capacity >= c
    <2>1. PICK room : room = IF n > Space(in) THEN ReSet(in, in.capacity + n) ELSE in
      OBVIOUS
    <2>2. in' = SetWriteBufSize(room, f)
      BY <1>4, <2>1 DEF HandleRead
    <2>3. in \in Buffer(Bytes) /\ Linear(in)
      BY StreamTypes
    <2>4. room = IF Len(f) > Space(in) THEN ReSet(in, in.capacity + Len(f)) ELSE in
      BY <1>4, <2>1
    <2>5. Len(f) > Space(in) \/ in.tail + Len(f) <= in.capacity
      BY <1>4, <1>5, <1>7
    <2>6. /\ in'.data = in.data \o f
          /\ in.head = 0 => in'.head = 0
          /\ in'.tail \in Nat /\ in'.tail <= in.tail + Len(f)
          /\ in'.capacity \in Nat /\ in'.capacity >= in.capacity
      BY <2>2, <2>3, <2>4, <2>5, ReceivedIs
    <2> QED
      BY <1>4, <1>5, <2>6
  <1>9. Whole'
    <2>1. PICK Q : /\ Q = Seq(Bytes) /\ Closed(Q) /\ Moves(Q)
                   /\ \E a, d, x, y, r \in Q : PartsAre(a, d, x, y, r)
      BY <1>1, Parts
    <2>2. PICK a \in Q, d \in Q, x \in Q, y \in Q, r \in Q : PartsAre(a, d, x, y, r)
      BY <2>1
    <2>3. PICK e \in Q, h \in Q : e = f /\ h = g
      <3>1. f \in Q /\ g \in Q
        BY <1>4, <2>1
      <3> QED
        BY <3>1, Zenon
    <2>4. (d \o e) \o (h \o y) = d \o ((e \o h) \o y)
      <3>1. Moves(Q) /\ Closed(Q)
        BY <2>1
      <3>2. h \o y \in Q
        BY <3>1, Zenon DEF Closed
      <3>3. Assoc(d, e, h \o y) /\ Assoc(e, h, y)
        BY <3>1, <3>2, Zenon DEF Moves
      <3> QED
        BY <3>3 DEF Assoc
    <2>5. a \o ((d \o e) \o (h \o y)) = r
      <3>1. x = e \o h
        BY <1>4, <2>2, <2>3 DEF PartsAre
      <3> QED
        BY <2>2, <2>4, <3>1, Zenon DEF PartsAre
    <2>6. FlattenSeq(Row(sent, Len(messages))) \o (in'.data \o (pipe' \o y)) = FlattenSeq(Row(sent, Len(sent)))
      BY <1>4, <1>8, <2>2, <2>3, <2>5, Zenon DEF PartsAre
    <2>7. y \in Seq(Bytes) /\ (sending => y = out.data)
      BY <2>1, <2>2 DEF PartsAre
    <2> QED
      BY <1>1, <2>6, <2>7 DEF Whole
  <1>10. RoomAhead'
    <2>1. CASE link.pipelined
      <3>1. PICK v \in Int, l \in Nat : v = Len(sent) * PacketMax /\ l = link.in
        <4>1. Len(sent) \in Nat /\ PacketMax \in Int /\ link.in \in Nat
          BY StreamTypes, Numbers DEF PacketMax
        <4> QED
          BY <4>1
      <3>2. t + u + w <= v /\ c >= l
        BY <1>1, <1>5, <2>1, <3>1 DEF StreamInv, RoomAhead
      <3>3. Len(pipe') = u - n /\ Len(out'.data) = w
        BY <1>1, <1>4, <1>5
      <3>4. in'.tail + Len(pipe') + Len(out'.data) <= v /\ in'.capacity >= l
        <4>1. PICK q \in Nat, e \in Nat : q = in'.tail /\ e = in'.capacity /\ q <= t + n /\ e >= c
          BY <1>8
        <4>2. PICK i \in Nat : i = n /\ i <= u /\ q <= t + i /\ e >= c /\ t + u + w <= v /\ c >= l
          BY <1>5, <3>2, <4>1
        <4>3. q + (u - i) + w <= v /\ e >= l
          BY <4>2
        <4> QED
          BY <3>3, <4>1, <4>2, <4>3
      <3>5. Len(sent') * PacketMax' = v
        BY <1>1, <3>1 DEF PacketMax
      <3> QED
        BY <1>1, <2>1, <3>1, <3>4, <3>5 DEF RoomAhead
    <2>2. CASE ~ link.pipelined
      BY <1>1, <1>8, <2>2 DEF StreamInv, RoomAhead
    <2> QED
      BY <2>1, <2>2
  <1> QED
    BY <1>2, <1>3, <1>9, <1>10 DEF StreamInv

\* The next message is taken whole: the bytes in front of the receiver are
\* the head of the next packet.
LEMMA NextPacket ==
    ASSUME StreamInv, alive, Size(in) > HeadSize, NEW size \in HeadSizes
    PROVE  /\ Len(messages) < Len(sent) /\ size = sent[Len(messages) + 1] /\ size \in Nat
           /\ \A j \in 1..Len(in.data) : j <= HeadSize + size => in.data[j] = <<Len(messages) + 1, j>>
           /\ Len(sent) = Len(messages) + 1 => Len(in.data) <= HeadSize + size
  <1>1. GoodSizes(sent) /\ Len(messages) \in 0..Len(sent) /\ in.data \in Seq(Bytes) /\ Len(in.data) > HeadSize
    BY StreamTypes DEF Size
  <1>2. PICK y \in Seq(Bytes), z \in Seq(Bytes) :
            /\ FlattenSeq(Row(sent, Len(messages))) \o (in.data \o z) = FlattenSeq(Row(sent, Len(sent)))
            /\ z = pipe \o y
    <2>1. PICK y \in Seq(Bytes) :
            FlattenSeq(Row(sent, Len(messages))) \o (in.data \o (pipe \o y)) = FlattenSeq(Row(sent, Len(sent)))
      BY DEF StreamInv, Whole
    <2>2. pipe \o y \in Seq(Bytes)
      <3>1. pipe \in Seq(Bytes)
        BY StreamTypes
      <3> QED
        BY <3>1, ConcatProperties
    <2> QED
      BY <2>1, <2>2, Zenon
  <1>3. /\ Len(messages) < Len(sent)
        /\ in.data[1][1] = Len(messages) + 1
        /\ SubSeq(in.data, 1, HeadSize) = SubSeq(PacketBytes(Len(messages) + 1, sent[Len(messages) + 1]), 1, HeadSize)
        /\ \A j \in 1..Len(in.data) : j <= HeadSize + sent[Len(messages) + 1] => in.data[j] = <<Len(messages) + 1, j>>
        /\ Len(sent) = Len(messages) + 1 => Len(in.data) <= HeadSize + sent[Len(messages) + 1]
    BY <1>1, <1>2, FrontIs
  <1>4. Intact
    BY <1>3 DEF Intact
  <1>5. size = sent[Len(messages) + 1] /\ size \in Nat
    BY <1>3, <1>4, Numbers DEF HeadSizes
  <1> QED
    BY <1>3, <1>5

\* Taking a message keeps it.
LEMMA TakeStream ==
    ASSUME StreamInv, IInv', alive, Size(in) > HeadSize, phase = "parse",
           NEW size \in HeadSizes, Take(size)
    PROVE  StreamInv'
  <1> DEFINE rest == ReadIntactBuffer(in, HeadSize)
             body == SubSeq(rest.data, 1, size)
  <1>1. PICK m \in Nat, k \in Nat : m = Len(messages) /\ k = Len(sent) /\ m < k
    <2>1. Len(messages) < Len(sent) /\ Len(sent) \in Nat /\ Len(messages) \in Nat
      BY NextPacket, StreamTypes
    <2> QED
      BY <2>1, Zenon
  <1>2. /\ size = sent[m + 1] /\ size \in Nat /\ size < MaxBody + ExtraSize
        /\ \A j \in 1..Len(in.data) : j <= HeadSize + size => in.data[j] = <<m + 1, j>>
        /\ k = m + 1 => Len(in.data) <= HeadSize + size
    <2>1. size < MaxBody + ExtraSize
      BY Numbers DEF Take, HeadSizes
    <2> QED
      BY <1>1, <2>1, NextPacket
  <1>3. Len(in.data) > HeadSize /\ Len(in.data) >= HeadSize + size
    <2>1. Len(in.data) \in Nat
      BY StreamTypes
    <2> QED
      BY <1>2, <2>1, Numbers DEF Take, Size
  <1>4. /\ sent' = sent /\ messages' = Append(messages, body) /\ out' = out /\ link' = link
        /\ alive' = alive /\ typed' = typed /\ phase' = phase /\ sending' = sending /\ pipe' = pipe
        /\ in' = SetReadBufSize(rest, size)
    BY DEF Take, sender, kernels
  <1>5. /\ body \in Seq(Bytes) /\ Len(body) = size
        /\ \A j \in 1..size : body[j] = in.data[HeadSize + j]
        /\ in'.data \in Seq(Bytes) /\ Len(in'.data) = Len(in.data) - (HeadSize + size)
        /\ \A j \in 1..Len(in'.data) : in'.data[j] = in.data[HeadSize + size + j]
        /\ in'.capacity = in.capacity /\ in'.tail <= in.tail
        /\ Len(in.data) = HeadSize + size => in'.head = 0
    <2>1. in \in Buffer(Bytes) /\ Linear(in)
      BY StreamTypes
    <2>2. PICK b : b = rest
      OBVIOUS
    <2>3. b = ReadIntactBuffer(in, HeadSize) /\ in' = SetReadBufSize(b, size) /\ body = SubSeq(b.data, 1, size)
      BY <1>4, <2>2
    <2> HIDE DEF rest, body
    <2>4. /\ SubSeq(b.data, 1, size) \in Seq(Bytes) /\ Len(SubSeq(b.data, 1, size)) = size
          /\ \A j \in 1..size : SubSeq(b.data, 1, size)[j] = in.data[HeadSize + j]
          /\ in'.data \in Seq(Bytes) /\ Len(in'.data) = Len(in.data) - (HeadSize + size)
          /\ \A j \in 1..Len(in'.data) : in'.data[j] = in.data[HeadSize + size + j]
          /\ in'.capacity = in.capacity /\ in'.tail <= in.tail
          /\ Len(in.data) = HeadSize + size => in'.head = 0
      BY <1>2, <1>3, <2>1, <2>3, CutIs
    <2> QED
      BY <2>3, <2>4
  <1> HIDE DEF rest, body
  <1>6. PICK p \in Seq(Bytes) : /\ p = PacketBytes(m + 1, size) /\ Len(p) = HeadSize + size
                                 /\ \A j \in 1..(HeadSize + size) : p[j] = <<m + 1, j>>
    <2>1. m + 1 \in 1..MaxSent
      <3>1. k <= MaxSent
        BY <1>1, StreamTypes DEF GoodSizes
      <3> QED
        BY <1>1, <3>1, Numbers
    <2> QED
      BY <1>2, <2>1, PacketIs
  <1>7. in.data = p \o in'.data
    <2>1. PICK d \in Seq(Bytes), e \in Seq(Bytes), h \in Nat : d = in.data /\ e = in'.data /\ h = HeadSize + size
      <3>1. in.data \in Seq(Bytes) /\ HeadSize + size \in Nat
        BY <1>2, StreamTypes, Numbers
      <3> QED
        BY <1>5, <3>1
    <2>2. Len(p) = h /\ h <= Len(d) /\ Len(e) = Len(d) - h
      BY <1>3, <1>5, <1>6, <2>1
    <2>3. \A j \in 1..h : d[j] = p[j]
      <3> TAKE j \in 1..h
      <3>1. j \in 1..Len(d) /\ j <= h
        BY <2>2
      <3> QED
        BY <1>2, <1>6, <2>1, <3>1
    <2>4. \A j \in 1..Len(e) : e[j] = d[h + j]
      BY <1>5, <2>1
    <2>5. d = p \o e
      BY <2>2, <2>3, <2>4, FrontAndRest
    <2> QED
      BY <2>1, <2>5
  <1>8. Len(messages') = m + 1 /\ messages'[m + 1] = body /\ \A i \in 1..m : messages'[i] = messages[i]
    <2>1. messages \in Seq(Seq(Bytes))
      BY StreamTypes
    <2> QED
      BY <1>1, <1>4, <1>5, <2>1, AppendProperties
  <1>9. SizesKnown'
    <2>1. GoodSizes(sent)
      BY StreamTypes
    <2> QED
      BY <1>1, <1>4, <1>8, <2>1 DEF SizesKnown, GoodSizes
  <1>10. FlattenSeq(Row(sent, m + 1)) = FlattenSeq(Row(sent, m)) \o p
    <2>1. GoodSizes(sent) /\ m \in 0..Len(sent) /\ m < Len(sent)
      BY <1>1, StreamTypes
    <2> QED
      BY <1>2, <1>6, <2>1, RowNext
  <1>11. Whole'
    <2>1. PICK Q : /\ Q = Seq(Bytes) /\ Closed(Q) /\ Moves(Q)
                   /\ \E a, d, x, y, r \in Q : PartsAre(a, d, x, y, r)
      BY Parts
    <2>2. PICK a \in Q, d \in Q, x \in Q, y \in Q, r \in Q : PartsAre(a, d, x, y, r)
      BY <2>1
    <2>3. PICK e \in Q, h \in Q : e = p /\ h = in'.data
      <3>1. p \in Q /\ in'.data \in Q
        BY <1>5, <1>6, <2>1
      <3> QED
        BY <3>1, Zenon
    <2>4. (a \o e) \o (h \o (x \o y)) = a \o ((e \o h) \o (x \o y))
      <3>1. Moves(Q) /\ Closed(Q)
        BY <2>1
      <3>2. x \o y \in Q
        BY <3>1, Zenon DEF Closed
      <3>3. h \o (x \o y) \in Q
        BY <3>1, <3>2, Zenon DEF Closed
      <3>4. Assoc(a, e, h \o (x \o y)) /\ Assoc(e, h, x \o y)
        BY <3>1, <3>2, <3>3, Zenon DEF Moves
      <3> QED
        BY <3>4 DEF Assoc
    <2>5. (a \o e) \o (h \o (x \o y)) = r
      <3>1. d = e \o h
        BY <1>7, <2>2, <2>3 DEF PartsAre
      <3> QED
        BY <2>2, <2>4, <3>1, Zenon DEF PartsAre
    <2>6. FlattenSeq(Row(sent, m + 1)) \o (in'.data \o (pipe \o y)) = FlattenSeq(Row(sent, Len(sent)))
      BY <1>1, <1>10, <2>2, <2>3, <2>5, Zenon DEF PartsAre
    <2>7. y \in Seq(Bytes) /\ (sending => y = out.data)
      BY <2>1, <2>2 DEF PartsAre
    <2> QED
      BY <1>4, <1>8, <2>6, <2>7 DEF Whole
  <1>12. RoomAhead'
    <2>1. CASE link.pipelined
      <3>1. PICK u \in Nat, w \in Nat, t \in Nat, v \in Nat :
                u = Len(pipe) /\ w = Len(out.data) /\ t = in.tail /\ v = in'.tail /\ v <= t
        <4>1. in' \in Buffer(Bytes)
          BY DEF IInv, TypeOK
        <4>2. Len(pipe) \in Nat /\ Len(out.data) \in Nat /\ in.tail \in Nat /\ in'.tail \in Nat
          <5>1. Len(pipe) \in Nat /\ Len(out.data) \in Nat /\ in \in Buffer(Bytes)
            BY StreamTypes
          <5>2. in.tail \in Nat /\ in'.tail \in Nat
            BY <4>1, <5>1 DEF Buffer
          <5> QED
            BY <5>1, <5>2
        <4> QED
          BY <1>5, <4>2, Zenon
      <3>2. in.capacity >= link.in /\ t + u + w <= Len(sent) * PacketMax
        BY <2>1, <3>1 DEF StreamInv, RoomAhead
      <3>3. PICK z \in Int : z = Len(sent) * PacketMax
        <4>1. Len(sent) \in Int /\ PacketMax \in Int
          BY StreamTypes, Numbers DEF PacketMax
        <4>2. Len(sent) * PacketMax \in Int
          BY <4>1
        <4> QED
          BY <4>2
      <3>4. v + u + w <= z
        <4>1. t + u + w <= z /\ v <= t
          BY <3>1, <3>2, <3>3, Zenon
        <4> QED
          BY <4>1
      <3> QED
        BY <1>4, <1>5, <2>1, <3>1, <3>2, <3>3, <3>4 DEF RoomAhead, PacketMax
    <2>2. CASE ~ link.pipelined
      <3>1. in.head = 0 /\ k <= m + 1
        BY <1>1, <2>2 DEF StreamInv, RoomAhead
      <3>2. k = m + 1
        BY <1>1, <3>1
      <3>3. Len(in.data) = HeadSize + size
        <4>1. PICK l \in Nat, h \in Nat : l = Len(in.data) /\ h = HeadSize + size
          <5>1. Len(in.data) \in Nat
            BY StreamTypes
          <5>2. HeadSize + size \in Nat
            BY <1>2, Numbers
          <5> QED
            BY <5>1, <5>2, Zenon
        <4>2. l <= h /\ l >= h
          BY <1>2, <1>3, <3>2, <4>1
        <4> QED
          BY <4>1, <4>2
      <3>4. in'.head = 0 /\ k <= (m + 1) + 1
        BY <1>1, <1>5, <3>1, <3>3
      <3> QED
        BY <1>1, <1>4, <1>8, <2>2, <3>4 DEF RoomAhead
    <2> QED
      BY <2>1, <2>2
  <1>13. MessagesIntact'
    <2>1. DOMAIN messages = 1..m /\ DOMAIN messages' = 1..(m + 1) /\ DOMAIN sent = 1..k
      <3>1. messages \in Seq(Seq(Bytes)) /\ messages' \in Seq(Seq(Bytes)) /\ sent \in Seq(Nat)
        BY StreamTypes DEF IInv, TypeOK
      <3> QED
        BY <1>1, <1>8, <3>1, LenProperties
    <2> SUFFICES ASSUME NEW i \in 1..(m + 1)
                 PROVE  i \in DOMAIN sent /\ messages'[i] = Body(i)'
      BY <1>4, <2>1 DEF MessagesIntact
    <2>2. i \in DOMAIN sent
      BY <1>1, <2>1
    <2>3. Body(i)' = Body(i)
      BY <1>4 DEF Body, PacketBytes
    <2>4. CASE i \in 1..m
      BY <1>8, <2>1, <2>2, <2>3, <2>4 DEF StreamInv, MessagesIntact
    <2>5. CASE i = m + 1
      <3>1. Body(i) = SubSeq(p, HeadSize + 1, HeadSize + size)
        BY <1>2, <1>6, <2>5 DEF Body
      <3>2. PICK h \in Nat : h = HeadSize
        BY Numbers
      <3>3. /\ SubSeq(p, h + 1, h + size) \in Seq(Bytes)
            /\ Len(SubSeq(p, h + 1, h + size)) = size
            /\ \A j \in 1..size : SubSeq(p, h + 1, h + size)[j] = p[h + j]
        <4>1. h + size <= Len(p) /\ size \in Nat
          BY <1>2, <1>6, <3>2
        <4> QED
          BY <4>1, PieceIs
      <3>4. \A j \in 1..size : p[h + j] = in.data[h + j]
        <4> TAKE j \in 1..size
        <4>1. h + j \in 1..(HeadSize + size) /\ h + j \in 1..Len(in.data) /\ h + j <= HeadSize + size
          <5>1. Len(in.data) \in Nat
            BY StreamTypes
          <5> QED
            BY <1>2, <1>3, <3>2, <5>1
        <4> QED
          BY <1>2, <1>6, <4>1
      <3>5. \A j \in 1..size : body[j] = SubSeq(p, h + 1, h + size)[j]
        BY <1>5, <3>2, <3>3, <3>4
      <3>6. body = SubSeq(p, h + 1, h + size)
        BY <1>5, <3>3, <3>5, SeqEqual
      <3> QED
        BY <1>8, <2>2, <2>3, <2>5, <3>1, <3>2, <3>6
    <2> QED
      BY <2>4, <2>5
  <1>14. ClassifiedInTime'
    BY <1>4 DEF ClassifiedInTime
  <1> QED
    BY <1>9, <1>11, <1>12, <1>13, <1>14 DEF StreamInv

\* The first message is the one that tells whose the connection is.
FirstIntact == messages # <<>> => messages[1] # <<>> /\ messages[1][1][1] = 1

\* It is, as long as nothing is cut off.
LEMMA FirstTaken == StreamInv => FirstIntact
  <1> SUFFICES ASSUME StreamInv, messages # <<>>
               PROVE  messages[1] # <<>> /\ messages[1][1][1] = 1
    BY DEF FirstIntact
  <1>1. Len(messages) \in Nat /\ Len(messages) > 0 /\ 1 \in DOMAIN messages
    <2>1. messages \in Seq(Seq(Bytes))
      BY StreamTypes
    <2>2. Len(messages) \in Nat \ {0} /\ DOMAIN messages = 1..Len(messages)
      BY <2>1, EmptySeq, LenProperties
    <2> QED
      BY <2>2
  <1>2. 1 \in DOMAIN sent /\ messages[1] = Body(1)
    BY <1>1 DEF StreamInv, MessagesIntact
  <1>3. PICK size \in Nat : size = sent[1] /\ size > 0 /\ size < MaxBody + ExtraSize /\ 1 \in 1..MaxSent
    <2>1. sent \in Seq(Nat) /\ Len(sent) \in Nat /\ Len(sent) <= MaxSent /\ MaxSent \in Nat
      BY StreamTypes, Numbers DEF GoodSizes
    <2>2. 1 \in 1..Len(sent)
      BY <1>2, <2>1, LenProperties
    <2>3. sent[1] \in Nat /\ sent[1] > 0 /\ sent[1] < MaxBody + ExtraSize
      BY <2>1, <2>2, StreamTypes DEF GoodSizes
    <2>4. 1 \in 1..MaxSent
      BY <2>1, <2>2
    <2> QED
      BY <2>3, <2>4
  <1>4. PICK p \in Seq(Bytes) : /\ p = PacketBytes(1, size) /\ Len(p) = HeadSize + size
                                 /\ \A j \in 1..(HeadSize + size) : p[j] = <<1, j>>
    BY <1>3, PacketIs
  <1>5. messages[1] = SubSeq(p, HeadSize + 1, HeadSize + size)
    BY <1>2, <1>3, <1>4 DEF Body
  <1>6. PICK h \in Nat : h = HeadSize
    BY Numbers
  <1>7. Len(SubSeq(p, h + 1, h + size)) = size /\ SubSeq(p, h + 1, h + size)[1] = p[h + 1]
    <2>1. h + size <= Len(p) /\ size \in Nat
      BY <1>4, <1>6
    <2>2. /\ Len(SubSeq(p, h + 1, h + size)) = size
          /\ \A j \in 1..size : SubSeq(p, h + 1, h + size)[j] = p[h + j]
      BY <2>1, PieceIs
    <2>3. 1 \in 1..size
      BY <1>3
    <2> QED
      BY <2>2, <2>3
  <1>8. p[h + 1] = <<1, h + 1>>
    <2>1. h + 1 \in 1..(HeadSize + size)
      BY <1>3, <1>6
    <2> QED
      BY <1>4, <2>1
  <1>9. messages[1] # <<>> /\ messages[1][1][1] = 1
    <2>1. messages[1][1] = <<1, h + 1>>
      BY <1>5, <1>6, <1>7, <1>8
    <2>2. Len(messages[1]) = size /\ Len(<<>>) = 0
      BY <1>5, <1>6, <1>7
    <2>3. messages[1] # <<>>
      BY <1>3, <2>2
    <2>4. <<1, h + 1>>[1] = 1
      OBVIOUS
    <2> QED
      BY <2>1, <2>3, <2>4
  <1> QED
    BY <1>9

\* Its handler sets the protocol type.
LEMMA TaskStream ==
    ASSUME TypeOK, FirstIntact, TaskProcess, messages # <<>> PROVE typed'
  <1>1. 1 \in DOMAIN messages
    <2>1. messages \in Seq(Seq(Bytes))
      BY DEF TypeOK
    <2>2. Len(messages) \in Nat \ {0} /\ DOMAIN messages = 1..Len(messages)
      BY <2>1, EmptySeq, LenProperties
    <2> QED
      BY <2>2
  <1> QED
    BY <1>1 DEF TaskProcess, FirstIntact

\* What only moves the receiver's loop on, or ends the sending, leaves the
\* stream as it is.
LEMMA LoopStream ==
    ASSUME StreamInv, IInv',
           \/ EndParse \/ TaskProcess \/ SendFails
           \/ \E size \in HeadSizes : Incomplete(size)
    PROVE  StreamInv'
  <1>1. /\ sent' = sent /\ messages' = messages /\ in' = in /\ out' = out /\ link' = link
        /\ pipe' = pipe /\ alive' = alive /\ (sending' => sending)
    BY DEF EndParse, TaskProcess, SendFails, Incomplete, sender, kernels, receiver
  <1>2. SizesKnown' /\ MessagesIntact'
    BY <1>1, SameBodies
  <1>3. Whole'
    <2>1. Whole
      BY DEF StreamInv
    <2> QED
      BY <1>1, <2>1 DEF Whole
  <1>4. RoomAhead'
    BY <1>1 DEF StreamInv, RoomAhead, PacketMax
  <1>5. ClassifiedInTime'
    <2>1. CASE EndParse \/ \E size \in HeadSizes : Incomplete(size)
      BY <2>1 DEF EndParse, Incomplete, ClassifiedInTime
    <2>2. CASE TaskProcess
      BY <1>1, <2>2, TaskStream, FirstTaken DEF ClassifiedInTime, StreamInv, IInv
    <2>3. CASE SendFails
      BY <2>3 DEF SendFails, receiver, StreamInv, ClassifiedInTime
    <2> QED
      BY <2>1, <2>2, <2>3
  <1> QED
    BY <1>2, <1>3, <1>4, <1>5 DEF StreamInv

\* Every step keeps it.
LEMMA StepStream ==
    ASSUME StreamInv, [Next]_vars, ~ cut' PROVE StreamInv'
  <1>1. IInv'
    BY StepIInv DEF StreamInv
  <1>2. CASE \E size \in Sizes : SendData(size)
    BY <1>1, <1>2, SendStream
  <1>3. CASE Write
    BY <1>1, <1>3, WriteStream DEF Write
  <1>4. ASSUME Close PROVE StreamInv'
    <2>1. sent' = sent /\ messages' = messages /\ ~ alive'
      BY <1>4 DEF Close
    <2> QED
      BY <1>1, <2>1, ClosedStream
  <1>5. CASE Read
    <2>1. CASE HandleEof
      BY <1>4, <2>1 DEF HandleEof
    <2>2. CASE \E n \in 1..Len(pipe) : HandleRead(n)
      BY <1>1, <2>2, ReadStream DEF HandleRead
    <2> QED
      BY <1>5, <2>1, <2>2 DEF Read
  <1>6. CASE ParsePacket
    <2>1. PICK size \in HeadSizes : Refuse(size) \/ Incomplete(size) \/ Take(size)
      BY <1>6 DEF ParsePacket
    <2>2. phase = "parse" /\ alive /\ Size(in) > HeadSize
      BY <1>6 DEF ParsePacket
    <2>3. CASE Refuse(size)
      BY <1>4, <2>3 DEF Refuse
    <2>4. CASE Incomplete(size)
      BY <1>1, <2>4, LoopStream
    <2>5. CASE Take(size)
      BY <1>1, <2>2, <2>5, TakeStream
    <2> QED
      BY <2>1, <2>3, <2>4, <2>5
  <1>7. CASE EndParse \/ TaskProcess \/ SendFails
    BY <1>1, <1>7, LoopStream
  <1>8. CASE \E k \in 0..Len(pipe) : Break(k)
    BY <1>1, <1>8, BreakStream
  <1>9. CASE Disconnect
    BY <1>4, <1>9 DEF Disconnect
  <1>10. CASE UNCHANGED vars
    <2>1. /\ sent' = sent /\ messages' = messages /\ in' = in /\ out' = out /\ link' = link
          /\ pipe' = pipe /\ alive' = alive /\ sending' = sending /\ typed' = typed /\ phase' = phase
      BY <1>10 DEF vars, sender, kernels, receiver
    <2>2. SizesKnown' /\ MessagesIntact'
      BY <2>1, SameBodies
    <2>3. Whole'
      <3>1. Whole
        BY DEF StreamInv
      <3> QED
        BY <2>1, <3>1 DEF Whole
    <2>4. RoomAhead' /\ ClassifiedInTime'
      BY <2>1 DEF StreamInv, RoomAhead, ClassifiedInTime, PacketMax
    <2> QED
      BY <1>1, <2>2, <2>3, <2>4 DEF StreamInv
  <1> QED
    BY <1>2, <1>3, <1>5, <1>6, <1>7, <1>8, <1>9, <1>10 DEF Next

-----------------------------------------------------------------------------
(* Until bytes are cut off. *)

\* What has been thrown away stays away.
LEMMA CutStays == [Next]_vars /\ cut => cut'
  <1> SUFFICES ASSUME [Next]_vars, cut PROVE cut'
    OBVIOUS
  <1>1. CASE UNCHANGED vars
    BY <1>1 DEF vars
  <1>2. CASE ParsePacket
    BY <1>2 DEF ParsePacket, Refuse, Incomplete, Take, Close
  <1>3. CASE Read
    BY <1>3 DEF Read, HandleEof, HandleRead, Close
  <1> QED
    BY <1>1, <1>2, <1>3 DEF Next, SendData, Write, HandleWrite, EndParse, TaskProcess, SendFails, Break, Disconnect, Close

\* The stream's invariant holds until handleRead throws bytes away.
THEOREM StreamInductive == Spec => [](cut \/ StreamInv)
  <1>1. Init => cut \/ StreamInv
    BY InitStream
  <1>2. (cut \/ StreamInv) /\ [Next]_vars => (cut \/ StreamInv)'
    BY StepStream, CutStays
  <1> QED
    BY <1>1, <1>2, PTL DEF Spec

\* The parts of the stream make it up.
LEMMA WholeIsNothingLost == StreamInv => NothingLost
  <1> SUFFICES ASSUME StreamInv, alive
               PROVE  LET rest == in.data \o pipe \o out.data
                      IN  IF sending THEN Parsed \o rest = Stream
                          ELSE IsPrefix(Parsed \o in.data \o pipe, Stream)
    BY DEF NothingLost
  <1>1. PICK Q : /\ Q = Seq(Bytes) /\ Closed(Q) /\ Moves(Q)
                 /\ \E a, d, x, y, r \in Q : PartsAre(a, d, x, y, r)
    BY Parts
  <1>2. PICK a \in Q, d \in Q, x \in Q, y \in Q, r \in Q : PartsAre(a, d, x, y, r)
    BY <1>1
  <1>3. a = Parsed /\ r = Stream
    <2>1. DOMAIN messages = 1..Len(messages) /\ DOMAIN sent = 1..Len(sent)
      BY StreamTypes, LenProperties
    <2> QED
      BY <1>2, <2>1 DEF PartsAre, Parsed, Stream, Row
  <1>4. Moves(Q) /\ Closed(Q)
    BY <1>1
  <1>5. x \o y \in Q /\ d \o x \in Q /\ a \o d \in Q
    BY <1>4, Zenon DEF Closed
  <1>6. (a \o d) \o x \in Q
    BY <1>4, <1>5, Zenon DEF Closed
  <1>7. Assoc(d, x, y) /\ Assoc(a, d, x \o y) /\ Assoc(a \o d, x, y)
    BY <1>4, <1>5, Zenon DEF Moves
  <1>8. a \o (d \o (x \o y)) = r
    BY <1>2 DEF PartsAre
  <1>9. CASE sending
    <2>1. a \o ((d \o x) \o y) = r
      BY <1>7, <1>8, Zenon DEF Assoc
    <2>2. d = in.data /\ x = pipe /\ y = out.data
      BY <1>2, <1>9 DEF PartsAre
    <2> QED
      BY <1>3, <1>9, <2>1, <2>2, Zenon
  <1>10. CASE ~ sending
    <2>1. ((a \o d) \o x) \o y = r
      BY <1>7, <1>8, Zenon DEF Assoc
    <2>2. d = in.data /\ x = pipe
      BY <1>2 DEF PartsAre
    <2>3. PICK s \in Seq(Bytes), t \in Seq(Bytes) : s = (a \o d) \o x /\ t = y
      BY <1>1, <1>6
    <2>4. IsPrefix(s, s \o t)
      BY <2>3, FrontPrefix
    <2>5. IsPrefix((a \o d) \o x, r)
      BY <2>1, <2>3, <2>4, Zenon
    <2> QED
      BY <1>3, <1>10, <2>2, <2>5, Zenon
  <1> QED
    BY <1>9, <1>10

\* Nothing is lost, doubled or reordered between composePacket and parsePacket
\* otherwise than by handleRead, when the room before the head counts for bytes
\* that are put behind the tail.
THEOREM StreamKept == Spec => [](cut \/ NothingLost)
  BY StreamInductive, WholeIsNothingLost, PTL

\* Until then every message handed to a handler is the body of the packet sent
\* at its place.
THEOREM MessagesWhole == Spec => [](cut \/ MessagesIntact)
  <1>1. StreamInv => MessagesIntact
    BY DEF StreamInv
  <1> QED
    BY <1>1, StreamInductive, PTL

\* Bytes have been cut off only where the packets sent, one while another was on
\* the way, may be more than the receive buffer held in the beginning.
CutByBurst == cut => link.pipelined /\ link.in < Len(sent) * PacketMax

\* A step that cuts is such a burst.
LEMMA CutStep ==
    ASSUME StreamInv, NEW n \in 1..Len(pipe), HandleRead(n), CutsOff(n)
    PROVE  link.pipelined /\ link.in < Len(sent) * PacketMax
  <1>1. PICK u \in Nat, w \in Nat, t \in Nat, c \in Nat, h \in Nat, d \in Nat :
            /\ u = Len(pipe) /\ w = Len(out.data) /\ t = in.tail /\ c = in.capacity
            /\ h = in.head /\ d = Len(in.data)
    <2>1. Len(pipe) \in Nat /\ Len(out.data) \in Nat /\ Len(in.data) \in Nat
      BY StreamTypes
    <2>2. in.tail \in Nat /\ in.capacity \in Nat /\ in.head \in Nat
      BY StreamTypes DEF Buffer
    <2> QED
      BY <2>1, <2>2, Zenon
  <1>2. PICK k \in Nat : k = n /\ k <= u
    BY <1>1
  <1>3. h + d = t /\ k <= c - d /\ k > c - t
    <2>1. h + d = t
      BY <1>1, StreamTypes DEF Linear, Size
    <2> QED
      BY <1>1, <1>2, <2>1 DEF CutsOff, Space, Size
  <1>4. alive
    BY DEF HandleRead
  <1>5. link.pipelined
    <2>1. ~ (h = 0)
      BY <1>3
    <2> QED
      BY <1>1, <1>4, <2>1 DEF StreamInv, RoomAhead
  <1>6. PICK v \in Int, l \in Nat : v = Len(sent) * PacketMax /\ l = link.in
    <2>1. Len(sent) \in Nat /\ PacketMax \in Int /\ link.in \in Nat
      BY StreamTypes, Numbers DEF PacketMax
    <2> QED
      BY <2>1
  <1>7. t + u + w <= v /\ c >= l
    BY <1>1, <1>4, <1>5, <1>6 DEF StreamInv, RoomAhead
  <1>8. l < v
    <2>1. k > c - t /\ k <= u /\ t + u + w <= v /\ c >= l
      BY <1>2, <1>3, <1>7
    <2>2. t + k > c /\ t + k <= v
      BY <2>1
    <2> QED
      BY <2>1, <2>2
  <1> QED
    BY <1>5, <1>6, <1>8

\* More may be sent, never less.
LEMMA SentGrows ==
    ASSUME TypeOK, [Next]_vars
    PROVE  Len(sent') >= Len(sent) /\ Len(sent) \in Nat /\ Len(sent') \in Nat
  <1>1. sent \in Seq(Nat) /\ Len(sent) \in Nat
    BY DEF TypeOK
  <1>2. CASE \E size \in Sizes : SendData(size)
    <2>1. PICK size \in Sizes : SendData(size)
      BY <1>2
    <2>2. sent' = Append(sent, size + ExtraSize) /\ size + ExtraSize \in Nat
      BY <2>1, Numbers DEF SendData
    <2>3. Len(sent') = Len(sent) + 1
      BY <1>1, <2>2, AppendProperties
    <2> QED
      BY <1>1, <2>3
  <1>3. CASE sent' = sent
    BY <1>1, <1>3
  <1>4. CASE ParsePacket
    BY <1>3, <1>4 DEF ParsePacket, Refuse, Incomplete, Take, Close
  <1>5. CASE Read
    BY <1>3, <1>5 DEF Read, HandleEof, HandleRead, Close
  <1>6. CASE UNCHANGED vars
    BY <1>3, <1>6 DEF vars
  <1> QED
    BY <1>2, <1>3, <1>4, <1>5, <1>6
       DEF Next, Write, HandleWrite, EndParse, TaskProcess, SendFails, Break, Disconnect, Close

\* A link's capacities never change.
LEMMA LinkKept == [Next]_vars => link' = link
  <1> SUFFICES ASSUME [Next]_vars PROVE link' = link
    OBVIOUS
  <1>1. CASE UNCHANGED vars
    BY <1>1 DEF vars
  <1>2. CASE ParsePacket
    BY <1>2 DEF ParsePacket, Refuse, Incomplete, Take, Close
  <1>3. CASE Read
    BY <1>3 DEF Read, HandleEof, HandleRead, Close
  <1> QED
    BY <1>1, <1>2, <1>3 DEF Next, SendData, Write, HandleWrite, EndParse, TaskProcess, SendFails, Break, Disconnect, Close

\* Only reading from the socket cuts.
LEMMA CutByRead ==
    ASSUME [Next]_vars, ~ cut, cut' PROVE \E n \in 1..Len(pipe) : HandleRead(n) /\ CutsOff(n)
  <1>1. CASE UNCHANGED vars
    BY <1>1 DEF vars
  <1>2. CASE ParsePacket
    BY <1>2 DEF ParsePacket, Refuse, Incomplete, Take, Close
  <1>3. CASE Read
    BY <1>3 DEF Read, HandleEof, HandleRead, Close
  <1> QED
    BY <1>1, <1>2, <1>3 DEF Next, SendData, Write, HandleWrite, EndParse, TaskProcess, SendFails, Break, Disconnect, Close

\* Packets that are sent one at a time, and those that the receive buffer can
\* hold all together, are never cut, whatever is read and parsed in between.
THEOREM CutsNeedBursts == Spec => []CutByBurst
  <1>1. Init => CutByBurst
    BY DEF Init, CutByBurst
  <1>2. CutByBurst /\ IInv /\ (cut \/ StreamInv) /\ [Next]_vars => CutByBurst'
    <2> SUFFICES ASSUME CutByBurst, IInv, cut \/ StreamInv, [Next]_vars, cut'
                 PROVE  link'.pipelined /\ link'.in < Len(sent') * PacketMax
      BY DEF CutByBurst, PacketMax
    <2>1. link.pipelined /\ link.in < Len(sent) * PacketMax
      <3>1. CASE cut
        BY <3>1 DEF CutByBurst
      <3>2. CASE ~ cut
        BY <3>2, CutByRead, CutStep
      <3> QED
        BY <3>1, <3>2
    <2>2. PICK k \in Nat, m \in Nat, x \in Int, l \in Nat :
             k = Len(sent) /\ m = Len(sent') /\ k <= m /\ x = PacketMax /\ l = link.in
      <3>1. TypeOK
        BY DEF IInv
      <3>2. Len(sent') >= Len(sent) /\ Len(sent) \in Nat /\ Len(sent') \in Nat
        BY <3>1, SentGrows
      <3>3. link.in \in Nat
        BY <3>1, StreamAssumption DEF TypeOK, Capacities
      <3>4. PacketMax \in Int
        BY Numbers DEF PacketMax
      <3> QED
        BY <3>2, <3>3, <3>4
    <2>3. l < k * x => l < m * x
      <3>1. SUFFICES ASSUME l < k * x PROVE l < m * x
        OBVIOUS
      <3>2. x > 0
        <4>1. x >= 0
          BY Numbers, <2>2 DEF PacketMax
        <4>2. x = 0 => k * x = 0
          BY <2>2
        <4> QED
          BY <2>2, <3>1, <4>1, <4>2
      <3>3. PICK e \in Nat : m = k + e
        <4>1. m - k \in Nat /\ m = k + (m - k)
          BY <2>2
        <4> QED
          BY <4>1
      <3>4. e * x >= 0 /\ m * x = k * x + e * x /\ k * x \in Int /\ e * x \in Int
        BY <2>2, <3>2, <3>3
      <3> QED
        BY <2>2, <3>1, <3>4
    <2> QED
      BY <2>1, <2>2, <2>3, LinkKept
  <1> QED
    BY <1>1, <1>2, Inductive, StreamInductive, PTL DEF Spec

\* Before the first message is taken nothing can be cut off: the head is at the
\* front.
FirstAhead == messages = <<>> => in.head = 0 /\ ~ cut

\* What is read before the first message is kept whole.
LEMMA ReadAhead ==
    ASSUME StreamInv, FirstAhead, messages = <<>>, IInv', NEW n \in 1..Len(pipe), HandleRead(n)
    PROVE  in'.head = 0 /\ ~ CutsOff(n)
  <1>1. in.head = 0
    BY DEF FirstAhead
  <1>2. ~ CutsOff(n)
    <2>1. PICK t \in Nat, c \in Nat, d \in Nat : t = in.tail /\ c = in.capacity /\ d = Len(in.data)
      <3>1. Len(in.data) \in Nat /\ in.tail \in Nat /\ in.capacity \in Nat
        BY StreamTypes DEF Buffer
      <3> QED
        BY <3>1, Zenon
    <2>2. 0 + d = t
      BY <1>1, <2>1, StreamTypes DEF Linear, Size
    <2> QED
      BY <2>1, <2>2 DEF CutsOff, Space, Size
  <1>3. PICK f \in Seq(Bytes) : f = SubSeq(pipe, 1, n) /\ Len(f) = n
    <2>1. pipe \in Seq(Bytes) /\ n \in 0..Len(pipe)
      BY StreamTypes
    <2>2. SubSeq(pipe, 1, n) \in Seq(Bytes) /\ Len(SubSeq(pipe, 1, n)) = n
      BY <2>1, SplitAt
    <2> QED
      BY <2>2
  <1>4. PICK room : room = IF n > Space(in) THEN ReSet(in, in.capacity + n) ELSE in
    OBVIOUS
  <1>5. in' = SetWriteBufSize(room, f)
    BY <1>3, <1>4 DEF HandleRead
  <1>6. in \in Buffer(Bytes) /\ Linear(in) /\ in.tail \in Nat /\ in.capacity \in Nat
    BY StreamTypes DEF Buffer
  <1>7. Len(f) > Space(in) \/ in.tail + Len(f) <= in.capacity
    <2>1. Space(in) \in Int
      <3>1. in.capacity \in Nat /\ Len(in.data) \in Nat
        BY StreamTypes DEF Buffer
      <3> QED
        BY <3>1 DEF Space, Size
    <2>2. PICK t \in Nat, c \in Nat, k \in Nat : t = in.tail /\ c = in.capacity /\ k = n
      BY <1>6
    <2>3. k > Space(in) \/ ~ (k > c - t)
      BY <1>2, <2>1, <2>2 DEF CutsOff
    <2> QED
      BY <1>3, <2>1, <2>2, <2>3
  <1>8. in.head = 0 => in'.head = 0
    <2>1. room = IF Len(f) > Space(in) THEN ReSet(in, in.capacity + Len(f)) ELSE in
      BY <1>3, <1>4
    <2> QED
      BY <1>5, <1>6, <1>7, <2>1, ReceivedIs
  <1> QED
    BY <1>1, <1>2, <1>8

\* What stays of it when bytes are cut off, too.
FirstInv == IInv /\ (cut \/ StreamInv) /\ FirstAhead /\ FirstIntact

\* While no message is taken, the head stays at the front.
LEMMA StepAhead ==
    ASSUME FirstInv, IInv', [Next]_vars PROVE FirstAhead'
  <1> SUFFICES ASSUME messages' = <<>> PROVE in'.head = 0 /\ ~ cut'
    BY DEF FirstAhead
  <1>1. messages \in Seq(Seq(Bytes)) /\ Len(messages) \in Nat
    BY DEF FirstInv, IInv, TypeOK
  <1>2. ~ \E size \in HeadSizes : Take(size)
    <2> SUFFICES ASSUME NEW size \in HeadSizes, Take(size) PROVE FALSE
      OBVIOUS
    <2>3. PICK body : body = SubSeq(ReadIntactBuffer(in, HeadSize).data, 1, size)
      OBVIOUS
    <2>1. messages' = Append(messages, body)
      BY <2>3 DEF Take
    <2>2. Len(messages') = Len(messages) + 1 /\ Len(messages) \in Nat
      BY <1>1, <2>1
    <2>4. Len(messages') = 0
      OBVIOUS
    <2> QED
      BY <2>2, <2>4
  <1>3. CASE in' = in /\ messages' = messages /\ cut' = cut
    BY <1>3 DEF FirstInv, FirstAhead
  <1>4. CASE \E n \in 1..Len(pipe) : HandleRead(n)
    <2>1. PICK n \in 1..Len(pipe) : HandleRead(n)
      BY <1>4
    <2>2. messages = <<>>
      BY <2>1 DEF HandleRead
    <2>3. StreamInv /\ ~ cut
      BY <2>2 DEF FirstInv, FirstAhead
    <2>4. in'.head = 0 /\ ~ CutsOff(n)
      BY <2>1, <2>2, <2>3, ReadAhead DEF FirstInv
    <2> QED
      BY <2>1, <2>3, <2>4 DEF HandleRead
  <1>5. CASE HandleEof \/ Disconnect
    BY <1>3, <1>5 DEF HandleEof, Disconnect, Close
  <1>6. CASE ParsePacket
    BY <1>2, <1>3, <1>6 DEF ParsePacket, Refuse, Incomplete, Close, receiver
  <1>7. CASE \E size \in Sizes : SendData(size)
    BY <1>3, <1>7 DEF SendData, receiver
  <1>8. CASE Write \/ EndParse \/ TaskProcess \/ SendFails \/ \E k \in 0..Len(pipe) : Break(k)
    BY <1>3, <1>8 DEF Write, HandleWrite, EndParse, TaskProcess, SendFails, Break, receiver
  <1>9. CASE UNCHANGED vars
    BY <1>3, <1>9 DEF vars, receiver
  <1> QED
    BY <1>4, <1>5, <1>6, <1>7, <1>8, <1>9 DEF Next, Read

\* Later messages leave the first one as it is.
LEMMA FirstStays ==
    ASSUME TypeOK, messages # <<>>, [Next]_vars
    PROVE  messages' # <<>> /\ messages'[1] = messages[1]
  <1>1. messages \in Seq(Seq(Bytes)) /\ Len(messages) \in Nat /\ Len(messages) > 0
    <2>1. messages \in Seq(Seq(Bytes))
      BY DEF TypeOK
    <2>2. Len(messages) \in Nat \ {0}
      BY <2>1, EmptySeq
    <2> QED
      BY <2>1, <2>2
  <1>2. CASE messages' = messages
    BY <1>2
  <1>3. CASE \E size \in HeadSizes : Take(size) /\ Size(in) > HeadSize
    <2>1. PICK size \in HeadSizes : Take(size) /\ Size(in) > HeadSize
      BY <1>3
    <2>2. PICK body : body = SubSeq(ReadIntactBuffer(in, HeadSize).data, 1, size)
      OBVIOUS
    <2>3. messages' = Append(messages, body)
      BY <2>1, <2>2 DEF Take
    <2>4. Len(messages') = Len(messages) + 1 /\ messages'[1] = messages[1]
      BY <1>1, <2>3
    <2>5. Len(<<>>) = 0
      OBVIOUS
    <2> QED
      BY <1>1, <2>4, <2>5
  <1>4. CASE ParsePacket
    BY <1>2, <1>3, <1>4 DEF ParsePacket, Refuse, Incomplete, Close
  <1>5. CASE Read
    BY <1>2, <1>5 DEF Read, HandleEof, HandleRead, Close
  <1>6. CASE UNCHANGED vars
    BY <1>2, <1>6 DEF vars, receiver
  <1> QED
    BY <1>2, <1>4, <1>5, <1>6
       DEF Next, SendData, Write, HandleWrite, EndParse, TaskProcess, SendFails, Break, Disconnect, Close, receiver

\* Only reading cuts bytes off, not taking a message.
LEMMA TakeCuts == ASSUME [Next]_vars, messages' # messages PROVE cut' = cut
  <1>1. CASE UNCHANGED vars
    BY <1>1 DEF vars, receiver
  <1>2. CASE ParsePacket
    BY <1>2 DEF ParsePacket, Refuse, Incomplete, Take, Close
  <1>3. CASE Read
    BY <1>3 DEF Read, HandleEof, HandleRead, Close
  <1> QED
    BY <1>1, <1>2, <1>3 DEF Next, SendData, Write, HandleWrite, EndParse, TaskProcess, SendFails, Break, Disconnect, Close, receiver

\* The first message is that of the first packet, whatever is cut off later.
LEMMA StepFirst == FirstInv /\ [Next]_vars => FirstInv'
  <1> SUFFICES ASSUME FirstInv, [Next]_vars PROVE FirstInv'
    OBVIOUS
  <1>1. IInv'
    BY StepIInv DEF FirstInv
  <1>2. cut' \/ StreamInv'
    BY StepStream, CutStays DEF FirstInv
  <1>3. FirstAhead'
    BY <1>1, StepAhead
  <1>4. FirstIntact'
    <2>1. CASE messages # <<>>
      <3>1. TypeOK
        BY DEF FirstInv, IInv
      <3>2. messages' # <<>> /\ messages'[1] = messages[1]
        BY <2>1, <3>1, FirstStays
      <3> QED
        BY <2>1, <3>2 DEF FirstInv, FirstIntact
    <2>2. CASE messages = <<>> /\ messages' # <<>>
      <3>1. ~ cut'
        BY <2>2, TakeCuts DEF FirstInv, FirstAhead
      <3>2. StreamInv'
        BY <1>2, <3>1
      <3>3. StreamInv' => FirstIntact'
        BY FirstTaken, PTL
      <3> QED
        BY <3>2, <3>3
    <2>3. CASE messages' = <<>>
      BY <2>3 DEF FirstIntact
    <2> QED
      BY <2>1, <2>2, <2>3
  <1> QED
    BY <1>1, <1>2, <1>3, <1>4 DEF FirstInv

\* The task between parsing and reading again sets the type.
LEMMA StepClassified == FirstInv /\ ClassifiedInTime /\ [Next]_vars => ClassifiedInTime'
  <1> SUFFICES ASSUME FirstInv, ClassifiedInTime, [Next]_vars PROVE ClassifiedInTime'
    OBVIOUS
  <1>1. CASE phase' # "loop"
    BY <1>1 DEF ClassifiedInTime
  <1>2. CASE ~ alive'
    BY <1>2 DEF ClassifiedInTime
  <1>3. CASE phase' = phase /\ messages' = messages /\ typed' = typed /\ alive' = alive
    BY <1>3 DEF ClassifiedInTime
  <1>4. CASE TaskProcess
    <2>1. messages' = messages
      BY <1>4 DEF TaskProcess
    <2>2. TypeOK /\ FirstIntact
      BY DEF FirstInv, IInv
    <2> QED
      BY <1>4, <2>1, <2>2, TaskStream DEF ClassifiedInTime
  <1>5. CASE ParsePacket
    <2>1. PICK size \in HeadSizes : Refuse(size) \/ Incomplete(size) \/ Take(size)
      BY <1>5 DEF ParsePacket
    <2>2. phase = "parse"
      BY <1>5 DEF ParsePacket
    <2>3. CASE Refuse(size)
      BY <1>2, <2>3 DEF Refuse, Close
    <2>4. CASE Incomplete(size)
      BY <1>1, <2>4 DEF Incomplete
    <2>5. CASE Take(size)
      BY <1>1, <2>2, <2>5 DEF Take
    <2> QED
      BY <2>1, <2>3, <2>4, <2>5
  <1>6. CASE EndParse
    BY <1>1, <1>6 DEF EndParse
  <1>7. CASE Read
    BY <1>1, <1>2, <1>7 DEF Read, HandleEof, HandleRead, Close
  <1>8. CASE Disconnect
    BY <1>2, <1>8 DEF Disconnect, Close
  <1>9. CASE UNCHANGED vars
    BY <1>3, <1>9 DEF vars, receiver
  <1> QED
    BY <1>3, <1>4, <1>5, <1>6, <1>7, <1>8, <1>9
       DEF Next, SendData, Write, HandleWrite, SendFails, Break, receiver

\* A session that has given its first packet to a handler has its protocol
\* type before the next one is parsed, whatever else happens to the stream: the
\* first packet is never cut.
THEOREM SessionsClassified == Spec => []ClassifiedInTime
  <1>1. Init => FirstInv /\ ClassifiedInTime
    <2> SUFFICES ASSUME Init PROVE FirstInv /\ ClassifiedInTime
      OBVIOUS
    <2>1. IInv /\ StreamInv
      BY InitIInv, InitStream
    <2>2. messages = <<>> /\ in.head = 0 /\ ~ cut
      BY DEF Init, NewBuffer
    <2> QED
      BY <2>1, <2>2 DEF FirstInv, FirstAhead, FirstIntact, ClassifiedInTime
  <1> QED
    BY <1>1, StepFirst, StepClassified, PTL DEF Spec

\* What the channel has received, and its state.
Received == [i \in DOMAIN messages |-> IF i \in DOMAIN sent /\ messages[i] = Body(i) THEN sent[i] ELSE 0]
State == IF ~alive THEN "closed" ELSE IF sending THEN "open" ELSE "broken"

\* What is received is what was sent first.
LEMMA ReceivedSent ==
    ASSUME StreamInv
    PROVE  Received = [i \in 1..Len(messages) |-> sent[i]]
  <1>1. DOMAIN messages = 1..Len(messages)
    BY StreamTypes, LenProperties
  <1>2. \A i \in DOMAIN messages : i \in DOMAIN sent /\ messages[i] = Body(i)
    BY DEF StreamInv, MessagesIntact
  <1> QED
    BY <1>1, <1>2 DEF Received

\* Every step is one of the channel's, or none.
LEMMA ChannelStep ==
    ASSUME StreamInv, StreamInv', [Next]_vars
    PROVE  \/ \E p \in {size + ExtraSize : size \in Sizes} :
                 sent' = Append(sent, p) /\ Received' = Received /\ State' = State
           \/ /\ State # "closed" /\ Len(Received) < Len(sent)
              /\ Received' = Append(Received, sent[Len(Received) + 1])
              /\ sent' = sent /\ State' = State
           \/ State = "open" /\ State' = "broken" /\ sent' = sent /\ Received' = Received
           \/ State # "closed" /\ State' = "closed" /\ sent' = sent /\ Received' = Received
           \/ sent' = sent /\ Received' = Received /\ State' = State
  <1>1. Received = [i \in 1..Len(messages) |-> sent[i]]
    BY ReceivedSent
  <1>2. Received' = [i \in 1..Len(messages') |-> sent'[i]]
    <2>1. DOMAIN messages' = 1..Len(messages')
      <3>1. messages' \in Seq(Seq(Bytes))
        BY DEF StreamInv, IInv, TypeOK
      <3> QED
        BY <3>1, LenProperties
    <2>2. \A i \in DOMAIN messages' : i \in DOMAIN sent' /\ messages'[i] = Body(i)'
      BY DEF StreamInv, MessagesIntact
    <2> QED
      BY <2>1, <2>2 DEF Received
  <1>3. ASSUME messages' = messages, sent' = sent PROVE Received' = Received
    BY <1>1, <1>2, <1>3
  <1>4. CASE \E size \in Sizes : SendData(size)
    <2>1. PICK size \in Sizes : SendData(size)
      BY <1>4
    <2>2. sent' = Append(sent, size + ExtraSize) /\ messages' = messages /\ alive' = alive /\ sending' = sending
      BY <2>1 DEF SendData, receiver
    <2>3. \A i \in 1..Len(messages) : sent'[i] = sent[i]
      <3>1. \A i \in 1..Len(sent) : sent'[i] = sent[i]
        <4>1. sent \in Seq(Nat) /\ size + ExtraSize \in Nat
          BY StreamTypes, Numbers
        <4> QED
          BY <2>2, <4>1, AppendProperties
      <3>2. Len(messages) <= Len(sent) /\ Len(messages) \in Nat /\ Len(sent) \in Nat
        BY StreamTypes
      <3> QED
        BY <3>1, <3>2
    <2>4. Received' = Received
      BY <1>1, <1>2, <2>2, <2>3
    <2>5. State' = State
      BY <2>2 DEF State
    <2> QED
      BY <2>2, <2>4, <2>5
  <1>5. CASE Write \/ EndParse \/ TaskProcess \/ UNCHANGED vars \/ \E n \in 1..Len(pipe) : HandleRead(n)
    <2>1. sent' = sent /\ messages' = messages /\ alive' = alive /\ sending' = sending
      BY <1>5 DEF Write, HandleWrite, EndParse, TaskProcess, HandleRead, vars, sender, kernels, receiver
    <2> QED
      BY <1>3, <2>1 DEF State
  <1>6. CASE SendFails \/ \E k \in 0..Len(pipe) : Break(k)
    <2>1. sent' = sent /\ messages' = messages /\ alive' = alive /\ sending /\ ~ sending'
      BY <1>6 DEF SendFails, Break, receiver
    <2> QED
      BY <1>3, <2>1 DEF State
  <1>7. ASSUME Close, alive
        PROVE  State # "closed" /\ State' = "closed" /\ sent' = sent /\ Received' = Received
    <2>1. sent' = sent /\ messages' = messages /\ ~ alive'
      BY <1>7 DEF Close
    <2> QED
      BY <1>3, <1>7, <2>1 DEF State
  <1>8. CASE HandleEof \/ Disconnect
    BY <1>7, <1>8 DEF HandleEof, Disconnect
  <1>9. CASE ParsePacket
    <2>1. PICK size \in HeadSizes : Refuse(size) \/ Incomplete(size) \/ Take(size)
      BY <1>9 DEF ParsePacket
    <2>2. alive /\ Size(in) > HeadSize
      BY <1>9 DEF ParsePacket
    <2>3. CASE Refuse(size)
      BY <1>7, <2>2, <2>3 DEF Refuse
    <2>4. CASE Incomplete(size)
      <3>1. sent' = sent /\ messages' = messages /\ alive' = alive /\ sending' = sending
        BY <2>4 DEF Incomplete, sender, kernels
      <3> QED
        BY <1>3, <3>1 DEF State
    <2>5. CASE Take(size)
      <3>1. PICK m \in Nat : m = Len(messages) /\ m < Len(sent) /\ Len(sent) \in Nat
        <4>1. Len(messages) < Len(sent) /\ Len(sent) \in Nat /\ Len(messages) \in Nat
          BY <2>2, NextPacket, StreamTypes
        <4> QED
          BY <4>1, Zenon
      <3>2. sent' = sent /\ alive' = alive /\ sending' = sending
        BY <2>5 DEF Take, sender
      <3>3. Len(messages') = m + 1
        <4>1. messages \in Seq(Seq(Bytes))
          BY StreamTypes
        <4> QED
          BY <2>5, <3>1, <4>1 DEF Take
      <3>4. PICK a \in Seq(Nat), b \in Seq(Nat) :
                /\ a = Received /\ Len(a) = m /\ \A i \in 1..m : a[i] = sent[i]
                /\ b = Received' /\ Len(b) = m + 1 /\ \A i \in 1..(m + 1) : b[i] = sent[i]
        <4>1. \A i \in 1..(m + 1) : sent[i] \in Nat
          <5>1. \A i \in 1..(m + 1) : i \in 1..Len(sent)
            BY <3>1
          <5>2. sent \in Seq(Nat)
            BY StreamTypes
          <5> QED
            BY <5>1, <5>2
        <4>2. PICK a : a = [i \in 1..m |-> sent[i]]
          OBVIOUS
        <4>3. a \in Seq(Nat) /\ Len(a) = m /\ \A i \in 1..m : a[i] = sent[i]
          BY <4>1, <4>2
        <4>4. PICK b : b = [i \in 1..(m + 1) |-> sent[i]]
          OBVIOUS
        <4>5. b \in Seq(Nat) /\ Len(b) = m + 1 /\ \A i \in 1..(m + 1) : b[i] = sent[i]
          BY <4>1, <4>4
        <4>6. a = Received /\ b = Received'
          BY <1>1, <1>2, <3>1, <3>2, <3>3, <4>2, <4>4
        <4> QED
          BY <4>3, <4>5, <4>6
      <3>5. b = Append(a, sent[m + 1])
        <4>1. \A i \in 1..m : b[i] = a[i]
          BY <3>4
        <4>2. b[m + 1] = sent[m + 1] /\ sent[m + 1] \in Nat
          BY <3>4
        <4> QED
          BY <3>4, <4>1, <4>2
      <3> QED
        BY <2>2, <3>1, <3>2, <3>4, <3>5 DEF State
    <2> QED
      BY <2>1, <2>3, <2>4, <2>5
  <1> QED
    BY <1>4, <1>5, <1>6, <1>8, <1>9 DEF Next, Read

\* Until bytes are cut off the stream implements the channel, its liveness apart:
\* packets are received in the order in which they were sent, each one once and
\* as it was sent.
THEOREM ChannelImplemented == Spec => ChannelUntilCut
  <1>1. Init => Channel!Init
    <2> SUFFICES ASSUME Init PROVE Channel!Init
      OBVIOUS
    <2>1. sent = <<>> /\ messages = <<>> /\ alive = TRUE /\ sending = TRUE
      BY DEF Init
    <2>2. Received = <<>>
      BY <2>1 DEF Received
    <2> QED
      BY <2>1, <2>2 DEF Channel!Init, Received
  <1>2. StreamInv /\ StreamInv' /\ [Next]_vars => [Channel!Next]_(Channel!vars)
    <2> SUFFICES ASSUME StreamInv, StreamInv', [Next]_vars
                 PROVE  Channel!Next \/ UNCHANGED Channel!vars
      OBVIOUS
    <2>1. \/ \E p \in {size + ExtraSize : size \in Sizes} :
                 sent' = Append(sent, p) /\ Received' = Received /\ State' = State
          \/ /\ State # "closed" /\ Len(Received) < Len(sent)
             /\ Received' = Append(Received, sent[Len(Received) + 1])
             /\ sent' = sent /\ State' = State
          \/ State = "open" /\ State' = "broken" /\ sent' = sent /\ Received' = Received
          \/ State # "closed" /\ State' = "closed" /\ sent' = sent /\ Received' = Received
          \/ sent' = sent /\ Received' = Received /\ State' = State
      BY ChannelStep
    <2> QED
      BY <2>1, Zenon DEF Received, State, Channel!Next, Channel!Send, Channel!Receive, Channel!Break, Channel!Close, Channel!vars
  <1>3. (cut \/ StreamInv) /\ [Next]_vars => [cut' \/ [Channel!Next]_(Channel!vars)]_vars
    <2>1. [Next]_vars /\ ~ cut' => ~ cut
      BY CutStays
    <2> QED
      BY <1>2, <2>1, StepStream
  <1> QED
    BY <1>1, <1>3, StreamInductive, PTL DEF Spec, ChannelUntilCut
=============================================================================
