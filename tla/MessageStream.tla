--------------------------- MODULE MessageStream ---------------------------
(***************************************************************************)
(* One direction of a connection: the sending session's buffer and write   *)
(* events, the kernels between, the receiving session's buffer, and        *)
(* NDProtocolPacket::parsePacket, which cuts the stream into messages.     *)
(* Both ends run the loop of SessionManager, each in its own process.      *)
(*                                                                         *)
(* A byte is <<i, j>>, the j-th of the i-th packet; a packet is HeadSize   *)
(* bytes of NDProDataHead and a body.  A head that is in one piece tells   *)
(* its packet's size, any other HeadSize bytes tell anything.              *)
(***************************************************************************)
EXTENDS ByteBuffer, FiniteSets, SequencesExt

CONSTANTS
    Sizes,          \* sizes of the protocols that are sent
    HeadSize,       \* sizeof(NDProDataHead)
    ExtraSize,      \* what the check sum and the original size take in a body
    MaxBody,        \* MAX_MSGPACKET_SIZE
    SocketSendBuf,  \* m_nSocketSendBuf
    PipeMax,        \* bound: bytes the two kernels hold
    MaxSent,        \* bound: packets sent
    Links           \* the connections: the capacities the pool's buffers have
                    \* grown to; is a packet sent while one is on the way?

Capacities == {n \in Nat : n > 0 /\ n % Align = 0}

ASSUME StreamAssumption ==
    /\ Sizes \subseteq Nat \ {0}
    /\ {HeadSize, SocketSendBuf, PipeMax} \subseteq Nat \ {0}
    /\ {ExtraSize, MaxBody, MaxSent} \subseteq Nat
    /\ Links \subseteq [out : Capacities, in : Capacities, pipelined : BOOLEAN]

VARIABLES
    link,           \* which of Links it is; never changes
    sent,           \* the body sizes of the packets sent
    out,            \* m_pSendBuffer
    writeFlag,      \* EIOEventType_Write in m_nEventFlag
    watched,        \* is EPOLLOUT registered?
    sending,        \* m_bAlive and m_bSendPipe of the sending session
    pipe, eof,      \* bytes in the kernels; is their end behind them?
    in,             \* m_pRecvBuffer
    phase,          \* of the receiver: "loop", "parse" or "task"
    alive, typed,   \* m_bAlive; is m_nProtocolType set?
    first,          \* the call of parsePacket is one with m_nParsePacket = 0
    messages,       \* the bodies put in m_msgDeque so far
    cut             \* history, for the theorems: has handleRead thrown bytes away?

sender   == <<out, writeFlag, watched, sending>>
kernels  == <<pipe, eof>>
receiver == <<in, phase, alive, typed, first, messages>>
vars     == <<link, sent, sender, kernels, receiver, cut>>

PacketBytes(i, size) == [j \in 1..(HeadSize + size) |-> <<i, j>>]
Stream          == FlattenSeq([i \in DOMAIN sent |-> PacketBytes(i, sent[i])])
Body(i)         == SubSeq(PacketBytes(i, sent[i]), HeadSize + 1, HeadSize + sent[i])

Init ==
    /\ link \in Links
    /\ sent = <<>> /\ messages = <<>>
    /\ out = NewBuffer(link.out) /\ in = NewBuffer(link.in)
    /\ writeFlag = FALSE /\ watched = TRUE      \* registerReadWriteEvent
    /\ sending = TRUE /\ pipe = <<>> /\ eof = FALSE
    /\ phase = "loop" /\ alive = TRUE /\ typed = FALSE /\ first = TRUE
    /\ cut = FALSE

-----------------------------------------------------------------------------
(* The sending session. *)

OnTheWay == Len(sent) > Len(messages)

\* Mutant of SendData: the packet is put in byte by byte.
SendBytes(size) ==
    /\ Len(sent) < MaxSent /\ sending
    /\ link.pipelined \/ ~OnTheWay
    /\ size < MaxBody
    /\ sent' = Append(sent, size + ExtraSize)
    /\ out' = WriteBytes(out, PacketBytes(Len(sent'), size + ExtraSize))
    /\ writeFlag' = TRUE
    /\ watched' = (watched \/ ~writeFlag)
    /\ UNCHANGED <<link, cut, sending, kernels, receiver>>

\* Mutant of SendData: composePacket does not check the size.
SendAnySize(size) ==
    /\ Len(sent) < MaxSent /\ sending
    /\ link.pipelined \/ ~OnTheWay
    /\ sent' = Append(sent, size + ExtraSize)
    /\ out' = WriteBuffer(out, PacketBytes(Len(sent'), size + ExtraSize))
    /\ writeFlag' = TRUE
    /\ watched' = (watched \/ ~writeFlag)
    /\ UNCHANGED <<link, cut, sending, kernels, receiver>>

\* composePacket, sendData and registerWriteEvent.
SendData(size) ==
    /\ Len(sent) < MaxSent /\ sending
    /\ link.pipelined \/ ~OnTheWay
    /\ size < MaxBody
    /\ sent' = Append(sent, size + ExtraSize)
    /\ out' = WriteBuffer(out, PacketBytes(Len(sent'), size + ExtraSize))
    /\ writeFlag' = TRUE
    /\ watched' = (watched \/ ~writeFlag)
    /\ UNCHANGED <<link, cut, sending, kernels, receiver>>

\* Mutant of UnregisterWriteEvent: the flag stays.
UnwatchWriteEvent == watched' = FALSE /\ UNCHANGED writeFlag

UnregisterWriteEvent == writeFlag' = FALSE /\ watched' = FALSE

\* The kernel takes k bytes; nothing is left to write when it takes all.
HandleWrite(k) ==
    /\ sending /\ watched /\ Len(pipe) < PipeMax
    /\ k = 0 <=> Size(out) = 0
    /\ k <= Size(out) /\ k <= SocketSendBuf /\ Len(pipe) + k <= PipeMax
    /\ pipe' = IF alive THEN pipe \o SubSeq(out.data, 1, k) ELSE pipe
    /\ out' = SetReadBufSize(out, k)
    /\ IF Size(out) = k THEN UnregisterWriteEvent ELSE UNCHANGED <<writeFlag, watched>>
    /\ UNCHANGED <<link, cut, sent, sending, eof, receiver>>

\* send(2) fails: shutdownSendPipe; what the kernels have still arrives.
SendFails ==
    /\ sending /\ watched /\ Size(out) > 0
    /\ sending' = FALSE /\ eof' = TRUE
    /\ UNCHANGED <<link, cut, sent, out, writeFlag, watched, pipe, receiver>>

\* The sending end is closed, or the network fails: some of what the kernels
\* have may be lost.
Break(k) ==
    /\ sending
    /\ sending' = FALSE /\ eof' = TRUE
    /\ pipe' = SubSeq(pipe, 1, k)
    /\ UNCHANGED <<link, cut, sent, out, writeFlag, watched, receiver>>

-----------------------------------------------------------------------------
(* The receiving session. *)

\* The buffer has room for n bytes, but not behind its tail: the room before the
\* head counts, too.
CutsOff(n) == n <= Space(in) /\ n > in.capacity - in.tail

\* Mutant of HandleRead: the buffer is never made larger.
HandleReadFixed(n) ==
    /\ phase = "loop" /\ alive /\ n > 0
    /\ in' = SetWriteBufSize(in, SubSeq(pipe, 1, n))
    /\ pipe' = SubSeq(pipe, n + 1, Len(pipe))
    /\ phase' = "parse" /\ cut' = (cut \/ CutsOff(n))
    /\ UNCHANGED <<link, sent, sender, eof, alive, typed, first, messages>>

\* n bytes have arrived.
HandleRead(n) ==
    /\ phase = "loop" /\ alive /\ n > 0
    /\ LET room == IF n > Space(in) THEN ReSet(in, in.capacity + n) ELSE in
       IN  in' = SetWriteBufSize(room, SubSeq(pipe, 1, n))
    /\ pipe' = SubSeq(pipe, n + 1, Len(pipe))
    /\ phase' = "parse" /\ cut' = (cut \/ CutsOff(n))
    /\ UNCHANGED <<link, sent, sender, eof, alive, typed, first, messages>>

\* handleClose; close(2) throws unread bytes away.
Close ==
    /\ alive' = FALSE /\ pipe' = <<>>
    /\ UNCHANGED <<link, cut, sent, sender, eof, in, phase, typed, first, messages>>

HandleEof == phase = "loop" /\ alive /\ eof /\ pipe = <<>> /\ Close

\* By a handler, or because the peer has not answered a ping.
Disconnect == phase # "parse" /\ alive /\ Close

\* The next HeadSize bytes are the head of a packet as it was sent (and its
\* ND_PDHMSG_PROTO_NUM and check sum are right).
Intact ==
    LET i == in.data[1][1]
    IN  SubSeq(in.data, 1, HeadSize) = SubSeq(PacketBytes(i, sent[i]), 1, HeadSize)

\* What they tell of the body's size.
HeadSizes == {size \in 0..(MaxBody + ExtraSize) : Intact => size = sent[in.data[1][1]]}

\* One round of parsePacket's loop, on a head that tells size.
Refuse(size) ==
    /\ \/ size >= MaxBody
       \/ /\ Size(in) - HeadSize >= size
          /\ \/ ~Intact
             \/ ~first /\ ~typed    \* isSessionProtocolID
    /\ Close

\* Mutant of Incomplete: the head is not given back.
IncompleteRead(size) ==
    /\ size < MaxBody
    /\ Size(in) - HeadSize < size
    /\ phase' = "task" /\ first' = (messages = <<>>)
    /\ in' = ReadIntactBuffer(in, HeadSize)
    /\ UNCHANGED <<link, cut, sent, sender, kernels, alive, typed, messages>>

Incomplete(size) ==
    /\ size < MaxBody
    /\ Size(in) - HeadSize < size
    /\ phase' = "task" /\ first' = (messages = <<>>)
    /\ UNCHANGED <<link, cut, sent, sender, kernels, in, alive, typed, messages>>

Take(size) ==
    /\ size < MaxBody
    /\ Size(in) - HeadSize >= size
    /\ first \/ typed
    /\ LET rest == ReadIntactBuffer(in, HeadSize)
       IN  /\ messages' = Append(messages, SubSeq(rest.data, 1, size))
           /\ in' = SetReadBufSize(rest, size)
    /\ UNCHANGED <<link, cut, sent, sender, kernels, phase, alive, typed, first>>

\* Mutant of EndParse: messages wait for the next turn of the loop.
EndParseLate ==
    /\ phase = "parse" /\ alive
    /\ Size(in) <= HeadSize
    /\ phase' = "loop" /\ first' = (messages = <<>>)
    /\ UNCHANGED <<link, cut, sent, sender, kernels, in, alive, typed, messages>>

EndParse ==
    /\ phase = "parse" /\ alive
    /\ Size(in) <= HeadSize
    /\ phase' = "task" /\ first' = (messages = <<>>)
    /\ UNCHANGED <<link, cut, sent, sender, kernels, in, alive, typed, messages>>

ParsePacket ==
    /\ phase = "parse" /\ alive
    /\ Size(in) > HeadSize
    /\ \E size \in HeadSizes : Refuse(size) \/ Incomplete(size) \/ Take(size)

\* taskProcess: the handler of a connection's first packet, a registration or
\* a login, sets the session's protocol type.
TaskProcess ==
    /\ phase = "task" /\ alive
    /\ typed' = (typed \/ \E i \in DOMAIN messages : messages[i] # <<>> /\ messages[i][1][1] = 1)
    /\ phase' = "loop"
    /\ UNCHANGED <<link, cut, sent, sender, kernels, in, alive, first, messages>>

-----------------------------------------------------------------------------
Write == \E k \in 0..SocketSendBuf : HandleWrite(k)
Read  == HandleEof \/ \E n \in 1..Len(pipe) : HandleRead(n)

Next ==
    \/ \E size \in Sizes : SendData(size)
    \/ Write \/ Read \/ ParsePacket \/ EndParse \/ TaskProcess
    \/ SendFails \/ \E k \in 0..Len(pipe) : Break(k)
    \/ Disconnect

Spec == Init /\ [][Next]_vars

\* Both processes go on turning their loops, and epoll reports whatever is
\* watched and possible.
Fairness ==
    /\ WF_vars(Write) /\ WF_vars(Read)
    /\ WF_vars(ParsePacket) /\ WF_vars(EndParse) /\ WF_vars(TaskProcess)

LiveSpec == Spec /\ Fairness

-----------------------------------------------------------------------------
Bytes  == (1..MaxSent) \X (1..(HeadSize + MaxBody + ExtraSize - 1))

\* Types of all variables.
TypeOK ==
    /\ link \in Links
    /\ sent \in Seq(Nat) /\ Len(sent) <= MaxSent
    /\ out \in Buffer(Bytes) /\ in \in Buffer(Bytes)
    /\ pipe \in Seq(Bytes) /\ Len(pipe) <= PipeMax
    /\ {writeFlag, watched, sending, eof, alive, typed, first, cut} \subseteq BOOLEAN
    /\ phase \in {"loop", "parse", "task"}
    /\ messages \in Seq(Seq(Bytes))
    /\ \A i \in DOMAIN messages : Len(messages[i]) < MaxBody

\* The data of a session's buffer is in one piece inside the block, which is
\* what SetReadBufSize and SetWriteBufSize take for granted ("the tail must be
\* behind the head"); an empty buffer starts at its front, or the next packet
\* could be written behind its end.
BuffersLinear == Linear(in) /\ Linear(out)

Parsed == FlattenSeq([i \in DOMAIN messages |-> PacketBytes(i, sent[i])])

\* Nothing is lost, doubled or reordered between the two buffers: behind the
\* packets already parsed, the receive buffer, the kernels and the send
\* buffer hold the rest of the stream; of a broken connection, a part of it
\* from the front.
NothingLost ==
    alive => LET rest == in.data \o pipe \o out.data
             IN  IF sending
                 THEN Parsed \o rest = Stream
                 ELSE IsPrefix(Parsed \o in.data \o pipe, Stream)

\* A session with something to send is watched for EPOLLOUT, although
\* registerWriteEvent does nothing while m_nEventFlag says that it is.
WriteWatched == sending /\ Size(out) > 0 => watched

\* Every message is the body of the packet sent at its place in the stream.
MessagesIntact ==
    \A i \in DOMAIN messages : i \in DOMAIN sent /\ messages[i] = Body(i)

\* When the loop reads again, the session that has sent its first packet has
\* its protocol type: isSessionProtocolID refuses the second packet of a
\* session without one.
ClassifiedInTime == phase = "loop" /\ alive /\ messages # <<>> => typed

Channel == INSTANCE PacketChannel WITH
    Packet   <- {size + ExtraSize : size \in Sizes},
    received <- [i \in DOMAIN messages |->
                    IF i \in DOMAIN sent /\ messages[i] = Body(i) THEN sent[i] ELSE 0],
    state    <- IF ~alive THEN "closed" ELSE IF sending THEN "open" ELSE "broken"

\* The stream implements the channel: while the connection holds, all packets
\* arrive, as they were sent.
ImplementsChannel == Channel!LiveSpec

\* Whatever the buffers' sizes, every step is one of the channel's until bytes are
\* cut off.
ChannelUntilCut == Channel!Init /\ [][cut' \/ [Channel!Next]_(Channel!vars)]_vars
=============================================================================
