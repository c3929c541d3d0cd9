---------------------------- MODULE ByteBuffer ----------------------------
(***************************************************************************)
(* NDByteBufferImpl, the buffer a session sends from and receives into.    *)
(* A buffer is a record: its capacity, the positions of the head and the   *)
(* tail, and the data from the one to the other.  Everything a session     *)
(* does keeps the data in one piece, head before tail; WriteBytes, which   *)
(* the engine applies to fresh buffers only, can wrap the tail around.     *)
(***************************************************************************)
EXTENDS Integers, Sequences

Align == 4

Aligned(n) == ((n + Align - 1) \div Align) * Align

Buffer(S) == [capacity : Nat, head : Nat, tail : Nat, data : Seq(S)]

NewBuffer(capacity) == [capacity |-> capacity, head |-> 0, tail |-> 0, data |-> <<>>]

Size(b)  == Len(b.data)
Space(b) == b.capacity - Size(b)

\* In one piece inside the block; an empty buffer starts at position 0.
Linear(b) ==
    /\ b.head + Size(b) = b.tail
    /\ b.tail <= b.capacity
    /\ Size(b) = 0 => b.head = 0

\* Skips n bytes of the data; an empty buffer starts again at position 0.
Drop(b, n) ==
    IF n < Size(b)
    THEN [b EXCEPT !.head = (@ + n) % b.capacity, !.data = SubSeq(@, n + 1, Len(@))]
    ELSE NewBuffer(b.capacity)

\* Readers ask for no more than there is.
ReadIntactBuffer(b, n) == Drop(b, n)

\* All the data when that is not more than n.
SetReadBufSize(b, n) == IF b.head > b.tail THEN b ELSE Drop(b, n)

\* A larger block, to which the data is moved; a smaller one is refused.
ReSet(b, n) ==
    IF n <= b.capacity THEN b
    ELSE [capacity |-> Aligned(n), head |-> 0, tail |-> Size(b), data |-> b.data]

\* Room for n more bytes, somewhere.
Grow(b, n) ==
    IF n <= Space(b) THEN b
    ELSE ReSet(b, IF n > b.capacity THEN b.capacity + n ELSE b.capacity * 2)

\* Bytes were put behind the tail: those that the end of the block cuts off
\* do not count.
SetWriteBufSize(b, bytes) ==
    LET room == b.capacity - b.tail
        kept == IF Len(bytes) >= room THEN SubSeq(bytes, 1, room) ELSE bytes
    IN  IF b.head > b.tail THEN b
        ELSE [b EXCEPT !.tail = @ + Len(kept), !.data = @ \o kept]

\* WriteBuffer of a buffer: moves the data to the front when the room behind
\* the tail is too small.
WriteBuffer(b, bytes) ==
    LET g == Grow(b, Len(bytes))
        m == IF g.tail > g.head /\ g.capacity - g.tail < Len(bytes)
             THEN [g EXCEPT !.head = 0, !.tail = Size(g)]
             ELSE g
    IN  [m EXCEPT !.tail = @ + Len(bytes), !.data = @ \o bytes]

\* WriteBuffer of a string of bytes: goes on at the front.
WriteBytes(b, bytes) ==
    LET g    == Grow(b, Len(bytes))
        room == g.capacity - g.tail
    IN  [g EXCEPT !.tail = IF g.tail > g.head /\ room < Len(bytes)
                           THEN Len(bytes) - room
                           ELSE @ + Len(bytes),
                  !.data = @ \o bytes]
=============================================================================
