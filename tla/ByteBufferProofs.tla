-------------------------- MODULE ByteBufferProofs --------------------------
(***************************************************************************)
(* What the operations of NDByteBufferImpl keep, for all capacities and    *)
(* data: a buffer with its data in one piece stays so.                     *)
(***************************************************************************)
EXTENDS ByteBuffer, TLAPS

\* Numbers below the capacity stay what they are.
LEMMA ModBelow ==
    ASSUME NEW c \in Nat, NEW n \in Nat, n < c
    PROVE  n % c = n
  BY SMT

\* Rounding up to a multiple of Align does not make smaller.
LEMMA AlignedUp ==
    ASSUME NEW n \in Nat
    PROVE  Aligned(n) \in Nat /\ Aligned(n) >= n
  BY SMT DEF Aligned, Align

\* The rest of a sequence.
LEMMA RestType ==
    ASSUME NEW S, NEW s \in Seq(S), NEW n \in Nat, n < Len(s)
    PROVE  /\ SubSeq(s, n + 1, Len(s)) \in Seq(S)
           /\ Len(SubSeq(s, n + 1, Len(s))) = Len(s) - n
  <1>1. Len(s) \in Nat
    OBVIOUS
  <1>2. \A i \in (n + 1)..Len(s) : s[i] \in S
    BY <1>1, SMT
  <1> QED
    BY <1>1, <1>2, SMT

\* The first bytes of a sequence.
LEMMA FrontType ==
    ASSUME NEW S, NEW s \in Seq(S), NEW n \in Nat, n <= Len(s)
    PROVE  SubSeq(s, 1, n) \in Seq(S) /\ Len(SubSeq(s, 1, n)) = n
  <1>1. \A i \in 1..n : s[i] \in S
    BY SMT
  <1> QED
    BY <1>1, SMT

\* A new buffer is in one piece.
LEMMA NewLinear ==
    ASSUME NEW S, NEW c \in Nat
    PROVE  NewBuffer(c) \in Buffer(S) /\ Linear(NewBuffer(c))
  BY SMT DEF NewBuffer, Buffer, Linear, Size

\* Reading from the front keeps a buffer in one piece (ReadIntactBuffer).
LEMMA DropLinear ==
    ASSUME NEW S, NEW b \in Buffer(S), Linear(b), NEW n \in Nat
    PROVE  Drop(b, n) \in Buffer(S) /\ Linear(Drop(b, n))
  <1>1. CASE n < Size(b)
    <2> DEFINE rest == SubSeq(b.data, n + 1, Len(b.data))
    <2>1. b.data \in Seq(S) /\ b.capacity \in Nat /\ b.head \in Nat /\ b.tail \in Nat
      BY DEF Buffer
    <2>2. rest \in Seq(S) /\ Len(rest) = Size(b) - n
      BY <1>1, <2>1, RestType DEF Size
    <2>3. b.head + n < b.capacity /\ b.head + n \in Nat
      BY <1>1, <2>1, SMT DEF Linear, Size
    <2>4. (b.head + n) % b.capacity = b.head + n
      BY <2>1, <2>3, ModBelow
    <2>5. Drop(b, n) = [b EXCEPT !.head = b.head + n, !.data = rest]
      BY <1>1, <2>4 DEF Drop
    <2> HIDE DEF rest
    <2>6. Drop(b, n) = [capacity |-> b.capacity, head |-> b.head + n,
                        tail |-> b.tail, data |-> rest]
      BY <2>5 DEF Buffer
    <2>7. Drop(b, n) \in Buffer(S)
      BY <2>1, <2>2, <2>3, <2>6 DEF Buffer
    <2>8. Len(b.data) \in Nat /\ Size(b) = Len(b.data) /\ Size(Drop(b, n)) = Len(b.data) - n
      BY <2>1, <2>2, <2>6 DEF Size
    <2>9. /\ Drop(b, n).head = b.head + n /\ Drop(b, n).tail = b.tail
          /\ Drop(b, n).capacity = b.capacity
      BY <2>6
    <2> QED
      BY <1>1, <2>1, <2>7, <2>8, <2>9, SMT DEF Linear
  <1>2. CASE ~(n < Size(b))
    BY <1>2, NewLinear DEF Drop, Buffer
  <1> QED
    BY <1>1, <1>2

\* SetReadBufSize keeps a buffer in one piece.
THEOREM ReadKeepsLinear ==
    ASSUME NEW S, NEW b \in Buffer(S), Linear(b), NEW n \in Nat
    PROVE  SetReadBufSize(b, n) \in Buffer(S) /\ Linear(SetReadBufSize(b, n))
  BY DropLinear DEF SetReadBufSize

\* A larger block holds the same data in one piece.
LEMMA ReSetLinear ==
    ASSUME NEW S, NEW b \in Buffer(S), Linear(b), NEW n \in Nat
    PROVE  /\ ReSet(b, n) \in Buffer(S) /\ Linear(ReSet(b, n))
           /\ ReSet(b, n).capacity >= n
           /\ ReSet(b, n).data = b.data
  <1>1. b.data \in Seq(S) /\ b.capacity \in Nat /\ b.head \in Nat /\ b.tail \in Nat
    BY DEF Buffer
  <1>2. CASE n <= b.capacity
    BY <1>1, <1>2, SMT DEF ReSet
  <1>3. CASE ~(n <= b.capacity)
    <2>1. Aligned(n) \in Nat /\ Aligned(n) >= n
      BY AlignedUp
    <2>2. ReSet(b, n) = [capacity |-> Aligned(n), head |-> 0, tail |-> Len(b.data), data |-> b.data]
      BY <1>3 DEF ReSet, Size
    <2> QED
      BY <1>1, <1>3, <2>1, <2>2, SMT DEF Buffer, Linear, Size
  <1> QED
    BY <1>2, <1>3

\* After Grow there is room for n more bytes, and the data is what it was.
LEMMA GrowLinear ==
    ASSUME NEW S, NEW b \in Buffer(S), Linear(b), NEW n \in Nat
    PROVE  /\ Grow(b, n) \in Buffer(S) /\ Linear(Grow(b, n))
           /\ Grow(b, n).data = b.data
           /\ Size(b) + n <= Grow(b, n).capacity
  <1>1. b.data \in Seq(S) /\ b.capacity \in Nat /\ b.head \in Nat /\ b.tail \in Nat
    BY DEF Buffer
  <1>2. Size(b) \in Nat /\ Size(b) <= b.capacity
    BY <1>1, SMT DEF Linear, Size
  <1>3. CASE n <= Space(b)
    BY <1>1, <1>2, <1>3, SMT DEF Grow, Space
  <1>4. CASE ~(n <= Space(b))
    <2> DEFINE c == IF n > b.capacity THEN b.capacity + n ELSE b.capacity * 2
    <2>1. c \in Nat /\ Size(b) + n <= c
      BY <1>1, <1>2, SMT
    <2>2. Grow(b, n) = ReSet(b, c)
      BY <1>4 DEF Grow
    <2> HIDE DEF c
    <2>3. /\ ReSet(b, c) \in Buffer(S) /\ Linear(ReSet(b, c))
          /\ ReSet(b, c).capacity >= c /\ ReSet(b, c).data = b.data
      BY <2>1, ReSetLinear
    <2>4. ReSet(b, c).capacity \in Nat
      BY <2>3 DEF Buffer
    <2> QED
      BY <1>2, <2>1, <2>2, <2>3, <2>4, SMT
  <1> QED
    BY <1>3, <1>4

\* Received bytes are kept in one piece, those that do not fit cut off.
THEOREM ReceiveKeepsLinear ==
    ASSUME NEW S, NEW b \in Buffer(S), Linear(b), NEW bytes \in Seq(S)
    PROVE  /\ SetWriteBufSize(b, bytes) \in Buffer(S)
           /\ Linear(SetWriteBufSize(b, bytes))
  <1> DEFINE room == b.capacity - b.tail
             kept == IF Len(bytes) >= room THEN SubSeq(bytes, 1, room) ELSE bytes
  <1>1. b.data \in Seq(S) /\ b.capacity \in Nat /\ b.head \in Nat /\ b.tail \in Nat
    BY DEF Buffer
  <1>2. room \in Nat /\ b.head <= b.tail
    BY <1>1, SMT DEF Linear, Size
  <1>3. kept \in Seq(S) /\ Len(kept) \in Nat /\ Len(kept) <= room
    <2>1. CASE Len(bytes) >= room
      BY <1>2, <2>1, FrontType, SMT
    <2>2. CASE ~(Len(bytes) >= room)
      BY <1>2, <2>2, SMT
    <2> QED
      BY <2>1, <2>2
  <1>4. SetWriteBufSize(b, bytes) = [b EXCEPT !.tail = b.tail + Len(kept), !.data = b.data \o kept]
    BY <1>1, <1>2, SMT DEF SetWriteBufSize
  <1> HIDE DEF kept
  <1>5. SetWriteBufSize(b, bytes) = [capacity |-> b.capacity, head |-> b.head,
                                     tail |-> b.tail + Len(kept), data |-> b.data \o kept]
    BY <1>4 DEF Buffer
  <1>6. b.data \o kept \in Seq(S) /\ Len(b.data \o kept) = Len(b.data) + Len(kept)
    BY <1>1, <1>3, SMT
  <1> QED
    BY <1>1, <1>2, <1>3, <1>5, <1>6, SMT DEF Buffer, Linear, Size

\* A packet is written in one piece behind the data, and nothing of it is lost.
THEOREM WriteKeepsLinear ==
    ASSUME NEW S, NEW b \in Buffer(S), Linear(b), NEW bytes \in Seq(S)
    PROVE  /\ WriteBuffer(b, bytes) \in Buffer(S)
           /\ Linear(WriteBuffer(b, bytes))
           /\ WriteBuffer(b, bytes).data = b.data \o bytes
  <1> DEFINE n == Len(bytes)
             g == Grow(b, n)
             m == IF g.tail > g.head /\ g.capacity - g.tail < n
                  THEN [g EXCEPT !.head = 0, !.tail = Size(g)]
                  ELSE g
  <1>1. n \in Nat /\ b.data \in Seq(S)
    BY DEF Buffer
  <1>2. /\ g \in Buffer(S) /\ Linear(g) /\ g.data = b.data
        /\ Size(b) + n <= g.capacity
    BY <1>1, GrowLinear
  <1>3. WriteBuffer(b, bytes) = [m EXCEPT !.tail = m.tail + n, !.data = m.data \o bytes]
    BY DEF WriteBuffer
  <1> HIDE DEF g
  <1>4. /\ g.capacity \in Nat /\ g.head \in Nat /\ g.tail \in Nat /\ g.data \in Seq(S)
        /\ Size(g) \in Nat /\ Size(g) = Size(b)
    BY <1>1, <1>2, SMT DEF Buffer, Size
  <1>5. /\ m \in Buffer(S) /\ Linear(m) /\ m.data = b.data /\ m.capacity = g.capacity
        /\ m.tail + n <= m.capacity
    <2>1. CASE g.tail > g.head /\ g.capacity - g.tail < n
      <3>1. m = [capacity |-> g.capacity, head |-> 0, tail |-> Size(g), data |-> g.data]
        BY <1>2, <2>1 DEF Buffer
      <3> HIDE DEF m
      <3> QED
        BY <1>1, <1>2, <1>4, <3>1, SMT DEF Buffer, Linear, Size
    <2>2. CASE ~(g.tail > g.head /\ g.capacity - g.tail < n)
      <3>1. m = g
        BY <2>2
      <3>2. g.tail + n <= g.capacity
        BY <1>1, <1>2, <1>4, <2>2, SMT DEF Linear
      <3> QED
        BY <1>2, <3>1, <3>2
    <2> QED
      BY <2>1, <2>2
  <1> HIDE DEF m, n
  <1>6. WriteBuffer(b, bytes) = [capacity |-> m.capacity, head |-> m.head,
                                 tail |-> m.tail + n, data |-> b.data \o bytes]
    BY <1>3, <1>5 DEF Buffer
  <1>7. /\ b.data \o bytes \in Seq(S) /\ Len(b.data \o bytes) = Len(b.data) + n
        /\ Len(b.data) \in Nat
    BY <1>1, SMT DEF n
  <1>8. m.capacity \in Nat /\ m.head \in Nat /\ m.tail \in Nat
    BY <1>5 DEF Buffer
  <1>9. WriteBuffer(b, bytes) \in Buffer(S)
    BY <1>1, <1>6, <1>7, <1>8 DEF Buffer
  <1>10. Size(m) = Len(b.data) /\ Size(WriteBuffer(b, bytes)) = Len(b.data) + n
    BY <1>5, <1>6, <1>7 DEF Size
  <1>11. /\ WriteBuffer(b, bytes).head = m.head /\ WriteBuffer(b, bytes).tail = m.tail + n
         /\ WriteBuffer(b, bytes).capacity = m.capacity
         /\ WriteBuffer(b, bytes).data = b.data \o bytes
    BY <1>6
  <1>12. Linear(WriteBuffer(b, bytes))
    <2>1. /\ m.head + Len(b.data) = m.tail /\ m.tail + n <= m.capacity
          /\ Len(b.data) = 0 => m.head = 0
      BY <1>5, <1>10 DEF Linear
    <2>2. Len(b.data) \in Nat
      BY <1>7
    <2> DEFINE w == WriteBuffer(b, bytes)
    <2>3. w.head = m.head /\ w.tail = m.tail + n /\ w.capacity = m.capacity /\ Size(w) = Len(b.data) + n
      BY <1>10, <1>11
    <2> HIDE DEF w
    <2>4. Linear(w)
      BY <1>1, <1>8, <2>1, <2>2, <2>3, SMT DEF Linear
    <2> QED
      BY <2>4 DEF w
  <1> QED
    BY <1>9, <1>11, <1>12
=============================================================================
