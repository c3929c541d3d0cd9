--------------------------- MODULE PacketChannel ---------------------------
(***************************************************************************)
(* What a connection promises the two processes that talk over it: packets *)
(* are received in the order in which they were sent, each one once and as *)
(* it was sent; all of them unless the connection breaks.                  *)
(***************************************************************************)
EXTENDS Integers, Sequences

CONSTANT Packet

VARIABLES sent, received, state

vars == <<sent, received, state>>

Init == sent = <<>> /\ received = <<>> /\ state = "open"

Send(p) ==
    /\ sent' = Append(sent, p)
    /\ UNCHANGED <<received, state>>

Receive ==
    /\ state # "closed"
    /\ Len(received) < Len(sent)
    /\ received' = Append(received, sent[Len(received) + 1])
    /\ UNCHANGED <<sent, state>>

\* The sending end is gone; what is on the way may arrive or not.
Break ==
    /\ state = "open" /\ state' = "broken"
    /\ UNCHANGED <<sent, received>>

Close ==
    /\ state # "closed" /\ state' = "closed"
    /\ UNCHANGED <<sent, received>>

Next == (\E p \in Packet : Send(p)) \/ Receive \/ Break \/ Close

Spec == Init /\ [][Next]_vars

\* Nothing waits for ever in a connection that stays open: weak fairness of
\* Receive, with what enables it written out.
LiveSpec ==
    /\ Spec
    /\ \/ []<>(state # "open" \/ Len(received) = Len(sent))
       \/ []<><<Receive>>_vars
=============================================================================
