--------------------------- MODULE MCMessageStream ---------------------------
EXTENDS MessageStream

\* Request and answer over small buffers; and a burst that fits the receiver's.
SafeLinks  == {[out |-> 4, in |-> 4, pipelined |-> FALSE],
               [out |-> 8, in |-> 24, pipelined |-> TRUE]}
\* A burst that does not.
TightLinks == {[out |-> 8, in |-> 8, pipelined |-> TRUE]}
=============================================================================
