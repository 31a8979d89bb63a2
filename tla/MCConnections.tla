---------------------------- MODULE MCConnections ----------------------------
\* Two outputs, one of which writes twice, and an input that is connected to
\* them by a circular buffer and by a data connection.
EXTENDS Connections

CONSTANTS out1, out2, in1, c1, c2, k1, k2

MCFrom == c1 :> out1 @@ c2 :> out2
MCTo == [c \in Channels |-> in1]
MCKind == c1 :> "circular" @@ c2 :> "data"
MCMaxSample == out1 :> 2 @@ out2 :> 1

\* The theorems of ConnectionsProofs apply.
ASSUME PortsAssumption == OnePerPair /\ Orderly

MCSymmetry == Permutations({k1, k2})
==============================================================================
