-------------------------- MODULE MCHttpTransport --------------------------
EXTENDS HttpTransport

CONSTANTS p1, a1, a2

OnePeer == {p1}
TwoAddrs == {a1, a2}
AtFirst == [p \in Peer |-> a1]
=============================================================================
