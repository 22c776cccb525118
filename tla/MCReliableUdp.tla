--------------------------- MODULE MCReliableUdp ---------------------------
(* Instances of ReliableUdp for TLC: two endpoints, small windows.         *)
EXTENDS ReliableUdp, TLC

CONSTANTS nodeA, nodeB   \* the endpoints

\* What the two send, or have in flight.
AtMost(x, y) == (nodeA :> x) @@ (nodeB :> y)
Zero_Zero == AtMost(0, 0)
Zero_One == AtMost(0, 1)
Two_Zero == AtMost(2, 0)
Four_Zero == AtMost(4, 0)
One_One == AtMost(1, 1)
Two_One == AtMost(2, 1)
=============================================================================
