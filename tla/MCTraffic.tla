----------------------------- MODULE MCTraffic -----------------------------
(* Two browsers switch the traffic; two requests in flight, three loops.   *)
EXTENDS Traffic

CONSTANTS c1, c2

TwoClients == {c1, c2}
=============================================================================
