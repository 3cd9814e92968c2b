--------------------------- MODULE MCRequestPath ---------------------------
(* One order, with and without a trace of its caller; a tick is 200 ms.    *)
EXTENDS RequestPath

CONSTANTS r1, t1, s1

OneRequest == {r1}
OneCaller == {[trace |-> t1, span |-> s1]}
=============================================================================
