--------------------------- MODULE MCDemoControls ---------------------------
(* Two concurrent requests, and three measurements of a window: clean,     *)
(* failing, and unavailable.                                               *)
EXTENDS DemoControls

CONSTANTS c1, c2

TwoClients == {c1, c2}

Reading(available, requests, errors) ==
    [s \in Services |-> [available |-> available, requests |-> requests,
                         errors |-> IF s = "orders-service" THEN errors ELSE 0]]

\* The ratio of 13 to 10 requests is the largest accepted one.
Clean == Reading(TRUE, 13, 0)
Failing == Reading(TRUE, 10, 10)
Missing == Reading(FALSE, 0, 0)
ThreeReadings == {Clean, Failing, Missing}
=============================================================================
