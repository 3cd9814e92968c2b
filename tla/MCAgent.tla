------------------------------ MODULE MCAgent ------------------------------
(***************************************************************************)
(* A small investigation for TLC: the snapshots one fixed window can give, *)
(* two reads of the same window that disagree because telemetry arrived    *)
(* late, and one identifier the model invents.                             *)
(***************************************************************************)
EXTENDS Agent

CONSTANTS t1, t2, forged

Snapshot(tool, available, orders, inventory, failed, linked) ==
    [tool |-> tool, available |-> available,
     samples |-> [s \in Services |-> IF s = "orders-service" THEN orders ELSE inventory],
     failed |-> failed, linked |-> linked]

\* get_service_health of both services, before and after the errors arrived,
\* and while inventory has no completed request.
HealthClean == Snapshot("get_service_health", TRUE, "clean", "clean", {}, {})
HealthErrors == Snapshot("get_service_health", TRUE, "errors", "clean", {}, {})
HealthHalf == Snapshot("get_service_health", TRUE, "clean", "none", {}, {})
\* query_metrics of inventory when the telemetry database cannot be read.
InventoryLost == Snapshot("query_metrics", FALSE, "absent", "none", {}, {})
\* search_logs with a failed order, get_trace of it and of another trace.
FailedLog == Snapshot("search_logs", TRUE, "absent", "absent", {t1}, {})
LinkedTrace == Snapshot("get_trace", TRUE, "absent", "absent", {}, {t1})
OtherTrace == Snapshot("get_trace", TRUE, "absent", "absent", {}, {t2})

WindowSnapshots == {HealthClean, HealthErrors, HealthHalf, InventoryLost,
                    FailedLog, LinkedTrace, OtherTrace}
ForgedIds == {forged}
=============================================================================
