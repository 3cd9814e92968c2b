---------------------------- MODULE MCTelemetry ----------------------------
(***************************************************************************)
(* One order that failed, its trace across both services, and two later    *)
(* orders, in the batches the two exporters would post; and a query of     *)
(* each tool.                                                              *)
(***************************************************************************)
EXTENDS Telemetry

Measured(kind, service, at, span, parent, peer, error) ==
    [kind |-> kind, service |-> service, at |-> at, trace |-> "t1", span |-> span,
     parent |-> parent, peer |-> peer, error |-> error]

OrderSpan == Measured("span", "orders-service", 1, "s", "none", "none", TRUE)
CallSpan == Measured("span", "orders-service", 1, "c", "s", "inventory-service", TRUE)
StockSpan == Measured("span", "inventory-service", 1, "i", "c", "none", FALSE)
OrderMetric == Measured("metric", "orders-service", 2, "s", "none", "none", TRUE)
StockMetric == Measured("metric", "inventory-service", 3, "i", "c", "none", FALSE)
CallLog == Measured("log", "orders-service", 2, "c", "s", "inventory-service", TRUE)
OrderLog == Measured("log", "orders-service", 2, "s", "none", "none", TRUE)
LaterMetric(id) ==
    [Measured("metric", "orders-service", 2, id, "none", "none", FALSE) EXCEPT !.trace = id]

OrderBatch == {CallSpan, CallLog, OrderSpan, OrderMetric, OrderLog}
StockBatch == {StockSpan, StockMetric}
LaterBatch == {LaterMetric("t2"), LaterMetric("t3")}
ExportedBatches == {OrderBatch, StockBatch, LaterBatch}
MeasuredEvents == UNION ExportedBatches

Asked(tool, start, end, service) ==
    [tool |-> tool, start |-> start, end |-> end, service |-> service,
     trace |-> IF tool = "get_trace" THEN "t1" ELSE "any",
     level |-> IF tool = "search_logs" THEN "ERROR" ELSE "any", limit |-> 1]

SomeQueries ==
    {Asked("query_metrics", 1, 3, "orders-service"),
     Asked("get_service_health", 1, 4, "any"),
     Asked("get_service_map", 1, 3, "inventory-service"),
     Asked("search_logs", 1, 3, "orders-service"),
     Asked("get_trace", 1, 2, "any"), Asked("get_trace", 1, 3, "any")}
=============================================================================
