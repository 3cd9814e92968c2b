----------------------------- MODULE MCExporter -----------------------------
(* A served request and a client call, a queue of three, batches of two:   *)
(* the queue overflows, and batches mix the observations of both.          *)
EXTENDS Exporter

CONSTANTS q1, c1

ServedRequest == {q1}
OneCall == {c1}
=============================================================================
