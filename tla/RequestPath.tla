---------------------------- MODULE RequestPath ----------------------------
(***************************************************************************)
(* An order across both Java services: OrdersController.order, its call to *)
(* InventoryController.inventory, and TelemetryFilter around each of them. *)
(* One thread serves a request in each service.  The caller of inventory   *)
(* gives up after Timeout; inventory goes on and records what it did.      *)
(*                                                                         *)
(* The operator's reset is here for its timing: the console clears the     *)
(* delay and has the recovery window begin Settle after the answer.        *)
(*                                                                         *)
(* Time is counted in ticks since something began, as far as it matters.   *)
(* A thread that has something to do does it within Slack ticks.           *)
(***************************************************************************)
EXTENDS Naturals, FiniteSets

CONSTANTS
    Requests,        \* orders
    CallerContexts,  \* what a caller may send as traceparent: [trace, span]
    NoHeader,        \* no traceparent, or one that does not parse
    NoSpan,          \* parentSpanId null
    ConnectTimeout,  \* connectTimeout of the client (400 ms)
    Timeout,         \* TIMEOUT_MS (600 ms)
    Delay,           \* how long a delayed inventory request takes (1800 ms)
    Settle,          \* what a reset waits for requests under way (3 s)
    Slack,           \* how late a thread may be
    MaxStops         \* bound on the services stopped

ASSUME RequestPathAssumption ==
    /\ {ConnectTimeout, Timeout, Delay, Settle, Slack, MaxStops} \subseteq Nat
    /\ ConnectTimeout <= Timeout /\ Timeout <= Delay
    /\ Delay + Slack < Settle

\* The traces there can be: a caller's, or one that an order begins.
TraceIds == {h.trace : h \in CallerContexts} \cup (Requests \X {"orders"})

\* A caller sends a trace and a span; and what the client sends of its own span
\* always parses, because newId never yields zeros (TraceContext.java:25-30).
ASSUME ContextAssumption ==
    /\ \A h \in CallerContexts : h = [trace |-> h.trace, span |-> h.span]
    /\ NoHeader \notin [trace : TraceIds, span : Requests \X {"client"},
                        parent : Requests \X {"orders"}]

Services == {"orders", "inventory"}

VARIABLES
    opc,       \* orders thread: "idle", "sending", "settled", "answering", "done", "dead"
    context,   \* the TraceContext of the order's server span
    age,       \* ticks since it sent its call to inventory
    outcome,   \* how that call ended
    ipc,       \* inventory: "none", "wire", "lost", "asleep", "answered", "broken", "done", "dead"
    slow,      \* the request read the delay as on
    spent,     \* ticks since inventory accepted it
    answer,    \* the status inventory has answered with; 0 if it has not, or cannot
    recorded,  \* what the services passed to telemetry.record
    delayed,   \* inventory's AtomicBoolean
    control,   \* "off", "on", "clearing", "measuring"
    clock,     \* ticks since the reset was acknowledged; the window begins at Settle
    service    \* "up", "stopping" (its threads are interrupted) or "down"

orders == <<opc, context, age, outcome>>
inventory == <<ipc, slow, spent, answer>>
operator == <<delayed, control, clock>>
vars == <<orders, inventory, recorded, operator, service>>

NoContext == [trace |-> NoSpan, span |-> NoSpan, parent |-> NoSpan]

Init ==
    /\ opc = [r \in Requests |-> "idle"] /\ context = [r \in Requests |-> NoContext]
    /\ age = [r \in Requests |-> 0] /\ outcome = [r \in Requests |-> "none"]
    /\ ipc = [r \in Requests |-> "none"] /\ slow = [r \in Requests |-> FALSE]
    /\ spent = [r \in Requests |-> 0] /\ answer = [r \in Requests |-> 0]
    /\ recorded = {}
    /\ delayed = FALSE /\ control = "off" /\ clock = 0
    /\ service = [s \in Services |-> "up"]
-----------------------------------------------------------------------------
(* TraceContext.  A new span is named after the request and its place.     *)

FromParent(header, id) ==
    IF header = NoHeader
      THEN [trace |-> id, span |-> id, parent |-> NoSpan]
      ELSE [trace |-> header.trace, span |-> id, parent |-> header.span]

Child(c, id) == [trace |-> c.trace, span |-> id, parent |-> c.span]

ClientSpan(r) == Child(context[r], <<r, "client">>)

\* Mutant: the order's own server span is passed on.
MutantInventorySpan(r) == FromParent(context[r], <<r, "inventory">>)

InventorySpan(r) == FromParent(ClientSpan(r), <<r, "inventory">>)

Record(r, c, status, error) ==
    recorded' = recorded \cup
        {[request |-> r, trace |-> c.trace, span |-> c.span, parent |-> c.parent,
          status |-> status, error |-> error, inWindow |-> clock >= Settle]}
-----------------------------------------------------------------------------
(* orders-service.                                                         *)

\* The filter opens the server span; the controller sends its call.
Order(r, header) ==
    /\ opc[r] = "idle" /\ service["orders"] = "up"
    /\ opc' = [opc EXCEPT ![r] = "sending"]
    /\ context' = [context EXCEPT ![r] = FromParent(header, <<r, "orders">>)]
    /\ ipc' = [ipc EXCEPT ![r] = "wire"]
    /\ UNCHANGED <<age, outcome, slow, spent, answer, recorded, operator, service>>

\* The call ends.
Settles(r, how) ==
    /\ opc[r] = "sending"
    /\ opc' = [opc EXCEPT ![r] = "settled"]
    /\ outcome' = [outcome EXCEPT ![r] = how]
    /\ UNCHANGED <<context, age, slow, spent, answer, recorded, operator, service>>

\* A request that has not reached inventory may be lost with its connection.
Abandons(r) == ipc' \in {ipc, [ipc EXCEPT ![r] = IF @ = "wire" THEN "lost" ELSE @]}

Answered(r) ==
    /\ ipc[r] \in {"answered", "done"} /\ answer[r] # 0
    /\ Settles(r, IF answer[r] = 200 THEN "ok" ELSE "upstream_error")
    /\ UNCHANGED ipc

\* Mutant: a request is timed once it is connected.
MutantTimesOut(r) ==
    /\ ipc[r] # "wire" /\ age[r] >= Timeout
    /\ Settles(r, "timeout") /\ Abandons(r)

\* No connection in time, or no answer in time: one class of exceptions.
TimesOut(r) ==
    /\ \/ ipc[r] = "wire" /\ age[r] >= ConnectTimeout
       \/ age[r] >= Timeout
    /\ Settles(r, "timeout") /\ Abandons(r)

\* Refused, or broken because inventory went away.
ConnectionFails(r) ==
    /\ service["inventory"] # "up" \/ ipc[r] = "wire"
    /\ Settles(r, "connection_error") /\ Abandons(r)

Interrupted(r) ==
    /\ service["orders"] = "stopping"
    /\ Settles(r, "internal_error") /\ Abandons(r)

\* Status of the client span and of the answer to the caller.
ClientStatus(r) ==
    CASE outcome[r] \in {"ok", "upstream_error"} -> answer[r]
      [] outcome[r] = "timeout"                  -> 504
      [] outcome[r] = "connection_error"         -> 502
      [] outcome[r] = "internal_error"           -> 503
ServerStatus(r) == IF outcome[r] = "upstream_error" THEN 502 ELSE ClientStatus(r)

\* error_type, of the client's attributes and of the request.
ErrorType(r) == IF outcome[r] = "ok" THEN "none" ELSE outcome[r]

\* Mutant: no finally, an answer that is an error returns before it is recorded.
MutantRecordClient(r) ==
    /\ opc[r] = "settled"
    /\ opc' = [opc EXCEPT ![r] = "answering"]
    /\ IF outcome[r] = "upstream_error" THEN UNCHANGED recorded
         ELSE Record(r, ClientSpan(r), ClientStatus(r), ErrorType(r))
    /\ UNCHANGED <<context, age, outcome, inventory, operator, service>>

\* The controller's finally clause.
RecordClient(r) ==
    /\ opc[r] = "settled"
    /\ opc' = [opc EXCEPT ![r] = "answering"]
    /\ Record(r, ClientSpan(r), ClientStatus(r), ErrorType(r))
    /\ UNCHANGED <<context, age, outcome, inventory, operator, service>>

\* What TelemetryFilter records of a server span: an exception of the chain, such
\* as a caller that is gone, makes it a 500, with the error that was set before it.
FilterStatus(failed, status) == IF failed THEN 500 ELSE status

\* Mutant: the error of a failed chain replaces the one that was set.
MutantFilterError(failed, error) == IF failed THEN "internal_error" ELSE error

FilterError(failed, error) ==
    IF error = "none" /\ failed THEN "internal_error" ELSE error

\* The filter's finally clause, around the answer to the caller.
RecordServer(r, failed) ==
    /\ opc[r] = "answering"
    /\ opc' = [opc EXCEPT ![r] = "done"] /\ age' = [age EXCEPT ![r] = 0]
    /\ Record(r, context[r], FilterStatus(failed, ServerStatus(r)),
              FilterError(failed, ErrorType(r)))
    /\ UNCHANGED <<context, outcome, inventory, operator, service>>
-----------------------------------------------------------------------------
(* inventory-service.                                                      *)

\* The request arrives, perhaps after orders gave it up; the delay is read once.
Accept(r) ==
    /\ ipc[r] = "wire" /\ service["inventory"] = "up"
    /\ ipc' = [ipc EXCEPT ![r] = "asleep"]
    /\ slow' = [slow EXCEPT ![r] = delayed]
    /\ UNCHANGED <<orders, spent, answer, recorded, operator, service>>

\* It answers.  Writing may fail when orders does not wait any more, or when the
\* thread that writes is interrupted; orders then never has an answer.
Answer(r, status) ==
    /\ ipc[r] = "asleep"
    /\ \/ /\ ipc' = [ipc EXCEPT ![r] = "answered"]
          /\ answer' = [answer EXCEPT ![r] = status]
       \/ /\ opc[r] # "sending" \/ service["inventory"] = "stopping"
          /\ ipc' = [ipc EXCEPT ![r] = "broken"]
          /\ UNCHANGED answer
    /\ UNCHANGED <<orders, slow, spent, recorded, operator, service>>

Sleep(r) == IF slow[r] THEN Delay ELSE 0

Wakes(r) == spent[r] >= Sleep(r) /\ Answer(r, 200)

SleepInterrupted(r) == service["inventory"] = "stopping" /\ Answer(r, 503)

RecordInventory(r) ==
    /\ ipc[r] \in {"answered", "broken"}
    /\ ipc' = [ipc EXCEPT ![r] = "done"] /\ spent' = [spent EXCEPT ![r] = 0]
    /\ LET failed == ipc[r] = "broken"
           error == IF answer[r] = 200 THEN "none" ELSE "internal_error"
       IN  Record(r, InventorySpan(r), FilterStatus(failed, answer[r]), FilterError(failed, error))
    /\ UNCHANGED <<orders, slow, answer, operator, service>>
-----------------------------------------------------------------------------
(* The operator, processes that end, time.                                 *)

SwitchOn ==
    /\ control = "off" /\ service["inventory"] = "up"
    /\ delayed' = TRUE /\ control' = "on"
    /\ UNCHANGED <<orders, inventory, recorded, clock, service>>

ClearDelay ==
    /\ control \in {"off", "on"} /\ service["inventory"] = "up"
    /\ delayed' = FALSE /\ control' = "clearing"
    /\ UNCHANGED <<orders, inventory, recorded, clock, service>>

\* Mutant: the window begins at once.
MutantAcknowledged ==
    /\ control = "clearing"
    /\ control' = "measuring" /\ clock' = Settle
    /\ UNCHANGED <<orders, inventory, recorded, delayed, service>>

\* The console has the answer, and fixes the window that follows.
Acknowledged ==
    /\ control = "clearing"
    /\ control' = "measuring" /\ clock' = 0
    /\ UNCHANGED <<orders, inventory, recorded, delayed, service>>

Serving(r) == opc[r] \in {"sending", "settled", "answering"}
Handling(r) == ipc[r] \in {"asleep", "answered", "broken"}

\* A service is stopped: the threads it interrupts still answer and record ...
Stop(s) ==
    /\ service[s] = "up"
    /\ Cardinality({t \in Services : service[t] # "up"}) < MaxStops
    /\ service' = [service EXCEPT ![s] = "stopping"]
    /\ UNCHANGED <<orders, inventory, recorded, operator>>

\* ... until its process is gone, with whatever it had not recorded.
Exit(s) ==
    /\ service[s] = "stopping"
    /\ service' = [service EXCEPT ![s] = "down"]
    /\ IF s = "orders"
         THEN /\ opc' = [r \in Requests |-> IF Serving(r) THEN "dead" ELSE opc[r]]
              /\ age' = [r \in Requests |-> 0]
              /\ UNCHANGED <<ipc, spent>>
         ELSE /\ ipc' = [r \in Requests |-> IF Handling(r) THEN "dead" ELSE ipc[r]]
              /\ spent' = [r \in Requests |-> 0]
              /\ UNCHANGED <<opc, age>>
    /\ UNCHANGED <<context, outcome, slow, answer, recorded, operator>>

\* A thread that is due acts before Slack has passed.
Overdue(r) ==
    \/ Serving(r) /\ age[r] >= Timeout + Slack
    \/ Handling(r) /\ spent[r] >= Sleep(r) + Slack

Tick ==
    /\ \A r \in Requests : ~Overdue(r)
    /\ age' = [r \in Requests |-> IF Serving(r) THEN age[r] + 1 ELSE age[r]]
    /\ spent' = [r \in Requests |-> IF Handling(r) THEN spent[r] + 1 ELSE spent[r]]
    /\ clock' = IF control = "measuring" /\ clock < Settle THEN clock + 1 ELSE clock
    /\ UNCHANGED <<opc, context, outcome, ipc, slow, answer, recorded, delayed, control,
                   service>>

OrdersStep(r) ==
    \/ Answered(r) \/ TimesOut(r) \/ ConnectionFails(r) \/ Interrupted(r)
    \/ RecordClient(r) \/ \E failed \in BOOLEAN : RecordServer(r, failed)

InventoryStep(r) == Wakes(r) \/ SleepInterrupted(r) \/ RecordInventory(r)

Next ==
    \/ \E r \in Requests :
          \/ \E header \in CallerContexts \cup {NoHeader} : Order(r, header)
          \/ OrdersStep(r) \/ Accept(r) \/ InventoryStep(r)
    \/ SwitchOn \/ ClearDelay \/ Acknowledged
    \/ \E s \in Services : Stop(s) \/ Exit(s)
    \/ Tick

\* Threads run, timers fire and time passes; a connection need neither succeed
\* nor fail.
Fairness ==
    /\ \A r \in Requests :
        /\ WF_vars(TimesOut(r)) /\ WF_vars(RecordClient(r))
        /\ WF_vars(\E failed \in BOOLEAN : RecordServer(r, failed))
        /\ WF_vars(InventoryStep(r))
    /\ WF_vars(Tick)

Spec == Init /\ [][Next]_vars /\ Fairness
-----------------------------------------------------------------------------
Outcomes == {"none", "ok", "upstream_error", "timeout", "connection_error", "internal_error"}

\* Every variable stays in its range: no exchange outlives its deadline by more
\* than Slack, and errors are of the types the receiver admits (telemetry.py:63).
TypeOK ==
    /\ opc \in [Requests -> {"idle", "sending", "settled", "answering", "done", "dead"}]
    /\ DOMAIN context = Requests
    /\ age \in [Requests -> 0..Timeout + Slack]
    /\ outcome \in [Requests -> Outcomes]
    /\ ipc \in [Requests -> {"none", "wire", "lost", "asleep", "answered", "broken", "done", "dead"}]
    /\ slow \in [Requests -> BOOLEAN]
    /\ spent \in [Requests -> 0..Delay + Slack]
    /\ answer \in [Requests -> {0, 200, 503}]
    /\ delayed \in BOOLEAN /\ control \in {"off", "on", "clearing", "measuring"}
    /\ clock \in 0..Settle
    /\ service \in [Services -> {"up", "stopping", "down"}]

Has(r, place) == \E m \in recorded : m.span = <<r, place>>

\* "Every completed application server request produces one metric observation;
\* client spans do not inflate request counts" (architecture.md:37): each
\* exchange is recorded once by each service that completed it, however the call
\* between them ended and whichever of them ended first, and a server span of
\* orders always comes with the client span that explains it.
RecordedOnce ==
    /\ \A m, n \in recorded : m.span = n.span => m = n
    /\ \A r \in Requests :
        /\ Has(r, "orders") <=> opc[r] = "done"
        /\ Has(r, "inventory") <=> ipc[r] = "done"
        /\ Has(r, "orders") => Has(r, "client")

\* What the records say of an order agree, although each is made by another
\* thread at another time: the server span names the error of the client span; no
\* error means that inventory did its work; and orders blames inventory with an
\* upstream error only if inventory recorded one, or died before it could.
RecordsAgree ==
    \A s, c \in recorded :
      LET r == s.request
      IN  (s.span = <<r, "orders">> /\ c.span = <<r, "client">>) =>
            /\ c.error # "none" => s.error = c.error /\ s.status >= 500
            /\ s.error = "none" => s.status = 200 /\ c.status = 200
            /\ c.error \in {"none", "upstream_error"} =>
                  \A i \in recorded : i.span = <<r, "inventory">> =>
                      i.status = c.status /\ (i.error = "none" <=> c.error = "none")

\* The spans of an order form one chain across both services, whichever of them
\* was recorded first: inventory's server span is a child of the client span,
\* that one a child of orders' server span, which continues the caller's trace if
\* there is one (OrdersController.java:42, TraceContext.java:14-24).
TraceLinked ==
    \A m, n \in recorded :
      LET r == m.request
      IN  n.request = r =>
            /\ m.trace = n.trace
            /\ (m.span = <<r, "inventory">> /\ n.span = <<r, "client">>) => m.parent = n.span
            /\ (m.span = <<r, "client">> /\ n.span = <<r, "orders">>) => m.parent = n.span
            /\ m.span = <<r, "orders">> =>
                  m.parent = NoSpan \/ [trace |-> m.trace, span |-> m.parent] \in CallerContexts

\* The recovery window holds no observation the fault has slowed: a request that
\* read the delay just before it was cleared has ended, in both services, before
\* the window begins (architecture.md:75, console.py:208-209).
RecoveryWindowIsClean == \A m \in recorded : m.inWindow => ~slow[m.request]

\* An order is answered, or dies with its process, even if inventory never
\* accepts its call.
EveryOrderEnds ==
    \A r \in Requests : (opc[r] = "sending") ~> (opc[r] \in {"done", "dead"})
=============================================================================
