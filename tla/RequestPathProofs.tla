-------------------------- MODULE RequestPathProofs --------------------------
(***************************************************************************)
(* Theorems about RequestPath, for any number of orders, any deadlines that *)
(* satisfy the assumption, and any number of services stopped.             *)
(***************************************************************************)
EXTENDS RequestPath, TLAPS

LEMMA Deadlines ==
    /\ ConnectTimeout \in Nat /\ Timeout \in Nat /\ Delay \in Nat
    /\ Settle \in Nat /\ Slack \in Nat
    /\ Timeout <= Delay /\ Delay + Slack < Settle
  BY RequestPathAssumption

\* Every variable stays in its range; that age and spent stay within their bounds
\* is what Tick assumes of time, not a result about the code.
THEOREM TypeCorrect == Spec => []TypeOK
<1> USE Deadlines
<1>1. Init => TypeOK
  <2> SUFFICES ASSUME Init
               PROVE  TypeOK
    OBVIOUS
  <2> USE DEF Init
  <2>1. /\ age \in [Requests -> 0..Timeout + Slack]
        /\ spent \in [Requests -> 0..Delay + Slack]
        /\ clock \in 0..Settle
    OBVIOUS
  <2>2. delayed \in BOOLEAN /\ slow \in [Requests -> BOOLEAN]
    BY Zenon
  <2>3. answer \in [Requests -> {0, 200, 503}]
    OBVIOUS
  <2>4. QED
    BY <2>1, <2>2, <2>3 DEF TypeOK, Outcomes
<1>2. TypeOK /\ [Next]_vars => TypeOK'
  <2> SUFFICES ASSUME TypeOK, [Next]_vars
               PROVE  TypeOK'
    OBVIOUS
  <2> USE DEF TypeOK, Outcomes
  <2>1. ASSUME NEW r \in Requests, NEW header, Order(r, header)
        PROVE  TypeOK'
    BY <2>1 DEF Order, operator
  <2>2. ASSUME NEW r \in Requests, OrdersStep(r)
        PROVE  TypeOK'
    <3>1. CASE Answered(r)
      BY <3>1 DEF Answered, Settles, operator
    <3>2. CASE TimesOut(r) \/ ConnectionFails(r) \/ Interrupted(r)
      BY <3>2 DEF TimesOut, ConnectionFails, Interrupted, Abandons, Settles, operator
    <3>3. CASE RecordClient(r)
      BY <3>3 DEF RecordClient, inventory, operator
    <3>4. CASE \E failed \in BOOLEAN : RecordServer(r, failed)
      BY <3>4 DEF RecordServer, inventory, operator
    <3>5. QED
      BY <2>2, <3>1, <3>2, <3>3, <3>4 DEF OrdersStep
  <2>3. ASSUME NEW r \in Requests, Accept(r)
        PROVE  TypeOK'
    BY <2>3 DEF Accept, orders, operator
  <2>4. ASSUME NEW r \in Requests, InventoryStep(r)
        PROVE  TypeOK'
    <3>1. CASE Wakes(r) \/ SleepInterrupted(r)
      BY <3>1 DEF Wakes, SleepInterrupted, Answer, orders, operator
    <3>2. CASE RecordInventory(r)
      BY <3>2 DEF RecordInventory, orders, operator
    <3>3. QED
      BY <2>4, <3>1, <3>2 DEF InventoryStep
  <2>5. CASE SwitchOn \/ ClearDelay \/ Acknowledged
    <3>1. clock' \in 0..Settle
      BY <2>5 DEF SwitchOn, ClearDelay, Acknowledged
    <3>2. delayed' \in BOOLEAN /\ control' \in {"off", "on", "clearing", "measuring"}
      BY <2>5, Zenon DEF SwitchOn, ClearDelay, Acknowledged
    <3>3. UNCHANGED <<orders, inventory, service>>
      BY <2>5 DEF SwitchOn, ClearDelay, Acknowledged
    <3>4. QED
      BY <3>1, <3>2, <3>3 DEF orders, inventory
  <2>6. ASSUME NEW s \in Services, Stop(s) \/ Exit(s)
        PROVE  TypeOK'
    <3>1. CASE Stop(s)
      BY <2>6, <3>1 DEF Stop, orders, inventory, operator
    <3>2. CASE Exit(s)
      BY <2>6, <3>2 DEF Exit, Serving, Handling, operator, Services
    <3>3. QED
      BY <2>6, <3>1, <3>2
  <2>7. CASE Tick
    <3>1. age' \in [Requests -> 0..Timeout + Slack]
      BY <2>7 DEF Tick, Overdue
    <3>2. spent' \in [Requests -> 0..Delay + Slack]
      BY <2>7 DEF Tick, Overdue, Sleep
    <3>3. clock' \in 0..Settle
      BY <2>7 DEF Tick
    <3>4. QED
      BY <2>7, <3>1, <3>2, <3>3 DEF Tick
  <2>8. CASE UNCHANGED vars
    BY <2>8 DEF vars, orders, inventory, operator
  <2>9. QED
    BY <2>1, <2>2, <2>3, <2>4, <2>5, <2>6, <2>7, <2>8 DEF Next
<1>3. QED
  BY <1>1, <1>2, PTL DEF Spec

-----------------------------------------------------------------------------
(* The recovery window.                                                    *)

\* A slow request was accepted, and sent, before the reset was acknowledged, so
\* each of its threads is at least as old as the window's clock.
SlowInv ==
    /\ delayed => control = "on"
    /\ control # "measuring" => clock = 0
    /\ \A m \in recorded :
          m.request \in Requests /\ (m.inWindow => control = "measuring")
    /\ \A r \in Requests :
          /\ opc[r] = "idle" => ipc[r] = "none"
          /\ ipc[r] = "none" => ~slow[r]
          /\ slow[r] /\ Serving(r) => clock <= age[r]
          /\ slow[r] /\ Handling(r) => clock <= spent[r]
    /\ RecoveryWindowIsClean

\* What a slow request records is recorded before the window begins.
LEMMA SlowRecordsBefore ==
  ASSUME TypeOK, SlowInv, NEW r \in Requests, NEW c, NEW status, NEW error,
         Record(r, c, status, error), Serving(r) \/ Handling(r),
         UNCHANGED <<slow, control>>
  PROVE  /\ \A m \in recorded' : m.request \in Requests /\ (m.inWindow => control' = "measuring")
         /\ RecoveryWindowIsClean'
<1> DEFINE new == [request |-> r, trace |-> c.trace, span |-> c.span, parent |-> c.parent,
                   status |-> status, error |-> error, inWindow |-> clock >= Settle]
<1>1. recorded' = recorded \cup {new}
  BY DEF Record
<1>2. new.request = r /\ (new.inWindow <=> clock >= Settle)
  OBVIOUS
<1>3. clock \in Nat /\ age[r] \in Nat /\ spent[r] \in Nat
      /\ age[r] <= Timeout + Slack /\ spent[r] <= Delay + Slack
  BY Deadlines DEF TypeOK
<1>4. clock >= Settle => control = "measuring"
  BY <1>3, Deadlines DEF SlowInv
<1>5. slow[r] => ~(clock >= Settle)
  BY <1>3, Deadlines DEF SlowInv
<1> HIDE DEF new
<1>6. QED
  BY <1>1, <1>2, <1>4, <1>5 DEF SlowInv, RecoveryWindowIsClean

\* No observation of the recovery window was slowed by the fault.
THEOREM RecoveryAlwaysClean == Spec => []RecoveryWindowIsClean
<1>1. Init => SlowInv
  BY DEF Init, SlowInv, RecoveryWindowIsClean
<1>2. TypeOK /\ SlowInv /\ [Next]_vars => SlowInv'
  <2> SUFFICES ASSUME TypeOK, SlowInv, [Next]_vars
               PROVE  SlowInv'
    OBVIOUS
  <2>0. clock \in Nat /\ \A r \in Requests : age[r] \in Nat /\ spent[r] \in Nat
    BY Deadlines DEF TypeOK
  <2>1. ASSUME NEW r \in Requests, NEW header, Order(r, header)
        PROVE  SlowInv'
    BY <2>1 DEF Order, operator, SlowInv, TypeOK, Serving, Handling, RecoveryWindowIsClean
  <2>2. ASSUME NEW r \in Requests, OrdersStep(r)
        PROVE  SlowInv'
    <3>1. CASE Answered(r)
      BY <3>1 DEF Answered, Settles, operator, SlowInv, TypeOK, Serving, Handling,
                  RecoveryWindowIsClean
    <3>2. CASE TimesOut(r) \/ ConnectionFails(r) \/ Interrupted(r)
      BY <3>2 DEF TimesOut, ConnectionFails, Interrupted, Abandons, Settles, operator, SlowInv,
                  TypeOK, Serving, Handling, RecoveryWindowIsClean
    <3>3. CASE RecordClient(r)
      <4>1. Serving(r) /\ UNCHANGED <<slow, control>>
        BY <3>3 DEF RecordClient, Serving, inventory, operator
      <4>2. PICK c, status, error : Record(r, c, status, error)
        BY <3>3 DEF RecordClient
      <4>3. QED
        BY <3>3, <4>1, <4>2, SlowRecordsBefore
           DEF RecordClient, inventory, operator, SlowInv, TypeOK, Serving, Handling
    <3>4. ASSUME NEW failed \in BOOLEAN, RecordServer(r, failed)
          PROVE  SlowInv'
      <4>1. Serving(r) /\ UNCHANGED <<slow, control>>
        BY <3>4 DEF RecordServer, Serving, inventory, operator
      <4>2. PICK c, status, error : Record(r, c, status, error)
        BY <3>4 DEF RecordServer
      <4>3. QED
        BY <3>4, <4>1, <4>2, SlowRecordsBefore
           DEF RecordServer, inventory, operator, SlowInv, TypeOK, Serving, Handling
    <3>5. QED
      BY <2>2, <3>1, <3>2, <3>3, <3>4 DEF OrdersStep
  <2>3. ASSUME NEW r \in Requests, Accept(r)
        PROVE  SlowInv'
    BY <2>0, <2>3 DEF Accept, orders, operator, SlowInv, TypeOK, Serving, Handling,
                      RecoveryWindowIsClean
  <2>4. ASSUME NEW r \in Requests, InventoryStep(r)
        PROVE  SlowInv'
    <3>1. CASE Wakes(r) \/ SleepInterrupted(r)
      BY <3>1 DEF Wakes, SleepInterrupted, Answer, orders, operator, SlowInv, TypeOK,
                  Serving, Handling, RecoveryWindowIsClean
    <3>2. CASE RecordInventory(r)
      <4>1. Handling(r) /\ UNCHANGED <<slow, control>>
        BY <3>2 DEF RecordInventory, Handling, operator
      <4>2. PICK c, status, error : Record(r, c, status, error)
        BY <3>2 DEF RecordInventory
      <4>3. QED
        BY <3>2, <4>1, <4>2, SlowRecordsBefore
           DEF RecordInventory, orders, operator, SlowInv, TypeOK, Serving, Handling
    <3>3. QED
      BY <2>4, <3>1, <3>2 DEF InventoryStep
  <2>5. CASE SwitchOn \/ ClearDelay \/ Acknowledged
    BY <2>0, <2>5 DEF SwitchOn, ClearDelay, Acknowledged, orders, inventory, SlowInv, TypeOK,
                      Serving, Handling, RecoveryWindowIsClean
  <2>6. ASSUME NEW s \in Services, Stop(s) \/ Exit(s)
        PROVE  SlowInv'
    BY <2>6 DEF Stop, Exit, orders, inventory, operator, SlowInv, TypeOK, Serving, Handling,
                RecoveryWindowIsClean
  <2>7. CASE Tick
    BY <2>0, <2>7 DEF Tick, SlowInv, TypeOK, Serving, Handling, RecoveryWindowIsClean
  <2>8. CASE UNCHANGED vars
    BY <2>8 DEF vars, orders, inventory, operator, SlowInv, Serving, Handling,
                RecoveryWindowIsClean
  <2>9. QED
    BY <2>1, <2>2, <2>3, <2>4, <2>5, <2>6, <2>7, <2>8 DEF Next
<1>3. SlowInv => RecoveryWindowIsClean
  BY DEF SlowInv
<1>4. QED
  BY <1>1, <1>2, <1>3, TypeCorrect, PTL DEF Spec
-----------------------------------------------------------------------------
(* Every exchange is recorded once.                                        *)

\* Where a request is in its two threads tells what has been recorded of it; the
\* span of an order's context is the order's own.
RecordInv ==
    /\ \A r \in Requests : IF opc[r] = "idle" THEN ipc[r] = "none"
                            ELSE context[r].span = <<r, "orders">>
    /\ \A m \in recorded : \E r \in Requests :
          m.span \in {<<r, "orders">>, <<r, "client">>, <<r, "inventory">>}
    /\ \A r \in Requests :
          /\ Has(r, "client") => opc[r] \in {"answering", "done", "dead"}
          /\ opc[r] \in {"answering", "done"} => Has(r, "client")
    /\ RecordedOnce

\* What recording one more span changes.
LEMMA OneMore ==
  ASSUME RecordInv, NEW r \in Requests, NEW place \in {"orders", "client", "inventory"},
         NEW c, c.span = <<r, place>>, NEW status, NEW error,
         Record(r, c, status, error), ~Has(r, place)
  PROVE  /\ \A m, n \in recorded' : m.span = n.span => m = n
         /\ \A m \in recorded' : \E q \in Requests :
               m.span \in {<<q, "orders">>, <<q, "client">>, <<q, "inventory">>}
         /\ Has(r, place)'
         /\ \A q \in Requests, where \in {"orders", "client", "inventory"} :
               <<q, where>> # <<r, place>> => (Has(q, where)' <=> Has(q, where))
<1> DEFINE new == [request |-> r, trace |-> c.trace, span |-> c.span, parent |-> c.parent,
                   status |-> status, error |-> error, inWindow |-> clock >= Settle]
<1>1. recorded' = recorded \cup {new}
  BY DEF Record
<1>2. new.span = <<r, place>>
  OBVIOUS
<1> HIDE DEF new
<1>3. \A m, n \in recorded' : m.span = n.span => m = n
  BY <1>1, <1>2 DEF RecordInv, RecordedOnce, Has
<1>4. \A m \in recorded' : \E q \in Requests :
         m.span \in {<<q, "orders">>, <<q, "client">>, <<q, "inventory">>}
  BY <1>1, <1>2 DEF RecordInv
<1>5. Has(r, place)'
  BY <1>1, <1>2 DEF Has
<1>6. ASSUME NEW q \in Requests, NEW where \in {"orders", "client", "inventory"},
             <<q, where>> # <<r, place>>
      PROVE  Has(q, where)' <=> Has(q, where)
  BY <1>1, <1>2, <1>6 DEF Has
<1>7. QED
  BY <1>3, <1>4, <1>5, <1>6

\* A step that records nothing, and leaves alone which threads are done.
LEMMA NothingRecorded ==
  ASSUME RecordInv, recorded' = recorded,
         \A r \in Requests :
            /\ IF opc'[r] = "idle" THEN ipc'[r] = "none"
               ELSE context'[r].span = <<r, "orders">>
            /\ opc'[r] = "done" <=> opc[r] = "done"
            /\ ipc'[r] = "done" <=> ipc[r] = "done"
            /\ opc'[r] = "answering" => opc[r] = "answering"
            /\ opc[r] \in {"answering", "dead"} => opc'[r] \in {"answering", "dead"}
  PROVE  RecordInv'
BY DEF RecordInv, RecordedOnce, Has

\* Each service records an exchange once, when it completes it, and orders never
\* without the client span.
THEOREM RecordedAlwaysOnce == Spec => []RecordedOnce
<1>1. Init => RecordInv
  BY DEF Init, RecordInv, RecordedOnce, Has
<1>2. TypeOK /\ RecordInv /\ [Next]_vars => RecordInv'
  <2> SUFFICES ASSUME TypeOK, RecordInv, [Next]_vars
               PROVE  RecordInv'
    OBVIOUS
  <2>1. ASSUME NEW r \in Requests, NEW header, Order(r, header)
        PROVE  RecordInv'
    <3>1. context'[r].span = <<r, "orders">>
      BY <2>1 DEF Order, FromParent, TypeOK
    <3>2. \A q \in Requests : q # r => context'[q] = context[q] /\ opc'[q] = opc[q]
      BY <2>1 DEF Order, TypeOK
    <3>3. opc[r] = "idle" /\ opc'[r] = "sending" /\ recorded' = recorded
      BY <2>1 DEF Order, TypeOK
    <3>4. \A q \in Requests : (ipc'[q] = "done" <=> ipc[q] = "done")
                               /\ (q # r => ipc'[q] = ipc[q])
      BY <2>1 DEF Order, TypeOK, RecordInv, RecordedOnce
    <3>5. QED
      BY <3>1, <3>2, <3>3, <3>4, NothingRecorded DEF RecordInv
  <2>2. ASSUME NEW r \in Requests, OrdersStep(r)
        PROVE  RecordInv'
    <3>1. CASE Answered(r)
      BY <3>1, NothingRecorded DEF Answered, Settles, TypeOK, RecordInv
    <3>2. CASE TimesOut(r) \/ ConnectionFails(r) \/ Interrupted(r)
      BY <3>2, NothingRecorded
         DEF TimesOut, ConnectionFails, Interrupted, Abandons, Settles, TypeOK, RecordInv
    <3>3. CASE RecordClient(r)
      <4>1. ClientSpan(r).span = <<r, "client">>
        BY DEF ClientSpan, Child
      <4>2. ~Has(r, "client")
        BY <3>3 DEF RecordClient, RecordInv
      <4>3. QED
        BY <3>3, <4>1, <4>2, OneMore DEF RecordClient, inventory, TypeOK, RecordInv, RecordedOnce
    <3>4. ASSUME NEW failed \in BOOLEAN, RecordServer(r, failed)
          PROVE  RecordInv'
      <4>1. context[r].span = <<r, "orders">>
        BY <3>4 DEF RecordServer, RecordInv
      <4>2. ~Has(r, "orders") /\ Has(r, "client")
        BY <3>4 DEF RecordServer, RecordInv, RecordedOnce
      <4>3. QED
        BY <3>4, <4>1, <4>2, OneMore DEF RecordServer, inventory, TypeOK, RecordInv, RecordedOnce
    <3>5. QED
      BY <2>2, <3>1, <3>2, <3>3, <3>4 DEF OrdersStep
  <2>3. ASSUME NEW r \in Requests, Accept(r)
        PROVE  RecordInv'
    BY <2>3, NothingRecorded DEF Accept, orders, TypeOK, RecordInv
  <2>4. ASSUME NEW r \in Requests, InventoryStep(r)
        PROVE  RecordInv'
    <3>1. CASE Wakes(r) \/ SleepInterrupted(r)
      BY <3>1, NothingRecorded DEF Wakes, SleepInterrupted, Answer, orders, TypeOK, RecordInv
    <3>2. CASE RecordInventory(r)
      <4>1. InventorySpan(r).span = <<r, "inventory">>
        BY DEF InventorySpan, FromParent
      <4>2. ~Has(r, "inventory")
        BY <3>2 DEF RecordInventory, RecordInv, RecordedOnce
      <4>3. QED
        BY <3>2, <4>1, <4>2, OneMore DEF RecordInventory, orders, TypeOK, RecordInv, RecordedOnce
    <3>3. QED
      BY <2>4, <3>1, <3>2 DEF InventoryStep
  <2>5. CASE SwitchOn \/ ClearDelay \/ Acknowledged
    BY <2>5, NothingRecorded DEF SwitchOn, ClearDelay, Acknowledged, orders, inventory, RecordInv
  <2>6. ASSUME NEW s \in Services, Stop(s) \/ Exit(s)
        PROVE  RecordInv'
    BY <2>6, NothingRecorded
       DEF Stop, Exit, orders, inventory, operator, TypeOK, Serving, Handling, RecordInv
  <2>7. CASE Tick
    BY <2>7, NothingRecorded DEF Tick, RecordInv
  <2>8. CASE UNCHANGED vars
    BY <2>8, NothingRecorded DEF vars, orders, inventory, RecordInv
  <2>9. QED
    BY <2>1, <2>2, <2>3, <2>4, <2>5, <2>6, <2>7, <2>8 DEF Next
<1>3. RecordInv => RecordedOnce
  BY DEF RecordInv
<1>4. QED
  BY <1>1, <1>2, <1>3, TypeCorrect, PTL DEF Spec
-----------------------------------------------------------------------------
(* The records of an order agree and are linked.                           *)

\* How an order's call ended agrees with what inventory answered, and its
\* context is that of its caller or a new one.
OrderInv(r) ==
    /\ opc[r] = "idle" => ipc[r] = "none"
    /\ opc[r] \in {"idle", "sending"} => outcome[r] = "none"
    /\ opc[r] \in {"settled", "answering", "done"} => outcome[r] # "none"
    /\ outcome[r] = "ok" => answer[r] = 200
    /\ outcome[r] = "upstream_error" => answer[r] = 503
    /\ outcome[r] \in {"ok", "upstream_error"} => ipc[r] \in {"answered", "done", "dead"}
    /\ ipc[r] = "answered" => answer[r] \in {200, 503}
    /\ ipc[r] \in {"none", "wire", "lost", "asleep", "broken"} => answer[r] = 0
    /\ opc[r] # "idle" =>
         /\ context[r].span = <<r, "orders">>
         /\ context[r].trace \in TraceIds
         /\ \/ context[r].parent = NoSpan
            \/ [trace |-> context[r].trace, span |-> context[r].parent] \in CallerContexts

FaithfulClient(m, r) ==
    /\ m.span = <<r, "client">> /\ opc[r] \in {"answering", "done", "dead"}
    /\ outcome[r] \in Outcomes \ {"none"}
    /\ m.trace = context[r].trace /\ m.parent = context[r].span
    /\ m.status = ClientStatus(r) /\ m.error = ErrorType(r)

FaithfulServer(m, r) ==
    /\ m.span = <<r, "orders">> /\ opc[r] = "done"
    /\ outcome[r] \in Outcomes \ {"none"}
    /\ m.trace = context[r].trace /\ m.parent = context[r].parent
    /\ \E failed \in BOOLEAN : /\ m.status = FilterStatus(failed, ServerStatus(r))
                               /\ m.error = FilterError(failed, ErrorType(r))

\* Whatever became of orders: what inventory answered, or that it could not.
FaithfulInventory(m, r) ==
    /\ m.span = <<r, "inventory">> /\ ipc[r] = "done" /\ opc[r] # "idle"
    /\ m.trace = context[r].trace /\ m.parent = <<r, "client">>
    /\ m.status = IF answer[r] = 0 THEN 500 ELSE answer[r]
    /\ m.error = IF answer[r] = 200 THEN "none" ELSE "internal_error"

\* Each record still says what its service knows of the order.
Faithful(m) ==
    /\ m.request \in Requests
    /\ \/ FaithfulClient(m, m.request)
       \/ FaithfulServer(m, m.request)
       \/ FaithfulInventory(m, m.request)

\* What no step changes of an order one of its services has recorded.
Steady(r) ==
    /\ opc[r] # "idle" => context'[r] = context[r] /\ opc'[r] # "idle"
    /\ opc[r] \in {"answering", "done", "dead"} =>
          opc'[r] \in {"answering", "done", "dead"} /\ outcome'[r] = outcome[r]
    /\ opc[r] = "done" => opc'[r] = "done"
    /\ opc[r] \notin {"idle", "sending"} => opc'[r] # "sending" /\ outcome'[r] = outcome[r]
    /\ outcome[r] \in {"ok", "upstream_error"} => answer'[r] = answer[r]
    /\ ipc[r] = "done" => ipc'[r] = "done" /\ answer'[r] = answer[r]

LEMMA FaithfulKept ==
  ASSUME NEW m, Faithful(m), Steady(m.request)
  PROVE  Faithful(m)'
<1> DEFINE r == m.request
<1>0. ASSUME outcome[r] \in Outcomes \ {"none"}, opc[r] \in {"answering", "done", "dead"}
      PROVE  /\ outcome'[r] = outcome[r] /\ context'[r] = context[r]
             /\ ClientStatus(r)' = ClientStatus(r) /\ ErrorType(r)' = ErrorType(r)
             /\ ServerStatus(r)' = ServerStatus(r)
  <2>1. outcome'[r] = outcome[r] /\ context'[r] = context[r]
    BY <1>0 DEF Steady
  <2>2. ErrorType(r)' = ErrorType(r)
    BY <2>1 DEF ErrorType
  <2>3. ClientStatus(r)' = ClientStatus(r)
    <3>1. CASE outcome[r] \in {"ok", "upstream_error"}
      BY <2>1, <3>1 DEF Steady, ClientStatus
    <3>2. CASE outcome[r] \in {"timeout", "connection_error", "internal_error"}
      BY <2>1, <3>2 DEF ClientStatus
    <3>3. QED
      BY <1>0, <3>1, <3>2 DEF Outcomes
  <2>4. QED
    BY <2>1, <2>2, <2>3 DEF ServerStatus
<1>1. FaithfulClient(m, r) => FaithfulClient(m, r)'
  BY <1>0 DEF FaithfulClient, Steady
<1>2. FaithfulServer(m, r) => FaithfulServer(m, r)'
  <2> SUFFICES ASSUME FaithfulServer(m, r) PROVE FaithfulServer(m, r)'
    OBVIOUS
  <2>1. opc[r] = "done" /\ outcome[r] \in Outcomes \ {"none"} /\ opc'[r] = "done"
    BY DEF FaithfulServer, Steady
  <2>2. /\ outcome'[r] = outcome[r] /\ context'[r] = context[r]
        /\ ErrorType(r)' = ErrorType(r) /\ ServerStatus(r)' = ServerStatus(r)
    BY <1>0, <2>1
  <2>3. QED
    BY <2>1, <2>2 DEF FaithfulServer, FilterStatus, FilterError
<1>3. FaithfulInventory(m, r) => FaithfulInventory(m, r)'
  BY DEF FaithfulInventory, Steady
<1>4. QED
  BY <1>1, <1>2, <1>3 DEF Faithful

LEMMA OrderKept ==
  ASSUME TypeOK, \A q \in Requests : OrderInv(q), [Next]_vars, NEW r \in Requests
  PROVE  OrderInv(r)' /\ Steady(r)
<1> USE DEF OrderInv, Steady, TypeOK
<1>1. ASSUME NEW q \in Requests, NEW header \in CallerContexts \cup {NoHeader}, Order(q, header)
      PROVE  OrderInv(r)' /\ Steady(r)
  <2>1. CASE q = r
    <3>1. context'[r] = FromParent(header, <<r, "orders">>)
      BY <1>1, <2>1 DEF Order
    <3>2. header # NoHeader => header \in CallerContexts /\ header = [trace |-> header.trace, span |-> header.span]
      BY ContextAssumption
    <3>3. /\ context'[r].span = <<r, "orders">>
          /\ context'[r].trace \in TraceIds
          /\ \/ context'[r].parent = NoSpan
             \/ [trace |-> context'[r].trace, span |-> context'[r].parent] \in CallerContexts
      <4>1. CASE header = NoHeader
        BY <2>1, <3>1, <4>1 DEF FromParent, TraceIds
      <4>2. CASE header # NoHeader
        <5>1. context'[r] = [trace |-> header.trace, span |-> <<r, "orders">>,
                             parent |-> header.span]
          BY <3>1, <4>2 DEF FromParent
        <5>2. header.trace \in TraceIds
          BY <3>2, <4>2 DEF TraceIds
        <5>3. QED
          BY <3>2, <4>2, <5>1, <5>2
      <4>3. QED
        BY <4>1, <4>2
    <3>4. /\ opc[r] = "idle" /\ opc'[r] = "sending" /\ ipc'[r] = "wire"
          /\ outcome' = outcome /\ answer' = answer
      BY <1>1, <2>1 DEF Order
    <3>5. OrderInv(r)'
      BY <3>3, <3>4
    <3>6. QED
      BY <3>4, <3>5
  <2>2. CASE q # r
    BY <1>1, <2>2 DEF Order
  <2>3. QED
    BY <2>1, <2>2
<1>2. ASSUME NEW q \in Requests, OrdersStep(q)
      PROVE  OrderInv(r)' /\ Steady(r)
  <2>1. CASE Answered(q)
    BY <2>1 DEF Answered, Settles
  <2>2. CASE TimesOut(q) \/ ConnectionFails(q) \/ Interrupted(q)
    BY <2>2 DEF TimesOut, ConnectionFails, Interrupted, Abandons, Settles
  <2>3. CASE RecordClient(q)
    BY <2>3 DEF RecordClient, inventory
  <2>4. CASE \E failed \in BOOLEAN : RecordServer(q, failed)
    BY <2>4 DEF RecordServer, inventory
  <2>5. QED
    BY <1>2, <2>1, <2>2, <2>3, <2>4 DEF OrdersStep
<1>3. ASSUME NEW q \in Requests, Accept(q)
      PROVE  OrderInv(r)' /\ Steady(r)
  BY <1>3 DEF Accept, orders
<1>4. ASSUME NEW q \in Requests, InventoryStep(q)
      PROVE  OrderInv(r)' /\ Steady(r)
  <2>1. CASE Wakes(q) \/ SleepInterrupted(q)
    BY <2>1 DEF Wakes, SleepInterrupted, Answer, orders
  <2>2. CASE RecordInventory(q)
    BY <2>2 DEF RecordInventory, orders
  <2>3. QED
    BY <1>4, <2>1, <2>2 DEF InventoryStep
<1>5. CASE SwitchOn \/ ClearDelay \/ Acknowledged
  BY <1>5 DEF SwitchOn, ClearDelay, Acknowledged, orders, inventory
<1>6. ASSUME NEW s \in Services, Stop(s) \/ Exit(s)
      PROVE  OrderInv(r)' /\ Steady(r)
  BY <1>6 DEF Stop, Exit, orders, inventory, operator, Serving, Handling
<1>7. CASE Tick
  BY <1>7 DEF Tick
<1>8. CASE UNCHANGED vars
  BY <1>8 DEF vars, orders, inventory
<1>9. QED
  BY <1>1, <1>2, <1>3, <1>4, <1>5, <1>6, <1>7, <1>8 DEF Next

\* Every record is faithful when it is made ...
LEMMA RecordFaithful ==
  ASSUME TypeOK, \A q \in Requests : OrderInv(q), [Next]_vars,
         NEW m \in recorded', m \notin recorded
  PROVE  Faithful(m)'
<1>1. ASSUME NEW r \in Requests, RecordClient(r)
      PROVE  Faithful(m)'
  <2>1. /\ m.request = r /\ m.span = <<r, "client">>
        /\ m.trace = context[r].trace /\ m.parent = context[r].span
        /\ m.status = ClientStatus(r) /\ m.error = ErrorType(r)
    BY <1>1 DEF RecordClient, Record, ClientSpan, Child
  <2>2. /\ opc'[r] = "answering"
        /\ UNCHANGED <<context, outcome, answer>>
    BY <1>1 DEF RecordClient, inventory, TypeOK
  <2>3. outcome[r] \in Outcomes \ {"none"}
    <3>1. outcome[r] \in Outcomes
      BY DEF TypeOK
    <3>2. opc[r] = "settled"
      BY <1>1 DEF RecordClient
    <3>3. QED
      BY <3>1, <3>2 DEF OrderInv
  <2>4. FaithfulClient(m, r)'
    BY <2>1, <2>2, <2>3 DEF FaithfulClient, ClientStatus, ErrorType
  <2>5. QED
    BY <2>1, <2>4 DEF Faithful
<1>2. ASSUME NEW r \in Requests, NEW failed \in BOOLEAN, RecordServer(r, failed)
      PROVE  Faithful(m)'
  <2>1. /\ m.request = r /\ m.span = context[r].span
        /\ m.trace = context[r].trace /\ m.parent = context[r].parent
        /\ m.status = FilterStatus(failed, ServerStatus(r))
        /\ m.error = FilterError(failed, ErrorType(r))
    BY <1>2 DEF RecordServer, Record
  <2>2. context[r].span = <<r, "orders">> /\ outcome[r] \in Outcomes \ {"none"}
    <3>1. outcome[r] \in Outcomes
      BY DEF TypeOK
    <3>2. opc[r] = "answering"
      BY <1>2 DEF RecordServer
    <3>3. QED
      BY <3>1, <3>2 DEF OrderInv
  <2>3. /\ opc'[r] = "done"
        /\ UNCHANGED <<context, outcome, answer>>
    BY <1>2 DEF RecordServer, inventory, TypeOK
  <2>4. FaithfulServer(m, r)'
    BY <2>1, <2>2, <2>3 DEF FaithfulServer, ServerStatus, ClientStatus, ErrorType
  <2>5. QED
    BY <2>1, <2>4 DEF Faithful
<1>3. ASSUME NEW r \in Requests, RecordInventory(r)
      PROVE  Faithful(m)'
  <2> DEFINE failed == ipc[r] = "broken"
             error == IF answer[r] = 200 THEN "none" ELSE "internal_error"
  <2>1. /\ m.request = r /\ m.span = InventorySpan(r).span
        /\ m.trace = InventorySpan(r).trace /\ m.parent = InventorySpan(r).parent
        /\ m.status = FilterStatus(failed, answer[r])
        /\ m.error = FilterError(failed, error)
    BY <1>3 DEF RecordInventory, Record
  <2>2. opc[r] # "idle"
    BY <1>3 DEF RecordInventory, OrderInv
  <2>3. ClientSpan(r) # NoHeader
    <3>1. context[r].trace \in TraceIds /\ context[r].span = <<r, "orders">>
      BY <2>2 DEF OrderInv
    <3>2. ClientSpan(r) = [trace |-> context[r].trace, span |-> <<r, "client">>,
                           parent |-> <<r, "orders">>]
      BY <3>1 DEF ClientSpan, Child
    <3>3. ClientSpan(r) \in [trace : TraceIds, span : Requests \X {"client"},
                             parent : Requests \X {"orders"}]
      BY <3>1, <3>2
    <3>4. QED
      BY <3>3, ContextAssumption
  <2>4. /\ m.span = <<r, "inventory">> /\ m.trace = context[r].trace
        /\ m.parent = <<r, "client">>
    BY <2>1, <2>3 DEF InventorySpan, FromParent, ClientSpan, Child
  <2>5. /\ ipc'[r] = "done"
        /\ UNCHANGED <<opc, context, outcome, answer>>
    BY <1>3 DEF RecordInventory, orders, TypeOK
  <2>6. /\ m.status = IF answer[r] = 0 THEN 500 ELSE answer[r]
        /\ m.error = IF answer[r] = 200 THEN "none" ELSE "internal_error"
    <3>1. CASE failed
      <4>1. answer[r] = 0
        BY <3>1 DEF OrderInv
      <4>2. QED
        BY <2>1, <3>1, <4>1 DEF FilterStatus, FilterError
    <3>2. CASE ~failed
      <4>1. answer[r] \in {200, 503}
        BY <1>3, <3>2 DEF RecordInventory, OrderInv
      <4>2. QED
        BY <2>1, <3>2, <4>1 DEF FilterStatus, FilterError
    <3>3. QED
      BY <3>1, <3>2
  <2>7. FaithfulInventory(m, r)'
    BY <2>2, <2>4, <2>5, <2>6 DEF FaithfulInventory
  <2>8. QED
    BY <2>1, <2>7 DEF Faithful
<1>4. CASE Next
  BY <1>1, <1>2, <1>3, <1>4
     DEF Next, Order, OrdersStep, InventoryStep, Answered, TimesOut, ConnectionFails, Interrupted,
         Settles, Accept, Wakes, SleepInterrupted, Answer, SwitchOn, ClearDelay, Acknowledged,
         Stop, Exit, Tick
<1>5. QED
  BY <1>4 DEF vars

FaithInv == (\A r \in Requests : OrderInv(r)) /\ (\A m \in recorded : Faithful(m))

\* ... and stays so: what a service recorded of an order remains what it knows
\* of it.
THEOREM RecordsFaithful == Spec => []FaithInv
<1>1. Init => FaithInv
  BY DEF Init, FaithInv, OrderInv
<1>2. TypeOK /\ FaithInv /\ [Next]_vars => FaithInv'
  <2> SUFFICES ASSUME TypeOK, FaithInv, [Next]_vars
               PROVE  FaithInv'
    OBVIOUS
  <2>1. \A r \in Requests : OrderInv(r)' /\ Steady(r)
    BY OrderKept DEF FaithInv
  <2>2. ASSUME NEW m \in recorded' PROVE Faithful(m)'
    <3>1. CASE m \in recorded
      <4>1. Faithful(m) /\ m.request \in Requests
        BY <3>1 DEF FaithInv, Faithful
      <4>2. QED
        BY <2>1, <4>1, FaithfulKept
    <3>2. CASE m \notin recorded
      BY <3>2, RecordFaithful DEF FaithInv
    <3>3. QED
      BY <3>1, <3>2
  <2>3. QED
    BY <2>1, <2>2 DEF FaithInv
<1>3. QED
  BY <1>1, <1>2, TypeCorrect, PTL DEF Spec

\* The spans of an order form one chain across both services, whichever is
\* recorded first (OrdersController.java:42, TraceContext.java:14-24).
THEOREM TraceAlwaysLinked == Spec => []TraceLinked
<1>1. FaithInv => TraceLinked
  <2> SUFFICES ASSUME FaithInv, NEW m \in recorded, NEW n \in recorded, n.request = m.request
               PROVE  LET r == m.request
                      IN  /\ m.trace = n.trace
                          /\ (m.span = <<r, "inventory">> /\ n.span = <<r, "client">>) => m.parent = n.span
                          /\ (m.span = <<r, "client">> /\ n.span = <<r, "orders">>) => m.parent = n.span
                          /\ m.span = <<r, "orders">> =>
                                m.parent = NoSpan \/ [trace |-> m.trace, span |-> m.parent] \in CallerContexts
    BY DEF TraceLinked
  <2> DEFINE r == m.request
  <2>1. r \in Requests /\ OrderInv(r) /\ Faithful(m) /\ Faithful(n)
    BY DEF FaithInv, Faithful
  <2>2. opc[r] # "idle"
    BY <2>1 DEF Faithful, FaithfulClient, FaithfulServer, FaithfulInventory
  <2>3. QED
    BY <2>1, <2>2 DEF Faithful, FaithfulClient, FaithfulServer, FaithfulInventory, OrderInv
<1>2. QED
  BY <1>1, RecordsFaithful, PTL

\* The records that two threads, or two services, make of an order agree
\* (OrdersController.java:49-82, TelemetryFilter.java:34-45).
THEOREM RecordsAlwaysAgree == Spec => []RecordsAgree
<1>1. FaithInv => RecordsAgree
  <2> SUFFICES ASSUME FaithInv, NEW s \in recorded, NEW c \in recorded,
                      s.span = <<s.request, "orders">>, c.span = <<s.request, "client">>
               PROVE  /\ c.error # "none" => s.error = c.error /\ s.status >= 500
                      /\ s.error = "none" => s.status = 200 /\ c.status = 200
                      /\ c.error \in {"none", "upstream_error"} =>
                            \A i \in recorded : i.span = <<s.request, "inventory">> =>
                                i.status = c.status /\ (i.error = "none" <=> c.error = "none")
    BY DEF RecordsAgree
  <2> DEFINE r == s.request
  <2>1. FaithfulServer(s, r) /\ r \in Requests /\ OrderInv(r)
    BY DEF FaithInv, Faithful, FaithfulClient, FaithfulServer, FaithfulInventory
  <2>2. FaithfulClient(c, r)
    BY DEF FaithInv, Faithful, FaithfulClient, FaithfulServer, FaithfulInventory
  <2>3. /\ outcome[r] \in Outcomes \ {"none"}
        /\ c.status = ClientStatus(r) /\ c.error = ErrorType(r)
    BY <2>2 DEF FaithfulClient
  <2>4. PICK failed \in BOOLEAN : /\ s.status = FilterStatus(failed, ServerStatus(r))
                                  /\ s.error = FilterError(failed, ErrorType(r))
    BY <2>1 DEF FaithfulServer
  <2>5. c.error # "none" => s.error = c.error /\ s.status >= 500
    <3>1. c.error # "none" => ServerStatus(r) \in {502, 503, 504}
      BY <2>3 DEF ErrorType, ServerStatus, ClientStatus, Outcomes
    <3>2. QED
      BY <2>3, <2>4, <3>1 DEF FilterStatus, FilterError
  <2>6. s.error = "none" => s.status = 200 /\ c.status = 200
    <3>1. s.error = "none" => outcome[r] = "ok" /\ ~failed
      <4>1. outcome[r] # "none"
        BY <2>3
      <4>2. CASE outcome[r] = "ok"
        BY <2>4, <4>2 DEF FilterError, ErrorType
      <4>3. CASE outcome[r] # "ok"
        BY <2>4, <4>1, <4>3 DEF FilterError, ErrorType
      <4>4. QED
        BY <4>2, <4>3
    <3>2. QED
      BY <2>1, <2>3, <2>4, <3>1 DEF FilterStatus, ServerStatus, ClientStatus, OrderInv
  <2>7. ASSUME c.error \in {"none", "upstream_error"},
               NEW i \in recorded, i.span = <<r, "inventory">>
        PROVE  i.status = c.status /\ (i.error = "none" <=> c.error = "none")
    <3>1. outcome[r] \in {"ok", "upstream_error"}
      BY <2>3, <2>7 DEF ErrorType
    <3>2. FaithfulInventory(i, r)
      BY <2>7 DEF FaithInv, Faithful, FaithfulClient, FaithfulServer, FaithfulInventory
    <3>3. i.status = answer[r] /\ (i.error = "none" <=> answer[r] = 200)
      BY <2>1, <3>1, <3>2 DEF FaithfulInventory, OrderInv
    <3>4. QED
      BY <2>1, <2>3, <3>1, <3>3 DEF ClientStatus, ErrorType, OrderInv
  <2>8. QED
    BY <2>5, <2>6, <2>7
<1>2. QED
  BY <1>1, RecordsFaithful, PTL
=============================================================================
