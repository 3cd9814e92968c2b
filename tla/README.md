# MNM incident investigator: models, checks and proofs

This directory is a formal model of the program under `src/`: TLA+ modules
translated from the code, TLC configurations that check them on small instances,
and proofs, checked by TLAPS, that the most important properties of every modelled
component hold for every value of the constants. `PROJECT.json` names, for each
definition, the lines of code it stands for.

To check: `tlc -workers 2 -config Agent.cfg MCAgent` (the table of runs below
gives the module of each configuration) and `tlapm AgentProofs.tla`, likewise for
the other seven `...Proofs` modules.

## 1. The system

Two Java services (orders, which calls inventory) serve synthetic traffic. Each
exports spans, metrics and logs to a local receiver, which keeps them in SQLite. An
MCP server reads them through five telemetry tools and keeps a snapshot of every
result. An investigation runs a local language model in a bounded loop over these
tools and ends with a cited assessment. A console serves the page on which a user
switches the fault, the traffic and the recovery, and starts investigations.

```
 browser page --> console (127.0.0.1) --> MCP server (relay) --> investigation API
                   |  |                        ^    \                  |
        control,   |  | traffic                |     EvidenceStore     | one task
        reset      v  v                        |                       v
            inventory <-- orders               +---- MCP session ---- agent --> Ollama
                   \         \                 |
                    +-- exporters --> receiver --> TelemetryStore --> reader
```

| Component (source) | State it keeps | Operations | What makes it hard |
|---|---|---|---|
| Investigation agent (`agent.py`, `models.py`) | turn, call count, messages, `evidence`, the tool call in flight | `run`, `_loop`, `_execute_tool`, `assessment_errors`, `incomplete` | a model that answers anything; timers and cancellation at every await; answers lost after the server stored the snapshot; three budgets that interact |
| Evidence store and reader (`mcp_server.py`) | snapshots on disk by content hash; read-only connection to the database | `call_tool`, five queries, `save`, `get`, relay | a result of several statements over a database that is being written; limits; unavailable is not empty |
| Receiver and store (`telemetry.py`) | the event tables | `ingest`, retention, bound on events | batches again, late, or too many; trimming between a query's statements |
| Exporter (`TelemetryExporter.java`) | bounded queue, loss counter, worker | `record`, `flush`, `close` | request threads against the worker, loss at every step, shutdown while recording |
| Investigation API (`api.py`) | `jobs` by insertion order, a task per job | POST, GET, evidence, lifespan | two deadlines over one run, eviction, restart |
| Page and proxies (`app.js`, `console.py`, relay) | `state.investigation`, the job id in the URL, polling flags | submit, poll, restore | stale answers, calls given up and handled later, a job lost meanwhile |
| Demo controls (`console.py`, `InventoryController.java`) | `fault_enabled`, `recovery`, a lock; the delay of inventory | fault, reset, recovery | lost and late control messages, polls that outlive the comparison they read, restarts |
| Synthetic traffic (`console.py`) | the loop task, its pending requests, four counters | start, stop, shutdown | cancelling a task in each of its stages |
| Request path (`OrdersController`, `InventoryController`, `TelemetryFilter`, `TraceContext`) | nothing across requests but the delay | one order | a timeout racing the late answer downstream, and what both leave in the telemetry |
| Dashboard (`console.py`, `app.js`) | the last metrics shown | poll and render | old answers over new ones |
| Bounded bodies (`http_boundary.py`) | bytes read | one loop | an exact limit |
| Launcher (`dev.py`) | child processes, those registered for the finally clause | start, wait until ready, watch, stop in reverse order | a signal at any instruction, a child that ignores SIGTERM or outlives a kill |

The components meet at four places. The agent calls the MCP server, which stores
a snapshot *before* it answers. The API runs the agent under a deadline of its
own. The page reaches the API only through two proxies, each with a deadline. And
what the telemetry shows depends on what the exporters managed to send.

What makes each correct, in a sentence: an investigation concludes only what the
telemetry it retrieved supports, within its budgets; a job ends once and no
other starts before; the page shows the job of its URL; after an acknowledged control
the fault state reported is the real one, until inventory restarts or a message comes
through that its call had given up on, and only such a message can spoil the window on
which recovery is judged; traffic never exceeds its cap and ends; an order is recorded
once by each service, and the two records agree and are linked; no observation is
stored twice, and none is lost uncounted but those that `close()` leaves in the queue;
what was stored is lost only by age, and each part of an answer claims no more than was
held when it was read; the launcher's exit code tells what it may have left running.
`PROJECT.json`, "hazards", lists 40 places where this is hard to test, with the
properties that cover them or, for three of them, the reason none does.

## 2. Modules

| Module | Models | Composition |
|---|---|---|
| `Investigation` | abstract: what an investigation promises | implemented by `Agent` (refinement mapping `Promise`) |
| `OneInvestigation` | abstract: what the API promises whoever posts to it | implemented by `Jobs` (`Promise`), and so by `InvestigationPage` |
| `Delivery` | abstract: what a best-effort, bounded export promises | implemented by `Exporter` (`Promise`) |
| `Agent` | `Investigator.run` and `_loop`, the assessment checks, storing before answering | `MCAgent` instantiates it |
| `Jobs` | the job table and the tasks of `api.py`, both deadlines | extended by `InvestigationPage` |
| `InvestigationPage` | pages, proxies, lost and late calls, composed with `Jobs` | `MCInvestigationPage` |
| `DemoControls` | fault, reset and recovery with inventory's control endpoint | `MCDemoControls` |
| `Traffic` | `set_traffic`, `traffic_loop`, `send_request`, shutdown | `MCTraffic` |
| `RequestPath` | one thread per order in each Java service, the filter and trace context, the reset's settling time | `MCRequestPath` |
| `Telemetry` | the receiver's transactions and the five telemetry tools over the same table | `MCTelemetry` |
| `Exporter` | the Java exporter against a lossy receiver | `MCExporter` |
| `Launcher` | `dev.py`'s `main()` with its children and signals | run directly |
| `AgentProofs`, `JobsProofs`, `DemoControlsProofs`, `TrafficProofs`, `RequestPathProofs`, `TelemetryProofs`, `ExporterProofs`, `LauncherProofs` | theorems | each extends its component's module and TLAPS; `JobsProofs` extends `InvestigationPage` |

Operators called `Mutant...` are plausible bugs in the definition that follows
them; no specification uses them. Each property is known to fail when one of them
takes the definition's place (`PROJECT.json`, "mutants").

### Agent

`pc` names the await the coroutine is in, or a synchronous section between two
awaits ("turn", "calls", "content"), so that timers and cancellations strike
exactly where asyncio can deliver them. The last await is the closing of the MCP session,
still under the deadline: the diagnosis is decided there, but a deadline, a
cancellation or a failure can still take its place. The model (Ollama) and the telemetry are
the environment: a turn answers with any number of calls, content, nothing, or an
error; each call is a submission, a rejected call or one of the permitted tools.
A snapshot's id is the hash of its content (`mcp_server.py`), so a snapshot stands for
its own id, and `Forged` holds ids the model makes up. A snapshot is saved before its
answer is lost or given up; one saved later changes nothing this run reads. Of a snapshot the model
keeps what the checks read: its tool, its availability, what it says of each service's
requests (`absent`, `none`, `clean`, `errors`), the failed orders of a log and the
downstream links of a trace. `assessment_errors` keeps one summary per service
by iterating over a *set* of ids; the order is not fixed by the language, so
`LastWins` admits every choice an order could make. The context budget in bytes is
abstracted: it may be exhausted at any turn but the first.

### Jobs and InvestigationPage

A POST is one step of the event loop: the check for a running job, the eviction
and the creation of the task do not interleave. A task then goes through
"created", "status" and "agent"; the outer deadline is armed at its first step,
the inner one after the model's status is known, and time is counted in ticks
that neither deadline can overrun. An unexpected failure may come while the status is
read as well as from the agent. A restart of the API empties the table. A page
has one call at a time of each kind (the flags `jobPolling` and the disabled
button); a call may be given up before the API sees it (`late`: it starts a job
nobody follows), after it, or be answered. The page may be reloaded at any time, also
during a call, whose answer then reaches nobody.

`OneInvestigation` sees of all this one outcome per investigation: not posted, running,
one of five ends, or lost. `Outcome` in `Jobs` says which: a job is running while its task
lives, and lost when the task is gone without an end, as after a restart. The promise is
that they are accepted in order, one at a time, that each comes to one end, with a
diagnosis exactly when it is complete and an error exactly when it is not, and that none
runs for ever. Eviction and the pages are stutters: forgetting a job does not change
what became of it.

### DemoControls

Each client runs one endpoint at a time; `lockq` is the asyncio lock with its FIFO
waiters. A control message is on the wire until inventory applies or loses it,
also after the console gave up. `setBy` keeps who set the delay as it is: the start of
inventory, a call that was waiting, or a message that came after its call had given up.
No property presumes that nothing went wrong before. Metrics are one reading out of a set; comparison
arithmetic (10 requests, ratios 0.7 to 1.3) is that of the code, on integers.

### Traffic

The life of the loop task (`created`, `loop`, `drain`, `done`) is modelled with the
semantics of `Task.cancel`: a task that never ran ends without its `finally`; one in
the loop moves to its `finally`, whose `gather` is not cancelled; one already in
`finally` has its `gather` cancelled with all pending requests.

### RequestPath

An order occupies a thread of orders (`opc`) and, from the moment its call is
accepted, one of inventory (`ipc`); the two are independent, so that orders may give
up, answer and record before inventory does, after it, or while the call is still on
its way. What both pass to `telemetry.record` is kept in `recorded` with the trace,
span and parent that `TraceContext` would give it, and with whether it falls in the
recovery window. Spans are named after the order and their place in it: random ids
differ. Time is relative: `age` counts the ticks of the orders thread, `spent` those
of the inventory thread, `clock` those since a reset was acknowledged. A thread that
has something to do does it within `Slack` ticks; that a window is clean is a claim
about real time, and needs some such bound. Either service may be stopped: its
threads are interrupted, still answer and record what they do, and then the process is
gone with what it had not recorded. Inventory may fail to write its answer while orders
still waits for it as well as after orders has gone.

### Exporter

`offer` and the counting of a refused offer are separate steps of a request thread,
because other threads and the worker run between them. A batch the worker gave up
on may never have been stored, may have been stored, or may still be on its
way (`stray`) and be stored after later batches.

`Delivery` knows neither queue nor threads: observations handed over, what the receiver
stored, what was counted as lost. What is stored stays as it came in and is never
repeated, though a batch given up on may come in after later ones; no observation is
counted twice; and while the service runs every one is settled. An
observation may be both counted and stored: the code cannot know better after a
time-out. The mapping takes an observation as handed over from the moment it is offered,
also while its thread has yet to count it, and `open` as the phase before `close()`.

### Telemetry

`Ingest` is one transaction: every event of the batch is in bounds or the batch
changes nothing; insertion ignores what is there; then expired events go, and the
oldest beyond the bound, the database choosing among equally old ones. Batches may
arrive at any time while their events are in bounds, more than once and in any
order, which is all the receiver's code asks. A tool call runs one or two statements, each
against the table of its moment, with `Ingest` in between; a call may fail at each,
be given up because a statistic would be partial, be too large, or be lost. Each
answer is saved with a history, `held`: all rows its statements could have returned.
One reader is enough: the tools are synchronous functions on the server's event loop.

### Launcher

`pc` follows `main()`: preparing, `Popen`, `append`, waiting for readiness, watching,
the except clauses, and the finally clause, which goes through the registered children
from the last to the first (`terminate`, 8 seconds, `kill`, 3 seconds). A signal
interrupts it anywhere: in the try block it leads to the except clause and exit code 0;
later it escapes, from an except clause into the finally clause and from the finally
clause out of `main()`. An exception no except clause names goes straight to the
finally clause and is raised after it. Ctrl-C reaches the children as well, SIGTERM only the launcher.
Children end when they like; none has to.

## 3. Runs

| Run | Configuration | Question | Result (distinct states) |
|---|---|---|---|
| Agent | `MCAgent`, `Agent.cfg` | Does every end of an investigation keep the promise? | holds, 134,294 |
| Agent_healthy | `MCAgent`, `Agent_healthy.cfg` | Can "healthy" coexist with cited errors? | **violated** |
| Jobs | `MCInvestigationPage`, `Jobs.cfg` | Do jobs and pages stay consistent? | holds, 33,124 |
| Jobs_budget | `MCInvestigationPage`, `Jobs_budget.cfg` | Does an exhausted time budget end in an assessment? | **violated** |
| Jobs_expired | `MCInvestigationPage`, `Jobs_expired.cfg` | Does a page recover from a lost job? | **violated** |
| DemoControls | `MCDemoControls`, `DemoControls.cfg` | Where can the reported state differ from the real one, and what can spoil a recovery window? | holds, 113,368 |
| DemoControls_unknown | `MCDemoControls`, `DemoControls_unknown.cfg` | Is an unacknowledged state reported unknown? | **violated** |
| Traffic | `MCTraffic`, `Traffic.cfg` | Is traffic bounded in number and in time, and does a start take effect? | holds, 33,288 |
| RequestPath | `MCRequestPath`, `RequestPath.cfg` | What do the two services record of an order that one of them gave up? | holds, 365,237 |
| Telemetry | `MCTelemetry`, `Telemetry.cfg` | What can the store lose, and what may an answer claim? | holds, 5,195 |
| Exporter | `MCExporter`, `Exporter.cfg` | What is lost uncounted, is anything stored twice, and is everything settled? | holds, 70,176 |
| Launcher | `Launcher`, `Launcher.cfg` | What is left running when the launcher exits? | holds, 13,701 |

### What the properties say

*Agent.* `CitationsResolve`: what a diagnosis cites or mentions was retrieved in
this run and is still in the evidence store. `FallbackIsValid`: the controller's
own conclusion always fits its schema, because each retrieved result used a call of
the budget. `AssessmentIsGrounded`: what an accepted assessment rests on, which is a
correlated failure for an incident and clean samples of both services for a healthy
one, in whatever order the summaries are read. `LastTurnReadsNothing`: telemetry is
asked only while a turn remains to conclude in. `KeepsPromise`: refinement of
`Investigation!Spec`, its liveness included: every run ends.

*Jobs.* `AtMostOneRuns`; `RunningMeansTask` (no job is listed as
running that nothing will finish, which would refuse every later POST, and no
running job is evicted); `EndedIsFinal`; `KeepsOneInvestigation`: refinement of
`OneInvestigation!Spec`, its liveness included: a job ends, or is lost with its process,
even if model and telemetry never answer; `ShowsTheLinkedJob`; `PageSeesTheEnd`.

*DemoControls.* `AcknowledgedStateHolds`: once the last control was acknowledged and none
is under way, console and inventory differ only if inventory has restarted or a message has come
through that its call had given up on. `MeasuredWithoutFault`: while a window is collected
no call waits for a control, and only a message given up on before can have
the delay on; nothing in the code excludes that one, and the run reaches it.
`VerdictFromOwnWindow` (also when polls begun before and after another reset
conclude together), `VerdictSettles` (concurrent polls may overwrite each other's
verdict, but once none reads its window any more it is final, and a comparison that is
still collecting is never replaced), `EveryCallAnswers`, and `RecoveryConcludes`, given an
open page that keeps polling: nothing else asks.

*Traffic.* `NeverMoreThanCap` over all loops; `RunningIsTrue`; `StartTakesEffect`: a
start that was answered leaves traffic running, except in the one case the code has,
a last loop that is still draining; `RequestsAddUp`, also when the HTTP client is
closed; `EveryCallAnswers`; `TrafficEnds`.

*RequestPath.* `RecordedOnce`: each service that completes an exchange records it
once, and a server span of orders comes with its client span. `RecordsAgree`: the
client span explains the server span, and where the client saw an answer it is the one
inventory recorded. `TraceLinked`: the spans form one chain across both services,
whichever was recorded first. `RecoveryWindowIsClean`: nothing the fault slowed is
recorded in the window, although a request that read the delay just before the reset
is served long after it. `EveryOrderEnds`.

*Telemetry.* `OnlyTheOldestAreLost`: an accepted event is gone only if expired or displaced by a
full table of events at least as new, although what displaced it may be deleted later. `ResultsAreHonest`:
statistics cover all that was held when they were read, a complete trace and
untruncated logs lack nothing, nothing absent is claimed available. It measures each statement's part of
an answer against the table of that statement; two statements of one call may
see different tables and disagree.

*Exporter.* `OnlyCloseLosesSilently`: while the export is open each observation is queued, under
way, stored or counted; once `close()` has begun, those in the queue, which no flush
takes any more, are lost uncounted, and no others; and the counter counts each loss once.
`SentAtMostOnce`; `KeepsDelivery`: refinement of `Delivery!Spec`, its liveness included: a
receiver that refuses or never answers does not keep an observation waiting.

*Launcher.* `ExitTellsWhatIsLeft`: unless an exception escaped, only the one child
that a signal caught between `Popen` and `append` may still run; after an escape, the
children not yet stopped as well. This is what the code does, and less than "Ctrl-C stops every child
process" (`dev.py:3`). `DependentsStopFirst`: the finally clause signals a service
only after every registered service started later has ended; a Ctrl-C, which the terminal sends
to all of them at once, is not its doing. `LauncherEnds`: after a signal, or
when a child has ended, even if other children ignore everything.

### Bounds, and why they are enough

* Agent: seven snapshots chosen so that every clause of `assessment_errors` is met
  and missed: two reads of a window that disagree because telemetry arrived late,
  a service without samples, a lost database, a failed log, its trace and the trace of
  another order. 3 turns and 4 calls are the least with which a run can gather the
  three results of an incident, read in two turns, and be rejected before it submits.
  The proofs remove these bounds for most safety properties.
* Jobs: one job remembered and two created: the second evicts the first, so
  eviction, refusal, 404 and late POSTs all happen; two pages, so that one can
  start a job while the other follows the first. Deadlines of 3 and 1 ticks let each
  of them be the first to expire; the defaults (240 s both) are the run
  Jobs_budget. With more jobs the liveness check exceeds five minutes.
* DemoControls: two clients, three control messages, one restart; three readings,
  one too small to compare, one clean, one with errors. Three messages allow a
  reset, its recovery and another reset or switch under way meanwhile.
* Traffic: two clients, a cap of 2 instead of 8, three loops, four requests: a loop can
  be stopped while it drains, started, ended and started again.
* RequestPath: one order, with or without a trace of its caller; a tick is 200 ms, so
  that the connect timeout is 2, the timeout 3, the delay 9, the settling time 15 and a
  thread at most 5 ticks late. Orders share nothing but the delay, and
  the proofs cover any number of them. Both services may be stopped.
* Launcher: the six services, three signals: one for the try block, one for an except
  clause and one for the finally clause.
* Telemetry: a failed order with its trace across both services and two later orders,
  nine events in three batches, a table of seven: the third batch trims. Statistics
  of two rows, traces of three spans and two logs, answers of four records: each limit is met and
  exceeded. A retention of three ticks and six ticks of time let batches be
  late, refused, and expire. One query is asked at a time and no property relates two, so one call is enough.
* Exporter: one served request with three observations and one client call with two,
  a queue of 3 and batches of 2: five observations overfill the queue and need three
  batches.

The cfgs turn deadlock checking off because each of these systems may stop: the
run has ended, the service is closed, or a bound is reached.

### Fairness, and why the code justifies it

* Agent: `WF(Progress)`: every await has a timer (the preflight its own, the
  session the 240 seconds), so the coroutine always moves on. The server owes nothing.
* Jobs: only deadlines are fair for a task: neither model nor telemetry has to
  answer. A page polls every second and each of its calls has a deadline. *Strong*
  fairness of `JobRead` and `Rendered` says that not every poll is lost; it is an
  assumption about the network, made only for `PageSeesTheEnd`. These imply the one weak
  fairness of `OneInvestigation`, that a running investigation ends.
* DemoControls: weak fairness of the steps of a call, each await having a deadline of 5 or
  8 seconds; the window elapses; strong fairness of recovery polls: a page
  is open and polls every two seconds (`app.js:392`), and its poll is a request of its own
  which others cannot keep out (the bound on clients is the model's). With no page open a
  comparison stays as it is.
* Traffic: the event loop runs ready tasks; the loop ends after 360 s, a request after 4 s.
* RequestPath: `WF` of the timeout, of recording and of the tick: threads run, timers fire,
  time passes. A connection owes nothing: it may never be made or answered.
* Launcher: `WF(Main)`: each of its waits has a timeout. Nothing is promised of the
  children, and nobody has to send a signal.
* Exporter: threads and the schedule run; each post ends within 1500 ms. The
  receiver owes nothing. `Delivery` states what follows from it without fairness of its
  own, since which of its steps settles an observation is nobody's choice.

## 4. What the violated runs show

1. **Healthy despite cited errors** (`Agent_healthy`, `agent.py:178-190`).
   `docs/architecture.md:67` says "A healthy conclusion cannot coexist with observed
   errors." The check looks at one summary per service, the last in the order of
   a set of ids. If two cited reads of a window disagree, or a log of a failed order
   is cited, a healthy assessment can pass.
2. **Unacknowledged control** (`DemoControls_unknown`, `console.py:67`).
   `docs/troubleshooting.md:16` says the UI reports unknown state when a control
   request cannot be acknowledged. The console keeps the value it knew before.
3. **Time budget without assessment** (`Jobs_budget`, `api.py:60,67`, `agent.py:308`).
   The docs promise an explicitly incomplete assessment on exhausted budgets. The outer deadline
   is armed earlier with the same length, so it always wins and the job fails without one.
4. **A page that never lets go** (`Jobs_expired`, `app.js:285,291`). A page that
   follows a job the API has lost goes on polling for a job that is not there and
   refuses to submit; only a reload helps. The docs tell the user to start a new
   investigation.

## 5. Proofs

Eight modules, about 6,400 proof obligations. All hold for every value of the
constants that satisfies the assumptions named in the modules.

| Module | Theorems: `Spec => []...` of the properties | Inductive invariant |
|---|---|---|
| `AgentProofs` | `TypeOK`, `FallbackIsValid`, `CitationsResolve`, `AssessmentIsGrounded`; `LastTurnReadsNothing`, `EvidenceOnlyGrows`, `Promise!Safety` (action properties) | `TypeInv`, `BudgetInv`, `ProvenanceInv`, `DecidedInv` |
| `JobsProofs` | `TypeOK`, `AtMostOneRuns`, `RunningMeansTask`, `EndedIsFinal`, `ShowsTheLinkedJob`; `KeepsTheNewest`, `Promise!Safety` | `JobsInv`, `PageInv`, `RecordInv`, `CallInv`, `PromiseInv` |
| `DemoControlsProofs` | `TypeOK`, `AcknowledgedStateHolds`, `MeasuredWithoutFault`, `VerdictFromOwnWindow`, `VerdictSettles`; `LineInv` | `LockInv`, `MessageInv`, `WindowInv`, `LineInv`, `SizeInv`, `KindInv` |
| `TrafficProofs` | `TypeOK`, `NeverMoreThanCap`, `RequestsAddUp`, `RunningIsTrue`, `StartTakesEffect`; `StopTakesEffect`, `LineInv` | `RequestInv`, `ControlInv`, `LineInv`, `SizeInv` |
| `RequestPathProofs` | `TypeOK`, `RecoveryWindowIsClean`, `RecordedOnce`, `TraceLinked`, `RecordsAgree` | `SlowInv`, `RecordInv`, `FaithInv` |
| `TelemetryProofs` | `TypeOK`, `OnlyTheOldestAreLost`, `ResultsAreHonest`; `RepeatsDisplaceNothing` | `LossInv`, `CallInv`, `EvidenceInv` |
| `ExporterProofs` | `TypeOK`, `OnlyCloseLosesSilently`, `SentAtMostOnce`; `Promise!Safety` | `Typed`, `Apart`, `OnceEach`, `StraysCounted`, `Accounted` |
| `LauncherProofs` | `TypeOK`, `StartedInOrder`, `ExitTellsWhatIsLeft`, `DependentsStopFirst` | `StopInv` |

Why the strengthenings are needed:

* *Agent.* `TypeInv` adds where in a turn the coroutine may be: a turn in progress is
  below the limit, and a turn that may read is not the last. `BudgetInv` counts: the retrieved
  results and the one in flight are at most the calls made, which bounds citations; a cardinality
  argument over `FiniteSetTheorems`. `ProvenanceInv` says where things come from:
  evidence and what a request saved are in the store, and an outcome cites evidence.
  `DecidedInv` carries a decided diagnosis through the closing of the session: it stays one
  that `Investigation` justifies. `CitationsResolve` and `AssessmentIsGrounded` say nothing about the evidence before the
  end, so they are not inductive alone. `PromiseKept` maps each step to a step of
  `Investigation` or a stutter.
* *Jobs.* A POST is accepted only when no known job is running; with `RunningMeansTask`
  no task lives then, so that neither the new job nor the eviction makes a second one.
  `PageInv` adds what an answer under way to a page says about the job of its URL.
  The dictionary's bound follows from a stronger fact, `KeepsTheNewest`: it holds the last
  jobs without a gap, so that an eviction takes the oldest, and no id twice. `CallInv`
  counts the POSTs that may still be accepted against the ids left. `OneInvestigationKept`
  needs one more fact, `PromiseInv`, that a job which is still running has neither a diagnosis nor an
  error: an end then is the only thing that is ever said of it. A POST maps to `Accept`,
  each way a task ends to `End`, a restart to the loss of the one job that runs.
* *DemoControls.* Only the lock's holder waits for a control message, and nobody does
  during a comparison (`LockInv`). The holder's message is the newest; once it is applied
  inventory is as the holder wanted it, unless a message nobody waits for came after it, and then
  `setBy` says so (`MessageInv`); a delay that is on in a comparison therefore came
  late; and a poll reads only a window that is over (`WindowInv`). That
  the messages stay within their bound is the subject of `LineInv` and `SizeInv`: a call
  that needs the lock is in its line once, leaves it with its answer, and each call in the
  line sends at most one message, of which a comparison is the acknowledgement.
* *Traffic.* The cap is enforced loop by loop. It holds over all loops because every
  request alive is of the current loop, and a task that is not in its loop or its
  finally clause has none (`RequestInv`). `ControlInv` ties a pending cancellation to
  the stop, or shutdown, that waits for it. The same fact gives the counterpart of
  `StartTakesEffect`: an answered stop leaves no request. `LineInv` says that who is in a call is in the line for the lock, once; `SizeInv`
  counts the starts in it against the loops, and the requests not yet sent against those created.
* *RequestPath.* A slow order was accepted before the reset was acknowledged, so each of its threads is
  at least as old as the window's clock (`SlowInv`); with the bounds of `TypeOK` it ends before the window begins, given
  `Delay + Slack < Settle`. `FaithInv` says that a
  record still tells what its service knows of the order, inventory's also when orders timed out or
  failed meanwhile, which makes the two records comparable.
* *Telemetry.* The step that needs `LossInv` is a transaction after which an event was displaced long
  ago (`DisplacedStays`): the table was then full of events at least as new, none of them is
  expired if the displaced one is not, so the table stays full, and a new event can only take the
  place of one that is no newer. `CallInv` says of each statement already run that what it returned is all that was
  held unless it is marked truncated, and that a statistic goes on only over such statements.
  Type correctness (`EvidenceInv`) goes through the five tools: each makes of any such rows
  an answer of its own kind.
* *Exporter.* `Apart` says where an observation can be: queued, it is nowhere else; in the batch, it
  is not counted. A batch given up on is counted when it is and may be stored
  later, once (`StraysCounted`). With these, `DeliveryKept` is a step simulation: storing a
  batch, in time or late, extends what is stored by observations that are not in it; a
  batch given up and a refused offer add to the count what was not counted; all else is a stutter
  but the recording itself.
* *Launcher.* Services are started in order, the one just started not yet registered
  (`StartedInOrder`); once the finally clause has begun, the registered children above `left`
  have ended, and an ended child stays ended.

Assumptions, each named in the module that declares the constants: budgets, limits
and capacities are positive where the code's are; `MaxToolCalls <= MaxCitations`, true
of the code's constants, without which the fallback could cite more than its schema
allows; no forged id is the id of a snapshot, which is what a hash gives; events and
queries are of their record types, and there are finitely many events; `ConnectTimeout <= Timeout <= Delay` and
`Delay + Slack < Settle` (400, 600, 1800 and 3000 ms leave threads 1.2 s); a
caller's trace context parses, and so does the one the client sends.

Only model-checked: liveness (`PageSeesTheEnd`, `EveryCallAnswers`, `RecoveryConcludes`,
`TrafficEnds`, `EveryOrderEnds`, `LauncherEnds`, and the liveness halves of the three
refinements `KeepsPromise`, `KeepsOneInvestigation` and `KeepsDelivery`), which is beyond
the prover: it follows from fairness, which is about when actions are enabled. Every
invariant and every action property that a passing run checks is a theorem.

## 6. Not modelled

* The dashboard's panels and their refresh (`app.js:124`): what a panel shows between two
  polls, three seconds apart, is no state the system acts on.
* Bounded request bodies (`http_boundary.py`): a sequential loop with one comparison
  over the chunks of one body; its outcome, accepted or refused before anything
  changes, is part of the calls that use it.
* The setup, smoke, evaluation and screenshot scripts are sequential drivers
  run by hand, and packaging has no behaviour of its own.
* Rendering and wording, redaction, logging, latencies and quantiles,
  validation of arguments and schemas (an answer or request that fails its checks is one outcome).
* Looking an answer up again (`EvidenceStore.get`, the evidence endpoints): these only
  read what is never changed. The timeline of a job is only displayed.
* What the launcher prepares (settings, tools, build, commands and environments): it
  succeeds or fails as one step.

## 7. What is open

* The closed window of an investigation against exports still in flight (`api.py:82`). A
  span bears the time its request began; a delayed request is recorded 1.8 seconds later,
  and its observations can wait another 1.7 behind a post that times out, longer than the three
  seconds of grace. Composing `RequestPath`, `Exporter` and `Telemetry` with their timing
  gives instances too large to check; `Agent` allows two reads of a window to disagree.
* The refresh of the dashboard after a control (`app.js:124`).
* Agreement between the statements of one tool call (`mcp_server.py:146,214`). Each opens a
  connection of its own, and the code promises no more than `ResultsAreHonest` says of each.
  These three are the listed hazards without a property.
