------------------------------ MODULE Traffic ------------------------------
(***************************************************************************)
(* The synthetic traffic of the console: DemoState.set_traffic, the task   *)
(* running traffic_loop, and the send_request tasks it creates             *)
(* (console.py), with the /api/demo/traffic endpoint and the shutdown that *)
(* start and stop it.                                                      *)
(*                                                                         *)
(* A stop cancels the loop task.  What that does depends on where the task *)
(* is: a task that never ran just ends; one in the loop goes to its        *)
(* finally clause and waits there for the requests in flight; one that     *)
(* already waits there, because the 360 seconds were over, has its gather  *)
(* cancelled, and the gather the requests.                                 *)
(***************************************************************************)
EXTENDS Naturals, FiniteSets, Sequences, SequencesExt

CONSTANTS
    Clients,   \* concurrent calls of the traffic endpoint
    Cap,       \* requests in flight at most (8)
    MaxLoops,  \* bound on the loops started
    MaxSent    \* bound on the requests created

ASSUME TrafficAssumption ==
    Cap \in Nat \ {0} /\ MaxLoops \in Nat /\ MaxSent \in Nat

VARIABLES
    op,         \* per client: "idle", "start", "stop" or "stopping"
    lockq,      \* state.lock: its holder and the waiters behind it
    running,    \* traffic["running"]
    task,       \* traffic_task: "none", "created", "loop", "drain" or "done"
    cancelled,  \* a cancellation was requested and not yet delivered
    loops,      \* loops started; the last one is the current task's
    created,    \* requests created
    fresh,      \* request tasks that have not run yet
    flying,     \* requests sent and unanswered
    sent, successes, failures,  \* the counters of `traffic`
    aborted,    \* history: requests sent and cancelled in flight
    server      \* "up", "stopping" (lifespan shutdown) or "down"

calls == <<op, lockq>>
requests == <<created, fresh, flying, sent, successes, failures, aborted>>
vars == <<calls, running, task, cancelled, loops, requests, server>>

Init ==
    /\ op = [c \in Clients |-> "idle"] /\ lockq = <<>>
    /\ running = FALSE /\ task = "none" /\ cancelled = FALSE /\ loops = 0
    /\ created = 0 /\ fresh = {} /\ flying = {}
    /\ sent = 0 /\ successes = 0 /\ failures = 0 /\ aborted = 0
    /\ server = "up"

\* The pending set of the current loop.
Pending == {r \in fresh \cup flying : r.loop = loops}

Ended == task \in {"none", "done"}
-----------------------------------------------------------------------------
(* The traffic endpoint, under state.lock.                                 *)

Holds(c) == lockq # <<>> /\ Head(lockq) = c

Queue(c, what) ==
    /\ op[c] = "idle" /\ server = "up"
    /\ op' = [op EXCEPT ![c] = what] /\ lockq' = Append(lockq, c)
    /\ UNCHANGED <<running, task, cancelled, loops, requests, server>>

\* Each start in the line may start a loop: MaxLoops bounds them.
CallStart(c) == loops + Cardinality({d \in Clients : op[d] = "start"}) < MaxLoops /\ Queue(c, "start")
CallStop(c) == Queue(c, "stop")

Answer(c) ==
    /\ op' = [op EXCEPT ![c] = "idle"]
    /\ lockq' = Tail(lockq)

\* Mutants: a loop that still waits for its requests does not stop a new one, or
\* the task of a loop that has ended does.
MutantStart(c) ==
    /\ op[c] = "start" /\ Holds(c) /\ Answer(c)
    /\ IF Ended \/ task = "drain"
         THEN running' = TRUE /\ task' = "created" /\ loops' = loops + 1
         ELSE UNCHANGED <<running, task, loops>>
    /\ UNCHANGED <<cancelled, requests, server>>
MutantStartOnce(c) ==
    /\ op[c] = "start" /\ Holds(c) /\ Answer(c)
    /\ IF task = "none"
         THEN running' = TRUE /\ task' = "created" /\ loops' = loops + 1
         ELSE UNCHANGED <<running, task, loops>>
    /\ UNCHANGED <<cancelled, requests, server>>

\* set_traffic(True) starts a loop unless the last task is not done, which
\* includes the time it waits for its requests.
Start(c) ==
    /\ op[c] = "start" /\ Holds(c) /\ Answer(c)
    /\ IF Ended
         THEN running' = TRUE /\ task' = "created" /\ loops' = loops + 1
         ELSE UNCHANGED <<running, task, loops>>
    /\ UNCHANGED <<cancelled, requests, server>>

\* Mutant: a stop awaits the task without asking whether there is one.
MutantStopNothing(c) ==
    /\ op[c] = "stop" /\ Holds(c) /\ Ended
    /\ op' = [op EXCEPT ![c] = "stopping"]
    /\ UNCHANGED <<lockq, running, task, cancelled, loops, requests, server>>

\* set_traffic(False) with no task to stop.
StopNothing(c) ==
    /\ op[c] = "stop" /\ Holds(c) /\ Ended
    /\ Answer(c)
    /\ UNCHANGED <<running, task, cancelled, loops, requests, server>>

\* set_traffic(False) cancels the task and waits for it ...
Stop(c) ==
    /\ op[c] = "stop" /\ Holds(c) /\ ~Ended
    /\ op' = [op EXCEPT ![c] = "stopping"]
    /\ cancelled' = TRUE
    /\ UNCHANGED <<lockq, running, task, loops, requests, server>>

\* Mutant: it relies on the loop's finally clause to clear the flag.
MutantStopped(c) ==
    /\ op[c] = "stopping" /\ task = "done"
    /\ Answer(c)
    /\ UNCHANGED <<running, task, cancelled, loops, requests, server>>

\* ... and clears the flag once more, for a task that never ran.
Stopped(c) ==
    /\ op[c] = "stopping" /\ task = "done"
    /\ running' = FALSE
    /\ Answer(c)
    /\ UNCHANGED <<task, cancelled, loops, requests, server>>

\* The server stops once its requests are answered; the lifespan then calls
\* set_traffic(False) and closes the HTTP client.
ShutdownBegins ==
    /\ server = "up" /\ lockq = <<>>
    /\ server' = "stopping"
    /\ cancelled' = ~Ended
    /\ UNCHANGED <<calls, running, task, loops, requests>>

ShutdownEnds ==
    /\ server = "stopping" /\ Ended
    /\ server' = "down"
    /\ running' = FALSE
    /\ UNCHANGED <<calls, task, cancelled, loops, requests>>
-----------------------------------------------------------------------------
(* The loop task.                                                          *)

LoopBegins ==
    /\ task = "created" /\ ~cancelled
    /\ task' = "loop" /\ running' = TRUE
    /\ UNCHANGED <<calls, cancelled, loops, requests, server>>

\* A task cancelled before it first ran ends without its finally clause.
NeverBegins ==
    /\ task = "created" /\ cancelled
    /\ task' = "done" /\ cancelled' = FALSE
    /\ UNCHANGED <<calls, running, loops, requests, server>>

\* A tick creates a request unless Cap of them are pending.
Tick ==
    /\ task = "loop" /\ ~cancelled
    /\ Cardinality(Pending) < Cap /\ created < MaxSent
    /\ created' = created + 1
    /\ fresh' = fresh \cup {[id |-> created + 1, loop |-> loops]}
    /\ UNCHANGED <<calls, running, task, cancelled, loops, flying, sent, successes,
                   failures, aborted, server>>

\* Mutant: the loop has no deadline, only a stop ends it.
MutantLoopEnds ==
    /\ task = "loop" /\ cancelled
    /\ task' = "drain" /\ running' = FALSE /\ cancelled' = FALSE
    /\ UNCHANGED <<calls, loops, requests, server>>

\* The 360 seconds are over, or the stop arrives: the finally clause clears the
\* flag and gathers the pending requests.
LoopEnds ==
    /\ task = "loop"
    /\ task' = "drain" /\ running' = FALSE /\ cancelled' = FALSE
    /\ UNCHANGED <<calls, loops, requests, server>>

Drained ==
    /\ task = "drain" /\ ~cancelled /\ Pending = {}
    /\ task' = "done"
    /\ UNCHANGED <<calls, running, cancelled, loops, requests, server>>

\* Mutant: the requests are cancelled but their outcome is counted anyway.
MutantDrainCancelled ==
    /\ task = "drain" /\ cancelled
    /\ task' = "done" /\ cancelled' = FALSE
    /\ fresh' = fresh \ Pending /\ flying' = flying \ Pending
    /\ failures' = failures + Cardinality(Pending)
    /\ UNCHANGED <<calls, running, loops, created, sent, successes, aborted, server>>

\* A stop that finds the finally clause waiting cancels the requests: those in
\* flight are neither successes nor failures, those not begun are never sent.
DrainCancelled ==
    /\ task = "drain" /\ cancelled
    /\ task' = "done" /\ cancelled' = FALSE
    /\ fresh' = fresh \ Pending /\ flying' = flying \ Pending
    /\ aborted' = aborted + Cardinality(flying \cap Pending)
    /\ UNCHANGED <<calls, running, loops, created, sent, successes, failures, server>>
-----------------------------------------------------------------------------
(* send_request.                                                           *)

Send(r) ==
    /\ r \in fresh
    /\ fresh' = fresh \ {r} /\ flying' = flying \cup {r}
    /\ sent' = sent + 1
    /\ UNCHANGED <<calls, running, task, cancelled, loops, created, successes, failures,
                   aborted, server>>

\* The answer, or an HTTPError within 4 seconds.
Finish(r) ==
    /\ r \in flying
    /\ flying' = flying \ {r}
    /\ \/ successes' = successes + 1 /\ UNCHANGED failures
       \/ failures' = failures + 1 /\ UNCHANGED successes
    /\ UNCHANGED <<calls, running, task, cancelled, loops, created, fresh, sent, aborted,
                   server>>

LoopTask == LoopBegins \/ NeverBegins \/ LoopEnds \/ Drained \/ DrainCancelled
Step(c) == Start(c) \/ StopNothing(c) \/ Stop(c) \/ Stopped(c)

Next ==
    \/ \E c \in Clients : CallStart(c) \/ CallStop(c) \/ Step(c)
    \/ ShutdownBegins \/ ShutdownEnds
    \/ LoopTask \/ Tick
    \/ \E r \in fresh \cup flying : Send(r) \/ Finish(r)

\* The event loop runs what is ready; the loop ends after 360 seconds and a
\* request after 4.
Fairness ==
    /\ WF_vars(LoopTask) /\ WF_vars(ShutdownEnds)
    /\ WF_vars(\E r \in fresh \cup flying : Send(r) \/ Finish(r))
    /\ \A c \in Clients : WF_vars(Step(c))

Spec == Init /\ [][Next]_vars /\ Fairness
-----------------------------------------------------------------------------
Request == [id : 1..MaxSent, loop : 1..MaxLoops]

\* Every variable stays in its range, and no request is in two states.
TypeOK ==
    /\ op \in [Clients -> {"idle", "start", "stop", "stopping"}]
    /\ lockq \in Seq(Clients) /\ IsInjective(lockq)
    /\ running \in BOOLEAN /\ cancelled \in BOOLEAN
    /\ task \in {"none", "created", "loop", "drain", "done"}
    /\ loops \in 0..MaxLoops /\ created \in 0..MaxSent
    /\ fresh \subseteq Request /\ flying \subseteq Request
    /\ fresh \cap flying = {}
    /\ {sent, successes, failures, aborted} \subseteq 0..MaxSent
    /\ server \in {"up", "stopping", "down"}

\* "At most eight requests concurrently" (architecture.md:73), counted over all
\* loops: stopping and starting again never adds a second loop's requests to
\* those the first one left behind.
NeverMoreThanCap == Cardinality(fresh \cup flying) <= Cap

\* Unless a call is just stopping it, the dashboard says that traffic is running
\* exactly while there is a loop task that creates requests, also after a task
\* was cancelled before its first step (console.py:79-105).
RunningIsTrue ==
    (server = "up" /\ \A c \in Clients : op[c] # "stopping")
        => (running <=> task \in {"created", "loop"})

\* A start that is answered has taken effect: traffic is running, unless the last
\* loop was still waiting for its requests, the one case in which the page's
\* "Traffic started" is wrong (console.py:99, app.js:381).
StartTakesEffect ==
    [][\A c \in Clients :
          op[c] = "start" /\ op'[c] = "idle" => running' \/ task = "drain"]_vars

\* Every request sent is in flight, a success, a failure, or was cut off by a
\* stop that found the loop already waiting; none is counted twice, and none is
\* left when the shutdown closes the HTTP client (console.py:70-77,96,121-122).
RequestsAddUp ==
    /\ sent = successes + failures + aborted + Cardinality(flying)
    /\ server = "down" => fresh \cup flying = {}

\* Every call of the traffic endpoint answers, although a stop keeps the lock
\* until the requests in flight have ended.
EveryCallAnswers == \A c \in Clients : (op[c] # "idle") ~> (op[c] = "idle")

\* Traffic is bounded in time: a loop that runs ends, even if nobody stops it
\* (architecture.md:73).
TrafficEnds == running ~> ~running
=============================================================================
