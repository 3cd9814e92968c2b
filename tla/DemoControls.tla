---------------------------- MODULE DemoControls ----------------------------
(***************************************************************************)
(* The operator controls of the console: the fault switch, the reset and   *)
(* the recovery comparison (console.py, DemoState and the /api/demo        *)
(* endpoints), with the control endpoint of inventory-service              *)
(* (InventoryController.java).                                             *)
(*                                                                         *)
(* Requests of several browsers interleave at the awaits.  fault and reset *)
(* hold an asyncio.Lock, whose waiters are served first come first served: *)
(* lockq is the line, its head the holder.  recovery takes no lock.  A     *)
(* control message to inventory can be applied and its answer lost, be     *)
(* lost itself, or be applied after the console gave up on it.             *)
(***************************************************************************)
EXTENDS Naturals, Sequences, SequencesExt

CONSTANTS
    Clients,      \* concurrent requests the console serves
    Readings,     \* what read_metrics can return: [Services -> Measurement]
    MaxPosts,     \* bound on the control messages sent
    MaxRestarts   \* bound on the restarts of inventory and console

ASSUME ControlsAssumption == MaxPosts \in Nat /\ MaxRestarts \in Nat

Services == {"orders-service", "inventory-service"}
Measurement == [available : BOOLEAN, requests : Nat, errors : Nat]

NoReading == [window |-> 0]
Idle == [pc |-> "idle"]

VARIABLES
    op,            \* per client: the endpoint it is in, and that call's locals
    lockq,         \* state.lock: its holder and the waiters behind it
    faultEnabled,  \* state.fault_enabled: "on", "off" or "unknown"
    snaps,         \* the recovery snapshots made so far
    current,       \* state.recovery: the index of the last one, 0 for None
    posts,         \* control messages sent so far
    wire,          \* those inventory has neither applied nor lost
    applied,       \* those applied, whose answer is on its way
    delayed,       \* inventory's AtomicBoolean: "on" or "off"
    restarts,
    setBy,         \* history: what set delayed last, inventory's "start", a message
                   \* of a "call" in progress, or one sent by a call that is over ("late")
    lastControl    \* history: how the console's last control attempt ended

console == <<op, lockq, faultEnabled, snaps, current>>
inventory == <<wire, applied, delayed>>
history == <<restarts, setBy, lastControl>>
vars == <<console, posts, inventory, history>>

Init ==
    /\ op = [c \in Clients |-> Idle]
    /\ lockq = <<>>
    /\ faultEnabled = "unknown"
    /\ snaps = <<>> /\ current = 0
    /\ posts = 0 /\ wire = {} /\ applied = {} /\ delayed = "off"
    /\ restarts = 0 /\ setBy = "start" /\ lastControl = "none"
-----------------------------------------------------------------------------
(* The comparison of two equally long windows.                             *)

\* Enough requests in both windows, at a comparable volume (0.7 to 1.3).
Sufficient(before, after) ==
    \A s \in Services :
        /\ before[s].available /\ after[s].available
        /\ before[s].requests >= 10 /\ after[s].requests >= 10
        /\ 7 * before[s].requests <= 10 * after[s].requests
        /\ 10 * after[s].requests <= 13 * before[s].requests

Summary(before, after) ==
    CASE ~Sufficient(before, after)                 -> "incomparable"
      [] \A s \in Services : after[s].errors = 0    -> "no errors observed"
      [] OTHER                                      -> "errors remain"

Collecting == current # 0 /\ snaps[current].status = "collecting"

Holds(c) == lockq # <<>> /\ Head(lockq) = c
Release == lockq' = Tail(lockq)
Return(c) == op' = [op EXCEPT ![c] = Idle]

\* A request reaches an endpoint that takes the lock.  Each call in the line
\* may send one control message: MaxPosts bounds them.
Enter(c, call) ==
    /\ op[c].pc = "idle" /\ posts + Len(lockq) < MaxPosts
    /\ op' = [op EXCEPT ![c] = call]
    /\ lockq' = Append(lockq, c)
    /\ UNCHANGED <<faultEnabled, snaps, current, posts, inventory, history>>

CallFault(c, want) == Enter(c, [pc |-> "fault", want |-> want])
CallReset(c) == Enter(c, [pc |-> "reset", want |-> "off"])

Posted(c) == op[c].pc \in {"fault posted", "reset posted"}

\* The request of client c to inventory's control endpoint leaves.
Post(c, call) ==
    /\ posts' = call.post
    /\ wire' = wire \cup {[post |-> call.post, want |-> call.want]}
    /\ op' = [op EXCEPT ![c] = call]
    /\ UNCHANGED <<lockq, faultEnabled, snaps, current, applied, delayed, history>>

\* Mutant: the refusal keeps the lock.
MutantFaultRefused(c) ==
    /\ op[c].pc = "fault" /\ Holds(c) /\ Collecting
    /\ Return(c)
    /\ UNCHANGED <<lockq, faultEnabled, snaps, current, posts, inventory, history>>

\* fault() is refused while a recovery is measured.
FaultRefused(c) ==
    /\ op[c].pc = "fault" /\ Holds(c) /\ Collecting
    /\ Return(c) /\ Release
    /\ UNCHANGED <<faultEnabled, snaps, current, posts, inventory, history>>

\* Mutants: the switch does not wait for the lock, or not for the measurement.
MutantFaultPostUnlocked(c) ==
    /\ op[c].pc = "fault" /\ ~Collecting
    /\ Post(c, [pc |-> "fault posted", want |-> op[c].want, post |-> posts + 1])
MutantFaultPostAnyTime(c) ==
    /\ op[c].pc = "fault" /\ Holds(c)
    /\ Post(c, [pc |-> "fault posted", want |-> op[c].want, post |-> posts + 1])

FaultPost(c) ==
    /\ op[c].pc = "fault" /\ Holds(c) /\ ~Collecting
    /\ Post(c, [pc |-> "fault posted", want |-> op[c].want, post |-> posts + 1])

\* A reset while one is collecting answers with recovery(), under the lock.
ResetAgain(c) ==
    /\ op[c].pc = "reset" /\ Holds(c) /\ Collecting
    /\ IF snaps[current].elapsed
         THEN op' = [op EXCEPT ![c] = [pc |-> "reading", snap |-> current]] /\ UNCHANGED lockq
         ELSE Return(c) /\ Release
    /\ UNCHANGED <<faultEnabled, snaps, current, posts, inventory, history>>

\* reset() reads the window before, then clears the delay.
ResetReads(c, r) ==
    /\ op[c].pc = "reset" /\ Holds(c) /\ ~Collecting
    /\ Post(c, [pc |-> "reset posted", want |-> "off", post |-> posts + 1, before |-> r])

\* The acknowledgement arrives within 5 s: the state is known, and a reset
\* starts to measure a new window.
PostAcked(c) ==
    /\ Posted(c)
    /\ op[c].post \in applied
    /\ faultEnabled' = op[c].want
    /\ IF op[c].pc = "reset posted"
         THEN /\ snaps' = Append(snaps, [status |-> "collecting", elapsed |-> FALSE,
                                         before |-> op[c].before, after |-> NoReading,
                                         summary |-> "none"])
              /\ current' = Len(snaps) + 1
         ELSE UNCHANGED <<snaps, current>>
    /\ Return(c) /\ Release
    /\ applied' = applied \ {op[c].post}
    /\ lastControl' = "acknowledged"
    /\ UNCHANGED <<posts, wire, delayed, restarts, setBy>>

\* Anything else is an HTTPError and a 503: inventory is unreachable, rejects
\* the request, or its answer does not come in time.
PostFailed(c) ==
    /\ Posted(c)
    /\ Return(c) /\ Release
    /\ applied' = applied \ {op[c].post}
    /\ lastControl' = "failed"
    /\ UNCHANGED <<faultEnabled, snaps, current, posts, wire, delayed, restarts, setBy>>

\* Mutant: recovery() measures again after it has concluded.
MutantCallRecovery(c) ==
    /\ op[c].pc = "idle" /\ current # 0 /\ snaps[current].elapsed
    /\ op' = [op EXCEPT ![c] = [pc |-> "reading", snap |-> current]]
    /\ UNCHANGED <<lockq, faultEnabled, snaps, current, posts, inventory, history>>

\* recovery() once the window, and three seconds of export grace, are over.
\* Before that, and after it concluded, it only reports.
CallRecovery(c) ==
    /\ op[c].pc = "idle" /\ Collecting /\ snaps[current].elapsed
    /\ op' = [op EXCEPT ![c] = [pc |-> "reading", snap |-> current]]
    /\ UNCHANGED <<lockq, faultEnabled, snaps, current, posts, inventory, history>>

\* Mutants: the verdict goes into the current snapshot, the lock of a repeated
\* reset is kept, or an insufficient comparison goes on collecting.
MutantConcludeCurrent(c, r) ==
    /\ op[c].pc = "reading" /\ current # 0
    /\ LET b == snaps[current].before
       IN  snaps' = [snaps EXCEPT
              ![current].after = [window |-> op[c].snap, values |-> r],
              ![current].status = IF Sufficient(b, r) THEN "complete" ELSE "insufficient",
              ![current].summary = Summary(b, r)]
    /\ Return(c)
    /\ IF Holds(c) THEN Release ELSE UNCHANGED lockq
    /\ UNCHANGED <<faultEnabled, current, posts, inventory, history>>
MutantConcludeLocked(c, r) ==
    /\ op[c].pc = "reading"
    /\ LET i == op[c].snap
           b == snaps[i].before
       IN  snaps' = [snaps EXCEPT
              ![i].after = [window |-> i, values |-> r],
              ![i].status = IF Sufficient(b, r) THEN "complete" ELSE "insufficient",
              ![i].summary = Summary(b, r)]
    /\ Return(c)
    /\ UNCHANGED <<lockq, faultEnabled, current, posts, inventory, history>>
MutantConcludeRetries(c, r) ==
    /\ op[c].pc = "reading"
    /\ LET i == op[c].snap
           b == snaps[i].before
       IN  snaps' = IF Sufficient(b, r)
              THEN [snaps EXCEPT ![i].after = [window |-> i, values |-> r],
                                 ![i].status = "complete", ![i].summary = Summary(b, r)]
              ELSE snaps
    /\ Return(c)
    /\ IF Holds(c) THEN Release ELSE UNCHANGED lockq
    /\ UNCHANGED <<faultEnabled, current, posts, inventory, history>>

\* The measurement of the window after arrives: the verdict is written into
\* the snapshot the call looked at, whichever is current by now.
Conclude(c, r) ==
    /\ op[c].pc = "reading"
    /\ LET i == op[c].snap
           b == snaps[i].before
       IN  snaps' = [snaps EXCEPT
              ![i].after = [window |-> i, values |-> r],
              ![i].status = IF Sufficient(b, r) THEN "complete" ELSE "insufficient",
              ![i].summary = Summary(b, r)]
    /\ Return(c)
    /\ IF Holds(c) THEN Release ELSE UNCHANGED lockq
    /\ UNCHANGED <<faultEnabled, current, posts, inventory, history>>
-----------------------------------------------------------------------------
(* Time, inventory-service and restarts.                                   *)

WindowElapses ==
    /\ Collecting /\ ~snaps[current].elapsed
    /\ snaps' = [snaps EXCEPT ![current].elapsed = TRUE]
    /\ UNCHANGED <<op, lockq, faultEnabled, current, posts, inventory, history>>

\* A call still waits for the answer to message m.
Awaited(m) == \E c \in Clients : Posted(c) /\ op[c].post = m.post

\* inventory's control endpoint sets the delay and answers.
Apply(m) ==
    /\ m \in wire
    /\ wire' = wire \ {m}
    /\ delayed' = m.want
    /\ applied' = IF Awaited(m) THEN applied \cup {m.post} ELSE applied
    /\ setBy' = IF Awaited(m) THEN "call" ELSE "late"
    /\ UNCHANGED <<console, posts, restarts, lastControl>>

Lose(m) ==
    /\ m \in wire
    /\ wire' = wire \ {m}
    /\ UNCHANGED <<console, posts, applied, delayed, history>>

\* inventory restarts without the delay; its connections are gone.
InventoryRestarts ==
    /\ restarts < MaxRestarts /\ restarts' = restarts + 1
    /\ wire' = {} /\ applied' = {} /\ delayed' = "off"
    /\ setBy' = "start"
    /\ UNCHANGED <<console, posts, lastControl>>

\* The console restarts: all it knew is gone, what it sent is not.
ConsoleRestarts ==
    /\ restarts < MaxRestarts /\ restarts' = restarts + 1
    /\ op' = [c \in Clients |-> Idle] /\ lockq' = <<>>
    /\ faultEnabled' = "unknown" /\ snaps' = <<>> /\ current' = 0
    /\ applied' = {}
    /\ lastControl' = "none"
    /\ UNCHANGED <<posts, wire, delayed, setBy>>

\* The steps of a call in progress.
Step(c) ==
    \/ FaultRefused(c) \/ FaultPost(c)
    \/ ResetAgain(c) \/ \E r \in Readings : ResetReads(c, r)
    \/ PostAcked(c) \/ PostFailed(c)
    \/ \E r \in Readings : Conclude(c, r)

Next ==
    \/ \E c \in Clients :
          \/ \E want \in {"on", "off"} : CallFault(c, want)
          \/ CallReset(c)
          \/ CallRecovery(c)
          \/ Step(c)
    \/ WindowElapses
    \/ \E m \in wire : Apply(m) \/ Lose(m)
    \/ InventoryRestarts \/ ConsoleRestarts

\* Every await of a call has a deadline (5 s for the control message, 8 s for a
\* measurement), time passes, and an open page polls recovery every two seconds:
\* a poll is a request of its own, which other requests cannot keep out (Clients
\* only bounds how many are served at once), hence the strong fairness.
Fairness ==
    /\ \A c \in Clients : WF_vars(Step(c))
    /\ WF_vars(WindowElapses)
    /\ SF_vars(\E c \in Clients : CallRecovery(c))

Spec == Init /\ [][Next]_vars /\ Fairness
-----------------------------------------------------------------------------
Calls ==
    {Idle} \cup [pc : {"fault"}, want : {"on", "off"}]
           \cup [pc : {"reset"}, want : {"off"}]
           \cup [pc : {"fault posted"}, want : {"on", "off"}, post : 1..MaxPosts]
           \cup [pc : {"reset posted"}, want : {"off"}, post : 1..MaxPosts, before : Readings]
           \cup [pc : {"reading"}, snap : 1..MaxPosts]

Snapshot ==
    [status : {"collecting", "complete", "insufficient"}, elapsed : BOOLEAN,
     before : Readings,
     after : {NoReading} \cup [window : 1..MaxPosts, values : Readings],
     summary : {"none", "incomparable", "no errors observed", "errors remain"}]

\* Every variable stays in its range, and the clients in the line for the lock
\* are in it once.
TypeOK ==
    /\ op \in [Clients -> Calls]
    /\ lockq \in Seq(Clients) /\ IsInjective(lockq)
    /\ faultEnabled \in {"on", "off", "unknown"}
    /\ snaps \in Seq(Snapshot) /\ current = Len(snaps)
    /\ posts \in 0..MaxPosts
    /\ wire \subseteq [post : 1..MaxPosts, want : {"on", "off"}]
    /\ applied \subseteq 1..MaxPosts
    /\ delayed \in {"on", "off"}
    /\ restarts \in 0..MaxRestarts /\ setBy \in {"start", "call", "late"}
    /\ lastControl \in {"none", "acknowledged", "failed"}

\* After an acknowledged control the fault state the console reports is the one
\* inventory is in, however the switches and resets of several browsers
\* interleave, messages get lost and processes restart.  There are two
\* exceptions, and the next acknowledged control ends either: inventory has
\* restarted since, or has applied a message that a call before had given up on
\* (console.py:59-68,193-216, InventoryController.java:20).
AcknowledgedStateHolds ==
    (lastControl = "acknowledged" /\ \A c \in Clients : ~Posted(c))
        => delayed = faultEnabled \/ setBy \in {"start", "late"}

\* What can spoil a recovery window.  While one is collected no call waits for a
\* control message, so that nothing the console is doing switches the fault on
\* ("Wait for recovery measurement to finish before changing the fault",
\* console.py:196-197); a window that is measured with the delay on has it from
\* a switch the console had given up on, and reported as failed, before the
\* window began.  Nothing in the code excludes that one.
MeasuredWithoutFault ==
    Collecting =>
        /\ \A c \in Clients : ~Posted(c)
        /\ delayed = "on" => setBy = "late"

\* A verdict is only reached after its own window has elapsed, from the
\* measurement of that window, and status and summary agree with it, also when
\* several polls, started before and after another reset, conclude at once
\* (console.py:218-248).
VerdictFromOwnWindow ==
    \A i \in DOMAIN snaps : snaps[i].status # "collecting" =>
        /\ snaps[i].elapsed /\ snaps[i].after.window = i
        /\ snaps[i].status = "complete"
              <=> Sufficient(snaps[i].before, snaps[i].after.values)
        /\ snaps[i].summary = Summary(snaps[i].before, snaps[i].after.values)

\* A verdict settles: concurrent polls may each write theirs, but once no call
\* still reads the window of a concluded comparison nobody begins to read it
\* again, and what was reported last stays; and a collecting comparison is never
\* replaced by another reset (console.py:197,204,226-248).
Settled(i) ==
    /\ snaps[i].status # "collecting"
    /\ \A c \in Clients : op[c].pc = "reading" => op[c].snap # i

VerdictSettles ==
    [][/\ \A i \in DOMAIN snaps \cap DOMAIN snaps' :
             Settled(i) => Settled(i)' /\ snaps'[i] = snaps[i]
       /\ ~(Collecting /\ current' > current)]_vars

\* Every call of an endpoint answers: none waits for ever for the lock, for
\* inventory or for the telemetry, whatever fails.
EveryCallAnswers == \A c \in Clients : (op[c].pc # "idle") ~> (op[c].pc = "idle")

\* Every comparison is concluded as long as a page is open that keeps polling,
\* which other requests do not keep out (app.js:392; see Fairness): recovery()
\* only concludes when it is asked.
RecoveryConcludes == Collecting ~> ~Collecting

\* docs/troubleshooting.md:16: "The UI reports unknown state when the control
\* request cannot be acknowledged."  The UI shows what fault_enabled says.
UnacknowledgedIsUnknown == lastControl = "failed" => faultEnabled = "unknown"
=============================================================================
