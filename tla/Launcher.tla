------------------------------ MODULE Launcher ------------------------------
(***************************************************************************)
(* The native launcher (dev.py): one process that starts the six services  *)
(* one after the other, each when the one before it is ready, watches      *)
(* them, and stops those it has registered in reverse order.               *)
(*                                                                         *)
(* A signal raises KeyboardInterrupt wherever the main thread is: between  *)
(* starting a child and registering it, in an except clause, or in the     *)
(* finally clause that stops the children.  Ctrl-C reaches the whole       *)
(* process group, a SIGTERM only the launcher.  Children end when they     *)
(* like, ignore what they are told, and may outlive even a kill.           *)
(***************************************************************************)
EXTENDS Naturals

CONSTANTS
    Count,      \* number of services, which are started in the order 1..Count
    MaxSignals  \* bound on the signals

ASSUME LauncherAssumption == Count \in Nat \ {0} /\ MaxSignals \in Nat

Services == 1..Count

VARIABLES
    pc,          \* where main() is
    child,       \* "none", "up", "told" (SIGTERM or SIGINT), "killed" or "ended"
    registered,  \* length of `children`: services 1..registered
    left,        \* how many of them the finally clause has yet to stop
    code,        \* the exit code main() returns, or "raised" when an exception escapes
    signals

vars == <<pc, child, registered, left, code, signals>>

Init ==
    /\ pc = "preparing"
    /\ child = [i \in Services |-> "none"]
    /\ registered = 0 /\ left = 0
    /\ code = "none" /\ signals = 0

Alive(i) == child[i] \in {"up", "told", "killed"}
-----------------------------------------------------------------------------
(* The try block.                                                          *)

\* Free ports, settings, tools and jars are in place, or something is missing.
Prepared ==
    /\ pc = "preparing" /\ pc' = "launching"
    /\ UNCHANGED <<child, registered, left, code, signals>>

\* `return 1` of the except clause, which prints what failed first.
Failed ==
    /\ pc' = "failed" /\ code' = "one"
    /\ UNCHANGED <<child, registered, left, signals>>

PrepareFails == pc = "preparing" /\ Failed

\* An exception no except clause names (a KeyError for a missing setting, a
\* ValueError of Popen, an HTTPException of a health check): main() goes straight
\* to the finally clause and raises it at the end.
Escapes ==
    /\ pc \in {"preparing", "launching", "waiting"}
    /\ pc' = "stopping" /\ left' = registered /\ code' = "raised"
    /\ UNCHANGED <<child, registered, signals>>

\* Popen: the child runs before the launcher knows of it.
Spawn ==
    /\ pc = "launching" /\ registered < Count
    /\ pc' = "spawned"
    /\ child' = [child EXCEPT ![registered + 1] = "up"]
    /\ UNCHANGED <<registered, left, code, signals>>

SpawnFails == pc = "launching" /\ registered < Count /\ Failed

\* children.append
Register ==
    /\ pc = "spawned" /\ pc' = "waiting"
    /\ registered' = registered + 1
    /\ UNCHANGED <<child, left, code, signals>>

\* wait_ready: the child answers its health check, or it has ended, or 60
\* seconds are over.
Ready ==
    /\ pc = "waiting" /\ Alive(registered)
    /\ pc' = IF registered < Count THEN "launching" ELSE "watching"
    /\ UNCHANGED <<child, registered, left, code, signals>>

NotReady == pc = "waiting" /\ Failed

\* The watch finds that a child has ended.
ChildExited ==
    /\ pc = "watching" /\ \E i \in 1..registered : child[i] = "ended"
    /\ Failed
-----------------------------------------------------------------------------
(* The finally clause: terminate, wait 8 s, kill, wait 3 s, one child at a  *)
(* time, the last one started first.                                       *)

Finally ==
    /\ pc \in {"interrupted", "failed"}
    /\ pc' = "stopping" /\ left' = registered
    /\ UNCHANGED <<child, registered, code, signals>>

Skip ==
    /\ pc = "stopping" /\ left > 0 /\ child[left] = "ended"
    /\ left' = left - 1
    /\ UNCHANGED <<pc, child, registered, code, signals>>

\* Mutant: all children are told to stop before any of them is waited for.
MutantTerminate ==
    /\ pc = "stopping" /\ left > 0 /\ Alive(left)
    /\ pc' = "terminating"
    /\ child' = [i \in Services |-> IF i <= left /\ child[i] = "up" THEN "told" ELSE child[i]]
    /\ UNCHANGED <<registered, left, code, signals>>

Terminate ==
    /\ pc = "stopping" /\ left > 0 /\ Alive(left)
    /\ pc' = "terminating"
    /\ child' = [child EXCEPT ![left] = "told"]
    /\ UNCHANGED <<registered, left, code, signals>>

\* wait() returns.
Gone ==
    /\ pc \in {"terminating", "killing"} /\ child[left] = "ended"
    /\ pc' = "stopping" /\ left' = left - 1
    /\ UNCHANGED <<child, registered, code, signals>>

\* Mutants: the first wait has no timeout, or the second one is left out.
MutantKillNever == FALSE /\ UNCHANGED vars
MutantKillOnly ==
    /\ pc = "terminating" /\ Alive(left)
    /\ pc' = "stopping" /\ left' = left - 1
    /\ child' = [child EXCEPT ![left] = "killed"]
    /\ UNCHANGED <<registered, code, signals>>

\* TimeoutExpired after 8 s.
Kill ==
    /\ pc = "terminating" /\ Alive(left)
    /\ pc' = "killing"
    /\ child' = [child EXCEPT ![left] = "killed"]
    /\ UNCHANGED <<registered, left, code, signals>>

\* TimeoutExpired after 3 more seconds escapes: the others are not stopped.
KillFails ==
    /\ pc = "killing" /\ Alive(left)
    /\ pc' = "exited" /\ code' = "raised"
    /\ UNCHANGED <<child, registered, left, signals>>

Exit ==
    /\ pc = "stopping" /\ left = 0
    /\ pc' = "exited"
    /\ UNCHANGED <<child, registered, left, code, signals>>
-----------------------------------------------------------------------------
(* Signals and children.                                                   *)

Trying == pc \in {"preparing", "launching", "spawned", "waiting", "watching"}
Excepting == pc \in {"interrupted", "failed"}
Cleaning == pc \in {"stopping", "terminating", "killing"}

\* KeyboardInterrupt: caught around the try block, where main() returns 0; in an
\* except clause it waits for the finally clause; from there it escapes at once.
Interrupted ==
    \/ Trying /\ pc' = "interrupted" /\ code' = "zero" /\ UNCHANGED left
    \/ Excepting /\ pc' = "stopping" /\ left' = registered /\ code' = "raised"
    \/ Cleaning /\ pc' = "exited" /\ code' = "raised" /\ UNCHANGED left

Signalled ==
    /\ signals < MaxSignals /\ signals' = signals + 1
    /\ Interrupted
    /\ UNCHANGED registered

Sigterm == Signalled /\ UNCHANGED child

CtrlC ==
    /\ Signalled
    /\ child' = [i \in Services |-> IF child[i] = "up" THEN "told" ELSE child[i]]

ChildEnds(i) ==
    /\ Alive(i)
    /\ child' = [child EXCEPT ![i] = "ended"]
    /\ UNCHANGED <<pc, registered, left, code, signals>>

Main ==
    \/ Prepared \/ PrepareFails \/ Spawn \/ SpawnFails \/ Register
    \/ Ready \/ NotReady \/ ChildExited \/ Escapes
    \/ Finally \/ Skip \/ Terminate \/ Gone \/ Kill \/ KillFails \/ Exit

Next == Main \/ Sigterm \/ CtrlC \/ \E i \in Services : ChildEnds(i)

\* The launcher runs, and each of its waits has a timeout.  Nothing is promised
\* of the children, and nobody has to send a signal.
Fairness == WF_vars(Main)

Spec == Init /\ [][Next]_vars /\ Fairness
-----------------------------------------------------------------------------
\* Every variable stays in its range.
TypeOK ==
    /\ pc \in {"preparing", "launching", "spawned", "waiting", "watching",
               "interrupted", "failed", "stopping", "terminating", "killing", "exited"}
    /\ child \in [Services -> {"none", "up", "told", "killed", "ended"}]
    /\ registered \in 0..Count /\ left \in 0..registered
    /\ code \in {"none", "zero", "one", "raised"}
    /\ signals \in 0..MaxSignals

\* Services are started one at a time, in order, each after the one before it has
\* been registered: every registered service has been started, and beyond them
\* at most one, which is running or has run before the launcher knows of it
\* (dev.py:143-144).
StartedInOrder ==
    \A i \in Services :
        /\ i <= registered => child[i] # "none"
        /\ i > registered + 1 => child[i] = "none"

\* What an exit code says: unless an exception escaped, every registered child
\* has ended, and the only service that may still run is the one a signal caught
\* between Popen and append; after an escape the children not yet stopped may run
\* as well, those already stopped may not, and no other service does
\* (dev.py:141-142,152-165).
ExitTellsWhatIsLeft ==
    pc = "exited" =>
        \A i \in Services : Alive(i) =>
            \/ i = registered + 1
            \/ code = "raised" /\ i <= left

\* Services are stopped in the reverse of the order they were started in: the
\* launcher sends a signal to a service only when every registered service
\* started after it has ended, so that none of them loses what it depends on
\* before it is asked to stop (dev.py:158).
DependentsStopFirst ==
    [][\A i \in Services :
          (child'[i] # child[i] /\ child'[i] \in {"told", "killed"} /\ signals' = signals)
              => \A j \in (i + 1)..registered : child[j] = "ended"]_vars

\* The launcher ends after a signal, and after a child it started has ended,
\* even if every other child ignores what it is told (dev.py:61,160-165).
LauncherEnds ==
    (signals > 0 \/ \E i \in 1..registered : child[i] = "ended") ~> (pc = "exited")
=============================================================================
