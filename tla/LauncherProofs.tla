--------------------------- MODULE LauncherProofs ---------------------------
(***************************************************************************)
(* Proofs about the native launcher, for any number of services and of     *)
(* signals.  The exit code and the order of the stops rest on one          *)
(* inductive fact: once the finally clause has begun, the registered       *)
(* services above `left` have ended, and an ended service stays ended.     *)
(***************************************************************************)
EXTENDS Launcher, TLAPS

\* Services are started in order, the one just started not yet registered; those
\* the finally clause is through with have ended; and it stops short of the
\* first service only by an exception.
StopInv ==
    /\ TypeOK
    /\ StartedInOrder
    /\ pc = "spawned" => registered < Count /\ child[registered + 1] # "none"
    /\ (Cleaning \/ pc = "exited") => \A i \in (left + 1)..registered : child[i] = "ended"
    /\ pc \in {"terminating", "killing"} => left > 0
    /\ pc = "exited" => left = 0 \/ code = "raised"

\* A signal leaves the children as they are, or tells those that run.
LEMMA SignalKeepsStopInv ==
  ASSUME StopInv, Sigterm \/ CtrlC
  PROVE  StopInv'
<1> USE LauncherAssumption DEF StopInv, TypeOK, StartedInOrder, Services, Cleaning
<1>1. /\ child' \in [Services -> {"none", "up", "told", "killed", "ended"}]
      /\ \A i \in Services : child[i] \in {"none", "ended"} => child'[i] = child[i]
      /\ \A i \in Services : child[i] # "none" => child'[i] # "none"
  BY DEF Sigterm, CtrlC
<1>2. /\ registered' = registered
      /\ signals' \in 0..MaxSignals
  BY DEF Sigterm, CtrlC, Signalled
<1>3. CASE Trying /\ pc' = "interrupted" /\ code' = "zero" /\ UNCHANGED left
  BY <1>1, <1>2, <1>3 DEF Trying
<1>4. CASE Excepting /\ pc' = "stopping" /\ left' = registered /\ code' = "raised"
  BY <1>1, <1>2, <1>4 DEF Excepting
<1>5. CASE Cleaning /\ pc' = "exited" /\ code' = "raised" /\ UNCHANGED left
  BY <1>1, <1>2, <1>5
<1>6. QED
  BY <1>3, <1>4, <1>5 DEF Sigterm, CtrlC, Signalled, Interrupted

\* Every step keeps the invariant.
LEMMA StopInductive == StopInv /\ [Next]_vars => StopInv'
<1> SUFFICES ASSUME StopInv, [Next]_vars
             PROVE  StopInv'
  OBVIOUS
<1> USE LauncherAssumption DEF StopInv, TypeOK, StartedInOrder, Services, Cleaning, Alive
<1>1. CASE Spawn
  BY <1>1 DEF Spawn
<1>2. CASE Register
  BY <1>2 DEF Register
<1>3. CASE Prepared \/ PrepareFails \/ SpawnFails \/ Ready \/ NotReady \/ ChildExited
  BY <1>3 DEF Prepared, PrepareFails, SpawnFails, Ready, NotReady, ChildExited, Failed
<1>4. CASE Finally
  BY <1>4 DEF Finally
<1>5. CASE Skip \/ Gone
  <2>1. /\ left' = left - 1 /\ left > 0 /\ child[left] = "ended"
        /\ pc' = "stopping" /\ Cleaning
        /\ UNCHANGED <<child, registered, code, signals>>
    BY <1>5 DEF Skip, Gone
  <2>2. \A i \in left..registered : child[i] = "ended"
    BY <2>1
  <2>3. QED
    BY <2>1, <2>2
<1>6. CASE Terminate
  BY <1>6 DEF Terminate
<1>7. CASE Kill
  BY <1>7 DEF Kill
<1>8. CASE KillFails \/ Exit \/ Escapes
  BY <1>8 DEF KillFails, Exit, Escapes
<1>9. CASE Sigterm \/ CtrlC
  BY <1>9, SignalKeepsStopInv
<1>10. CASE \E k \in Services : ChildEnds(k)
  BY <1>10 DEF ChildEnds
<1>11. CASE UNCHANGED vars
  BY <1>11 DEF vars
<1>12. QED
  BY <1>1, <1>2, <1>3, <1>4, <1>5, <1>6, <1>7, <1>8, <1>9, <1>10, <1>11 DEF Next, Main

LEMMA StopInvariant == Spec => []StopInv
<1>1. Init => StopInv
  BY LauncherAssumption DEF Init, StopInv, TypeOK, StartedInOrder, Services, Cleaning
<1>2. QED
  BY <1>1, StopInductive, PTL DEF Spec

\* Every variable of the launcher stays in its range.
THEOREM TypeCorrect == Spec => []TypeOK
<1>1. StopInv => TypeOK
  BY DEF StopInv
<1>2. QED
  BY <1>1, StopInvariant, PTL

\* However many services, and whenever a signal or a failure ends the start: no
\* service is started before every service it depends on has been started and
\* registered, and every registered service is one that was started
\* (dev.py:135-145).
THEOREM AlwaysStartedInOrder == Spec => []StartedInOrder
<1>1. StopInv => StartedInOrder
  BY DEF StopInv
<1>2. QED
  BY <1>1, StopInvariant, PTL

\* However many services and signals: an exit without an escaping exception
\* leaves no registered service running (dev.py:157-165).
THEOREM ExitAlwaysTellsWhatIsLeft == Spec => []ExitTellsWhatIsLeft
<1>1. StopInv => ExitTellsWhatIsLeft
  <2> SUFFICES ASSUME StopInv, pc = "exited", NEW i \in Services, Alive(i), i # registered + 1
               PROVE  code = "raised" /\ i <= left
    BY DEF ExitTellsWhatIsLeft
  <2>1. i \in 1..registered
    BY LauncherAssumption DEF StopInv, TypeOK, StartedInOrder, Services, Alive
  <2>2. i <= left
    BY <2>1 DEF StopInv, TypeOK, Services, Alive
  <2>3. QED
    BY <2>2, LauncherAssumption DEF StopInv, TypeOK, Services
<1>2. QED
  BY <1>1, StopInvariant, PTL

\* The launcher never asks a service to stop while one started after it, and
\* registered, still runs (dev.py:158).
THEOREM DependentsAlwaysStopFirst == Spec => DependentsStopFirst
<1> DEFINE Told(i) == child'[i] # child[i] /\ child'[i] \in {"told", "killed"} /\ signals' = signals
           Step == \A i \in Services :
                      Told(i) => \A j \in (i + 1)..registered : child[j] = "ended"
<1>1. StopInv /\ [Next]_vars => [Step]_vars
  <2> SUFFICES ASSUME StopInv, Next, NEW i \in Services, Told(i)
               PROVE  \A j \in (i + 1)..registered : child[j] = "ended"
    BY Zenon DEF Step
  <2> USE LauncherAssumption DEF StopInv, TypeOK, StartedInOrder, Services, Cleaning
  <2>1. CASE Terminate \/ Kill
    BY <2>1 DEF Terminate, Kill
  <2>2. CASE Spawn \/ \E k \in Services : ChildEnds(k)
    BY <2>2 DEF Spawn, ChildEnds
  <2>3. CASE Sigterm \/ CtrlC
    BY <2>3 DEF Sigterm, CtrlC, Signalled
  <2>4. CASE Prepared \/ PrepareFails \/ SpawnFails \/ Register \/ Ready \/ NotReady \/ ChildExited
    BY <2>4 DEF Prepared, PrepareFails, Failed, SpawnFails, Register, Ready, NotReady, ChildExited
  <2>5. CASE Finally \/ Skip \/ Gone \/ KillFails \/ Exit \/ Escapes
    BY <2>5 DEF Finally, Skip, Gone, KillFails, Exit, Escapes
  <2>6. QED
    BY <2>1, <2>2, <2>3, <2>4, <2>5 DEF Next, Main
<1>2. QED
  BY <1>1, StopInvariant, PTL DEF Spec, DependentsStopFirst
=============================================================================
