---------------------------- MODULE TrafficProofs ----------------------------
(***************************************************************************)
(* Proofs about the synthetic traffic, for any number of browsers, loops   *)
(* and requests and any bound on the requests in flight.                   *)
(*                                                                         *)
(* The bound is kept loop by loop, so the proof has to show that a loop    *)
(* never finds requests of the one before it: a task that is not in its    *)
(* loop or its finally clause has none.  The bounds on loops and requests  *)
(* rest on the line for the lock: who is in a call is in it, once.         *)
(***************************************************************************)
EXTENDS Traffic, FiniteSetTheorems, SequenceTheorems, TLAPS

\* The bounds of the model do not matter, only their kind does.
LEMMA Bounds == Cap \in Nat \ {0} /\ MaxLoops \in Nat /\ MaxSent \in Nat
BY TrafficAssumption

\* The requests alive are those of the current loop, each once, and there are
\* none unless the task runs.
RequestInv ==
    /\ task \in {"none", "created", "loop", "drain", "done"}
    /\ loops \in Nat /\ created \in Nat
    /\ {sent, successes, failures, aborted} \subseteq Nat
    /\ IsFiniteSet(fresh) /\ IsFiniteSet(flying) /\ fresh \cap flying = {}
    /\ \A r \in fresh \cup flying : r.loop = loops /\ r.id \in 1..created
    /\ task \in {"none", "created", "done"} => fresh \cup flying = {}
    /\ server = "down" => Ended
    /\ server # "up" => lockq = <<>>
    /\ NeverMoreThanCap
    /\ sent = successes + failures + aborted + Cardinality(flying)

(* All the requests there are belong to the current loop.                   *)
LEMMA AllPending == RequestInv => Pending = fresh \cup flying
BY DEF RequestInv, Pending

(* A step that leaves the requests alone.                                   *)
LEMMA OtherStep ==
  ASSUME RequestInv, UNCHANGED requests,
         \/ task' = task /\ loops' = loops
         \/ Ended /\ task' = "created" /\ loops' = loops + 1
         \/ task = "created" /\ task' \in {"loop", "done"} /\ loops' = loops
         \/ task = "loop" /\ task' = "drain" /\ loops' = loops
         \/ task = "drain" /\ task' = "done" /\ loops' = loops /\ fresh \cup flying = {},
         server' = "down" => task' \in {"none", "done"},
         server' # "up" => lockq' = <<>>
  PROVE  RequestInv'
BY Bounds DEF RequestInv, requests, NeverMoreThanCap, Ended

(* One request more, or less, in a finite set.                              *)
LEMMA OneRequest ==
  ASSUME NEW S, IsFiniteSet(S), NEW r
  PROVE  /\ IsFiniteSet(S \cup {r}) /\ IsFiniteSet(S \ {r})
         /\ Cardinality(S) \in Nat
         /\ r \notin S => Cardinality(S \cup {r}) = Cardinality(S) + 1
         /\ r \in S => Cardinality(S \ {r}) = Cardinality(S) - 1
BY FS_CardinalityType, FS_AddElement, FS_RemoveElement

LEMMA TickStep == RequestInv /\ Tick => RequestInv'
<1> SUFFICES ASSUME RequestInv, Tick PROVE RequestInv'
  OBVIOUS
<1> DEFINE r == [id |-> created + 1, loop |-> loops]
<1>1. r \notin fresh \cup flying
  BY DEF RequestInv
<1>2. fresh' = fresh \cup {r} /\ created' = created + 1 /\ Cardinality(fresh \cup flying) < Cap
  BY AllPending DEF Tick
<1>3. IsFiniteSet(fresh \cup flying)
  BY FS_Union DEF RequestInv
<1>4. /\ IsFiniteSet(fresh')
      /\ Cardinality((fresh \cup flying) \cup {r}) = Cardinality(fresh \cup flying) + 1
      /\ Cardinality(fresh \cup flying) \in Nat
  BY <1>1, <1>2, <1>3, OneRequest DEF RequestInv
<1>5. fresh' \cup flying' = (fresh \cup flying) \cup {r} /\ flying' = flying
  BY <1>2 DEF Tick
<1>6. NeverMoreThanCap'
  BY <1>2, <1>4, <1>5, Bounds DEF NeverMoreThanCap
<1>7. /\ fresh' \cap flying' = {}
      /\ \A q \in fresh' \cup flying' : q.loop = loops' /\ q.id \in 1..created'
  BY <1>1, <1>2, <1>5 DEF RequestInv, Tick
<1>8. QED
  BY <1>2, <1>4, <1>5, <1>6, <1>7 DEF RequestInv, Tick, Ended, calls

LEMMA SendStep ==
  ASSUME RequestInv, NEW r \in fresh \cup flying, Send(r)
  PROVE  RequestInv'
<1>1. r \in fresh /\ r \notin flying /\ fresh' = fresh \ {r} /\ flying' = flying \cup {r}
  BY DEF RequestInv, Send
<1>2. /\ IsFiniteSet(fresh') /\ IsFiniteSet(flying')
      /\ Cardinality(flying') = Cardinality(flying) + 1 /\ Cardinality(flying) \in Nat
  BY <1>1, OneRequest DEF RequestInv
<1>3. fresh' \cup flying' = fresh \cup flying /\ fresh' \cap flying' = {}
  BY <1>1 DEF RequestInv
<1>4. NeverMoreThanCap'
  BY <1>3 DEF NeverMoreThanCap, RequestInv
<1>5. QED
  BY <1>2, <1>3, <1>4 DEF RequestInv, Send, Ended, calls

LEMMA FinishStep ==
  ASSUME RequestInv, NEW r \in fresh \cup flying, Finish(r)
  PROVE  RequestInv'
<1>1. r \in flying /\ r \notin fresh /\ flying' = flying \ {r} /\ fresh' = fresh
  BY DEF RequestInv, Finish
<1>2. /\ IsFiniteSet(flying')
      /\ Cardinality(flying') = Cardinality(flying) - 1 /\ Cardinality(flying) \in Nat
  BY <1>1, OneRequest DEF RequestInv
<1>3. IsFiniteSet(fresh \cup flying) /\ fresh' \cup flying' = (fresh \cup flying) \ {r}
  BY <1>1, FS_Union DEF RequestInv
<1>4. NeverMoreThanCap'
  <2>1. /\ Cardinality(fresh' \cup flying') = Cardinality(fresh \cup flying) - 1
        /\ Cardinality(fresh \cup flying) \in Nat
    BY <1>1, <1>3, OneRequest
  <2>2. Cardinality(fresh \cup flying) <= Cap
    BY DEF NeverMoreThanCap, RequestInv
  <2>3. QED
    BY <2>1, <2>2, Bounds DEF NeverMoreThanCap
<1>5. sent' = successes' + failures' + aborted' + Cardinality(flying')
      /\ {sent', successes', failures', aborted'} \subseteq Nat
  BY <1>2 DEF RequestInv, Finish
<1>6. /\ fresh' \cap flying' = {}
      /\ fresh' \cup flying' \subseteq fresh \cup flying
  BY <1>1, <1>3 DEF RequestInv
<1>7. QED
  BY <1>1, <1>2, <1>4, <1>5, <1>6 DEF RequestInv, Finish, Ended, calls

LEMMA DrainCancelledStep == RequestInv /\ DrainCancelled => RequestInv'
<1> SUFFICES ASSUME RequestInv, DrainCancelled PROVE RequestInv'
  OBVIOUS
<1>1. /\ fresh' = {} /\ flying' = {} /\ flying \cap Pending = flying
  BY AllPending DEF DrainCancelled
<1>2. Cardinality(flying) \in Nat /\ Cardinality({}) = 0 /\ IsFiniteSet({})
  BY FS_CardinalityType, FS_EmptySet DEF RequestInv
<1>3. aborted' = aborted + Cardinality(flying)
  <2>1. aborted' = aborted + Cardinality(flying \cap Pending)
    BY DEF DrainCancelled
  <2>2. QED
    BY <1>1, <2>1, Zenon
<1>4. NeverMoreThanCap'
  BY <1>1, <1>2, Bounds DEF NeverMoreThanCap
<1>5. Cardinality(flying') = 0 /\ IsFiniteSet(fresh') /\ IsFiniteSet(flying')
  BY <1>1, <1>2
<1>6. sent' = successes' + failures' + aborted' + Cardinality(flying')
      /\ {sent', successes', failures', aborted'} \subseteq Nat
  BY <1>2, <1>3, <1>5 DEF RequestInv, DrainCancelled
<1>7. QED
  BY <1>1, <1>4, <1>5, <1>6 DEF RequestInv, DrainCancelled, Ended, calls

LEMMA RequestStep == RequestInv /\ [Next]_vars => RequestInv'
<1> SUFFICES ASSUME RequestInv, [Next]_vars PROVE RequestInv'
  OBVIOUS
<1>1. ASSUME NEW c \in Clients, CallStart(c) \/ CallStop(c) PROVE RequestInv'
  BY <1>1, OtherStep DEF CallStart, CallStop, Queue, RequestInv, Ended
<1>2. ASSUME NEW c \in Clients, Start(c) PROVE RequestInv'
  <2>1. server = "up"
    BY <1>2 DEF Start, Holds, RequestInv
  <2>2. QED
    BY <1>2, <2>1, OtherStep DEF Start
<1>3. ASSUME NEW c \in Clients, StopNothing(c) \/ Stop(c) PROVE RequestInv'
  BY <1>3, OtherStep DEF StopNothing, Stop, Holds, RequestInv, Ended
<1>4. ASSUME NEW c \in Clients, Stopped(c) PROVE RequestInv'
  <2>1. server = "up" \/ lockq = <<>>
    BY DEF RequestInv
  <2>2. QED
    BY <1>4, <2>1, OtherStep DEF Stopped, RequestInv, Ended, Answer
<1>5. CASE ShutdownBegins \/ ShutdownEnds
  BY <1>5, OtherStep DEF ShutdownBegins, ShutdownEnds, RequestInv, Ended, calls
<1>6. CASE LoopBegins \/ NeverBegins \/ LoopEnds
  BY <1>6, OtherStep DEF LoopBegins, NeverBegins, LoopEnds, RequestInv, Ended, calls
<1>7. CASE Drained
  BY <1>7, OtherStep, AllPending DEF Drained, RequestInv, Ended, calls
<1>8. CASE DrainCancelled
  BY <1>8, DrainCancelledStep
<1>9. CASE Tick
  BY <1>9, TickStep
<1>10. ASSUME NEW r \in fresh \cup flying, Send(r) \/ Finish(r) PROVE RequestInv'
  BY <1>10, SendStep, FinishStep
<1>11. CASE UNCHANGED vars
  BY <1>11, OtherStep DEF vars, calls, RequestInv, Ended
<1>12. QED
  BY <1>1, <1>2, <1>3, <1>4, <1>5, <1>6, <1>7, <1>8, <1>9, <1>10, <1>11
  DEF Next, LoopTask, Step

THEOREM RequestInvariant == Spec => []RequestInv
<1>1. Init => RequestInv
  BY Bounds, FS_EmptySet DEF Init, RequestInv, NeverMoreThanCap, Ended
<1>2. QED
  BY <1>1, RequestStep, PTL DEF Spec

\* "At most eight requests concurrently" (architecture.md:73), however often the
\* traffic is stopped and started.
THEOREM CapHolds == Spec => []NeverMoreThanCap
<1>1. RequestInv => NeverMoreThanCap
  BY DEF RequestInv
<1>2. QED
  BY <1>1, RequestInvariant, PTL

\* The counters account for every request sent, and none is left when the HTTP
\* client is closed (console.py:70-77,96,121-122).
THEOREM RequestsAlwaysAddUp == Spec => []RequestsAddUp
<1>1. RequestInv => RequestsAddUp
  BY DEF RequestInv, RequestsAddUp, Ended
<1>2. QED
  BY <1>1, RequestInvariant, PTL
-----------------------------------------------------------------------------
\* The lock and the flag: a stop holds the lock until the task has ended, a
\* cancellation is pending only then, and otherwise the flag tells the truth.
ControlInv ==
    /\ op \in [Clients -> {"idle", "start", "stop", "stopping"}]
    /\ lockq \in Seq(Clients)
    /\ running \in BOOLEAN
    /\ \A c \in Clients : op[c] = "stopping" => Holds(c)
    /\ cancelled => /\ task \in {"created", "loop", "drain"}
                    /\ server # "up" \/ \E c \in Clients : op[c] = "stopping"
    /\ RunningIsTrue

(* Joining the line leaves its head where it is.                            *)
LEMMA QueueKeepsHead ==
  ASSUME lockq \in Seq(Clients), NEW c \in Clients
  PROVE  /\ Append(lockq, c) \in Seq(Clients)
         /\ lockq # <<>> => Append(lockq, c) # <<>> /\ Head(Append(lockq, c)) = Head(lockq)
<1>1. /\ Append(lockq, c) \in Seq(Clients) /\ Append(lockq, c) # <<>>
      /\ \A i \in 1..Len(lockq) : Append(lockq, c)[i] = lockq[i]
  BY AppendProperties
<1>2. lockq # <<>> => 1 \in 1..Len(lockq)
  BY EmptySeq, LenProperties
<1>3. \A s \in Seq(Clients) : s # <<>> => Head(s) = s[1]
  BY HeadTailProperties
<1>4. QED
  BY <1>1, <1>2, <1>3

(* The holder answers: nobody is stopping the traffic any more.             *)
LEMMA AnswerFrees ==
  ASSUME ControlInv, NEW c \in Clients, Holds(c), Answer(c)
  PROVE  /\ op' \in [Clients -> {"idle", "start", "stop", "stopping"}]
         /\ lockq' \in Seq(Clients)
         /\ \A d \in Clients : op'[d] # "stopping"
         /\ \A d \in Clients : op[d] = "stopping" => d = c
<1>1. \A d \in Clients : op[d] = "stopping" => d = c
  BY DEF ControlInv, Holds
<1>2. lockq' \in Seq(Clients)
  BY HeadTailProperties DEF ControlInv, Holds, Answer
<1>3. QED
  BY <1>1, <1>2 DEF ControlInv, Answer

LEMMA ControlStep == RequestInv /\ ControlInv /\ [Next]_vars => ControlInv'
<1> SUFFICES ASSUME RequestInv, ControlInv, [Next]_vars PROVE ControlInv'
  OBVIOUS
<1>1. ASSUME NEW c \in Clients, CallStart(c) \/ CallStop(c) PROVE ControlInv'
  <2>1. PICK what \in {"start", "stop"} : Queue(c, what)
    BY <1>1 DEF CallStart, CallStop
  <2>2. /\ op' \in [Clients -> {"idle", "start", "stop", "stopping"}]
        /\ \A d \in Clients : op'[d] = "stopping" <=> op[d] = "stopping"
    BY <2>1 DEF Queue, ControlInv
  <2>3. /\ lockq' \in Seq(Clients)
        /\ lockq # <<>> => lockq' # <<>> /\ Head(lockq') = Head(lockq)
    BY <2>1, QueueKeepsHead DEF Queue, ControlInv
  <2>4. \A d \in Clients : op'[d] = "stopping" => Holds(d)'
    BY <2>2, <2>3 DEF ControlInv, Holds
  <2>5. UNCHANGED <<running, task, cancelled, server>>
    BY <2>1 DEF Queue
  <2>6. QED
    BY <2>2, <2>3, <2>4, <2>5, Zenon DEF ControlInv, RunningIsTrue
<1>2. ASSUME NEW c \in Clients, Start(c) PROVE ControlInv'
  <2>1. Holds(c) /\ Answer(c) /\ op[c] # "stopping" /\ UNCHANGED <<cancelled, server>>
    BY <1>2 DEF Start
  <2>2. \A d \in Clients : op[d] # "stopping" /\ op'[d] # "stopping"
    BY <2>1, AnswerFrees
  <2>3. CASE Ended
    <3>1. running' = TRUE /\ task' = "created" /\ ~cancelled
      BY <1>2, <2>3 DEF Start, ControlInv, Ended
    <3>2. RunningIsTrue' /\ running' \in BOOLEAN /\ ~cancelled'
      BY <2>1, <3>1 DEF RunningIsTrue
    <3>3. QED
      BY <2>1, <2>2, <3>2, AnswerFrees, Zenon DEF ControlInv
  <2>4. CASE ~Ended
    <3>1. UNCHANGED <<running, task>>
      BY <1>2, <2>4 DEF Start
    <3>2. QED
      BY <2>1, <2>2, <3>1, AnswerFrees, Zenon DEF ControlInv, RunningIsTrue
  <2>5. QED
    BY <2>3, <2>4
<1>3. ASSUME NEW c \in Clients, StopNothing(c) PROVE ControlInv'
  <2>1. /\ Holds(c) /\ Answer(c) /\ op[c] # "stopping"
        /\ UNCHANGED <<running, task, cancelled, server>>
    BY <1>3 DEF StopNothing
  <2>2. \A d \in Clients : op[d] # "stopping" /\ op'[d] # "stopping"
    BY <2>1, AnswerFrees
  <2>3. QED
    BY <2>1, <2>2, AnswerFrees, Zenon DEF ControlInv, RunningIsTrue
<1>4. ASSUME NEW c \in Clients, Stop(c) PROVE ControlInv'
  <2>1. /\ op' = [op EXCEPT ![c] = "stopping"] /\ Holds(c) /\ lockq' = lockq
        /\ cancelled' = TRUE /\ UNCHANGED <<running, task, server>>
    BY <1>4 DEF Stop
  <2>2. /\ op' \in [Clients -> {"idle", "start", "stop", "stopping"}]
        /\ op'[c] = "stopping" /\ \A d \in Clients \ {c} : op'[d] = op[d]
    BY <2>1 DEF ControlInv
  <2>3. \A d \in Clients : op'[d] = "stopping" => Holds(d)'
    BY <2>1, <2>2 DEF ControlInv, Holds
  <2>4. task' \in {"created", "loop", "drain"}
    BY <1>4, <2>1 DEF Stop, Ended, RequestInv
  <2>5. QED
    BY <2>1, <2>2, <2>3, <2>4 DEF ControlInv, RunningIsTrue
<1>5. ASSUME NEW c \in Clients, Stopped(c) PROVE ControlInv'
  <2>1. /\ op[c] = "stopping" /\ task = "done" /\ running' = FALSE /\ Answer(c)
        /\ UNCHANGED <<task, cancelled, server>>
    BY <1>5 DEF Stopped
  <2>2. Holds(c) /\ ~cancelled
    BY <2>1 DEF ControlInv
  <2>3. QED
    BY <2>1, <2>2, AnswerFrees DEF ControlInv, RunningIsTrue
<1>6. CASE ShutdownBegins \/ ShutdownEnds
  <2>1. /\ server' # "up" /\ UNCHANGED <<op, lockq, task>> /\ running' \in BOOLEAN
        /\ cancelled' => task \in {"created", "loop", "drain"}
    <3>1. task \in {"none", "created", "loop", "drain", "done"}
      BY DEF RequestInv
    <3>2. CASE ShutdownBegins
      <4>1. server' # "up" /\ UNCHANGED <<op, lockq, task, running>> /\ cancelled' = ~Ended
        BY <3>2 DEF ShutdownBegins, calls
      <4>2. ~Ended => task \in {"created", "loop", "drain"}
        BY <3>1 DEF Ended
      <4>3. QED
        BY <4>1, <4>2, Zenon DEF ControlInv
    <3>3. CASE ShutdownEnds
      <4>1. server' # "up" /\ UNCHANGED <<op, lockq, task, cancelled>> /\ running' = FALSE
        BY <3>3 DEF ShutdownEnds, calls
      <4>2. QED
        BY <4>1, Zenon DEF ControlInv
    <3>4. QED
      BY <1>6, <3>2, <3>3
  <2>2. RunningIsTrue'
    BY <2>1 DEF RunningIsTrue
  <2>3. \A c \in Clients : op'[c] = "stopping" => Holds(c)'
    BY <2>1 DEF ControlInv, Holds
  <2>4. QED
    BY <2>1, <2>2, <2>3, Zenon DEF ControlInv
<1>7. CASE LoopBegins \/ LoopEnds
  <2>1. /\ UNCHANGED <<op, lockq, server>>
        /\ \/ task' = "loop" /\ running' = TRUE /\ cancelled' = cancelled
           \/ task' = "drain" /\ running' = FALSE /\ cancelled' = FALSE
    BY <1>7 DEF LoopBegins, LoopEnds, calls
  <2>2. RunningIsTrue' /\ running' \in BOOLEAN
    BY <2>1 DEF RunningIsTrue
  <2>3. \A c \in Clients : op'[c] = "stopping" => Holds(c)'
    BY <2>1 DEF ControlInv, Holds
  <2>4. cancelled' => cancelled /\ task' \in {"created", "loop", "drain"}
    BY <2>1
  <2>5. QED
    BY <2>1, <2>2, <2>3, <2>4, Zenon DEF ControlInv
<1>8. CASE NeverBegins \/ Drained \/ DrainCancelled
  <2>1. /\ UNCHANGED <<op, lockq, running, server>> /\ task' = "done" /\ ~cancelled'
        /\ task = "drain" \/ cancelled
    BY <1>8 DEF NeverBegins, Drained, DrainCancelled, calls
  <2>2. RunningIsTrue'
    <3>1. CASE cancelled
      BY <2>1, <3>1, Zenon DEF ControlInv, RunningIsTrue
    <3>2. CASE task = "drain"
      <4>1. task \notin {"created", "loop"} /\ task' \notin {"created", "loop"}
        BY <2>1, <3>2
      <4>2. QED
        BY <2>1, <4>1, Zenon DEF ControlInv, RunningIsTrue
    <3>3. QED
      BY <2>1, <3>1, <3>2
  <2>3. \A c \in Clients : op'[c] = "stopping" => Holds(c)'
    BY <2>1 DEF ControlInv, Holds
  <2>4. QED
    BY <2>1, <2>2, <2>3, Zenon DEF ControlInv
<1>9. ASSUME UNCHANGED <<op, lockq, running, task, cancelled, server>> PROVE ControlInv'
  BY <1>9, Zenon DEF ControlInv, RunningIsTrue, Holds
<1>10. CASE Tick \/ \E r \in fresh \cup flying : Send(r) \/ Finish(r)
  BY <1>9, <1>10 DEF Tick, Send, Finish, calls
<1>11. CASE UNCHANGED vars
  BY <1>9, <1>11 DEF vars, calls
<1>12. QED
  BY <1>1, <1>2, <1>3, <1>4, <1>5, <1>6, <1>7, <1>8, <1>10, <1>11 DEF Next, LoopTask, Step

THEOREM ControlInvariant == Spec => []ControlInv
<1>1. Init => ControlInv
  BY EmptySeq DEF Init, ControlInv, RunningIsTrue, Holds
<1>2. QED
  BY <1>1, ControlStep, RequestInvariant, PTL DEF Spec

\* What the dashboard says of the traffic is true unless a call is just stopping
\* it (console.py:79-105).
THEOREM RunningIsAlwaysTrue == Spec => []RunningIsTrue
<1>1. ControlInv => RunningIsTrue
  BY DEF ControlInv
<1>2. QED
  BY <1>1, ControlInvariant, PTL

\* A start that is answered has taken effect, unless the last loop was still
\* waiting for its requests (console.py:99).
THEOREM StartAlwaysTakesEffect == Spec => StartTakesEffect
<1> DEFINE Effect == \A c \in Clients :
                        op[c] = "start" /\ op'[c] = "idle" => running' \/ task = "drain"
<1>1. RequestInv /\ ControlInv /\ [Next]_vars => [Effect]_vars
  <2> SUFFICES ASSUME RequestInv, ControlInv, Next, NEW c \in Clients,
                      op[c] = "start", op'[c] = "idle"
               PROVE  running' \/ task = "drain"
    BY DEF Effect
  <2>2. Start(c)
    <3>1. ASSUME NEW d \in Clients, CallStart(d) \/ CallStop(d) \/ StopNothing(d)
                                      \/ Stop(d) \/ Stopped(d)
          PROVE  FALSE
      BY <3>1 DEF CallStart, CallStop, Queue, StopNothing, Stop, Stopped, Answer, ControlInv
    <3>2. ASSUME NEW d \in Clients, Start(d) PROVE Start(c)
      BY <3>2 DEF Start, Answer, ControlInv
    <3>3. op' # op
      OBVIOUS
    <3>4. QED
      BY <3>1, <3>2, <3>3
      DEF Next, Step, LoopTask, ShutdownBegins, ShutdownEnds, LoopBegins, NeverBegins, LoopEnds,
          Drained, DrainCancelled, Tick, Send, Finish, calls
  <2>3. CASE Ended
    BY <2>2, <2>3 DEF Start
  <2>4. CASE task \in {"created", "loop"}
    <3>1. server = "up" /\ UNCHANGED running
      BY <2>2, <2>4 DEF Start, Holds, RequestInv, Ended
    <3>2. \A d \in Clients : op[d] # "stopping"
      BY <2>2, AnswerFrees DEF Start
    <3>3. QED
      BY <2>4, <3>1, <3>2, Zenon DEF ControlInv, RunningIsTrue
  <2>5. QED
    BY <2>3, <2>4 DEF RequestInv, Ended
<1>2. QED
  BY <1>1, RequestInvariant, ControlInvariant, PTL DEF Spec, StartTakesEffect

\* A stop that is answered has taken effect as well: the flag is cleared and no
\* request of any loop is left, whichever stage the stop found the task in
\* (console.py:102-105).
StopTakesEffect ==
    [][\A c \in Clients :
          op[c] \in {"stop", "stopping"} /\ op'[c] = "idle" =>
              ~running' /\ fresh' \cup flying' = {}]_vars

THEOREM StopAlwaysTakesEffect == Spec => StopTakesEffect
<1> DEFINE Effect == \A c \in Clients :
                        op[c] \in {"stop", "stopping"} /\ op'[c] = "idle" =>
                            ~running' /\ fresh' \cup flying' = {}
<1>1. RequestInv /\ ControlInv /\ [Next]_vars => [Effect]_vars
  <2> SUFFICES ASSUME RequestInv, ControlInv, Next, NEW c \in Clients,
                      op[c] \in {"stop", "stopping"}, op'[c] = "idle"
               PROVE  ~running' /\ fresh' \cup flying' = {}
    BY DEF Effect
  <2>1. StopNothing(c) \/ Stopped(c)
    <3>1. ASSUME NEW d \in Clients, CallStart(d) \/ CallStop(d) \/ Start(d) \/ Stop(d)
          PROVE  FALSE
      BY <3>1 DEF CallStart, CallStop, Queue, Start, Stop, Answer, ControlInv
    <3>2. ASSUME NEW d \in Clients, StopNothing(d) \/ Stopped(d)
          PROVE  StopNothing(c) \/ Stopped(c)
      BY <3>2 DEF StopNothing, Stopped, Answer, ControlInv
    <3>3. op' # op
      OBVIOUS
    <3>4. QED
      BY <3>1, <3>2, <3>3
      DEF Next, Step, LoopTask, ShutdownBegins, ShutdownEnds, LoopBegins, NeverBegins, LoopEnds,
          Drained, DrainCancelled, Tick, Send, Finish, calls
  <2>2. Ended /\ UNCHANGED <<fresh, flying>> /\ Holds(c)
    BY <2>1 DEF StopNothing, Stopped, Ended, requests, ControlInv
  <2>3. fresh' \cup flying' = {}
    BY <2>2 DEF RequestInv, Ended
  <2>4. CASE StopNothing(c)
    <3>1. server = "up" /\ UNCHANGED running
      BY <2>2, <2>4 DEF StopNothing, Holds, RequestInv, Ended
    <3>2. \A d \in Clients : op[d] # "stopping"
      BY <2>4, AnswerFrees DEF StopNothing, ControlInv, Holds, Answer
    <3>3. QED
      BY <2>2, <2>3, <3>1, <3>2 DEF ControlInv, RunningIsTrue, Ended
  <2>5. CASE Stopped(c)
    BY <2>3, <2>5 DEF Stopped
  <2>6. QED
    BY <2>1, <2>4, <2>5
<1>2. QED
  BY <1>1, RequestInvariant, ControlInvariant, PTL DEF Spec, StopTakesEffect
-----------------------------------------------------------------------------
(* The line for the lock, and the sizes.                                    *)

\* Who is in a call is in the line, once; and a stop never waits for a task that
\* is not on its way to its end.
LineInv ==
    /\ IsInjective(lockq)
    /\ \A c \in Clients : c \in ToSet(lockq) <=> op[c] # "idle"
    /\ \A c \in Clients : op[c] = "stopping" => task \in {"drain", "done"} \/ cancelled

Starters == {c \in Clients : op[c] = "start"}

\* A start in the line may start one more loop, and a request is created before
\* it is sent.
SizeInv ==
    /\ IsFiniteSet(Starters) /\ loops + Cardinality(Starters) <= MaxLoops
    /\ task # "none" => loops > 0
    /\ created <= MaxSent /\ sent + Cardinality(fresh) <= created
    /\ \A r \in fresh \cup flying : r = [id |-> r.id, loop |-> r.loop]

(* The last of a line, and the line without its first.                      *)
LEMMA JoinLine ==
  ASSUME NEW S, NEW s \in Seq(S), NEW e \in S, e \notin ToSet(s), IsInjective(s)
  PROVE  ToSet(Append(s, e)) = ToSet(s) \cup {e} /\ IsInjective(Append(s, e))
<1> DEFINE t == Append(s, e)
<1>1. /\ Len(t) = Len(s) + 1 /\ Len(s) \in Nat /\ t[Len(s) + 1] = e
      /\ \A i \in 1..Len(s) : t[i] = s[i]
  BY AppendProperties, LenProperties
<1>2. DOMAIN s = 1..Len(s) /\ DOMAIN t = 1..(Len(s) + 1)
  BY <1>1, AppendProperties, LenProperties
<1>3. \A i \in 1..(Len(s) + 1) : i \in 1..Len(s) \/ i = Len(s) + 1
  BY <1>1
<1>4. 1..Len(s) \subseteq 1..(Len(s) + 1) /\ Len(s) + 1 \in 1..(Len(s) + 1)
  BY <1>1
<1> HIDE DEF t
<1>5. ToSet(t) = ToSet(s) \cup {e}
  BY <1>1, <1>2, <1>3, <1>4 DEF ToSet
<1>6. IsInjective(t)
  BY <1>1, <1>2, <1>3 DEF ToSet, IsInjective
<1>7. QED
  BY <1>5, <1>6 DEF t

LEMMA LeaveLine ==
  ASSUME NEW S, NEW s \in Seq(S), s # <<>>, IsInjective(s)
  PROVE  ToSet(Tail(s)) = ToSet(s) \ {Head(s)} /\ IsInjective(Tail(s))
<1> DEFINE t == Tail(s)
<1>1. Len(s) \in Nat /\ Len(s) > 0 /\ Head(s) = s[1]
  BY EmptySeq, LenProperties
<1>2. t \in Seq(S) /\ Len(t) = Len(s) - 1 /\ \A i \in 1..Len(t) : t[i] = s[i + 1]
  BY HeadTailProperties
<1>3. DOMAIN s = 1..Len(s) /\ DOMAIN t = 1..(Len(s) - 1)
  BY <1>2, LenProperties
<1> HIDE DEF t
<1>4. /\ \A i \in 1..(Len(s) - 1) : t[i] = s[i + 1] /\ i + 1 \in 1..Len(s) /\ i + 1 # 1
      /\ \A i \in 1..Len(s) : i = 1 \/ (i - 1 \in 1..(Len(s) - 1) /\ s[i] = t[i - 1])
      /\ 1 \in 1..Len(s)
  BY <1>1, <1>2
<1>5. ToSet(t) \subseteq ToSet(s) \ {Head(s)}
  <2>1. \A i \in 1..(Len(s) - 1) : t[i] \in ToSet(s)
    BY <1>3, <1>4 DEF ToSet
  <2>2. \A i \in 1..(Len(s) - 1) : t[i] # s[1]
    BY <1>3, <1>4 DEF IsInjective
  <2>3. QED
    BY <1>1, <1>3, <2>1, <2>2 DEF ToSet
<1>6. ToSet(s) \ {Head(s)} \subseteq ToSet(t)
  BY <1>1, <1>3, <1>4 DEF ToSet
<1>7. IsInjective(t)
  <2>1. SUFFICES ASSUME NEW i \in 1..(Len(s) - 1), NEW j \in 1..(Len(s) - 1), t[i] = t[j]
                 PROVE  i = j
    BY <1>3 DEF IsInjective
  <2>2. i + 1 = j + 1
    BY <1>3, <1>4, <2>1 DEF IsInjective
  <2>3. QED
    BY <1>1, <2>2
<1>8. QED
  BY <1>5, <1>6, <1>7 DEF t

(* The holder answers and leaves the line.                                  *)
LEMMA AnswerLeaves ==
  ASSUME ControlInv, LineInv, NEW c \in Clients, Holds(c), Answer(c)
  PROVE  /\ IsInjective(lockq')
         /\ \A d \in Clients : d \in ToSet(lockq') <=> op'[d] # "idle"
         /\ \A d \in Clients : op'[d] # "stopping"
<1>1. lockq' = Tail(lockq) /\ lockq \in Seq(Clients) /\ lockq # <<>> /\ c = Head(lockq)
  BY DEF ControlInv, Holds, Answer
<1>2. ToSet(lockq') = ToSet(lockq) \ {c} /\ IsInjective(lockq')
  BY <1>1, LeaveLine DEF LineInv
<1>3. op'[c] = "idle" /\ \A d \in Clients : d # c => op'[d] = op[d]
  BY DEF Answer, ControlInv
<1>4. QED
  BY <1>2, <1>3, AnswerFrees DEF LineInv

LEMMA LineStep == RequestInv /\ ControlInv /\ LineInv /\ [Next]_vars => LineInv'
<1> SUFFICES ASSUME RequestInv, ControlInv, LineInv, [Next]_vars PROVE LineInv'
  OBVIOUS
<1>1. ASSUME NEW c \in Clients, CallStart(c) \/ CallStop(c) PROVE LineInv'
  <2>1. PICK what \in {"start", "stop"} : Queue(c, what)
    BY <1>1 DEF CallStart, CallStop
  <2>2. /\ op[c] = "idle" /\ lockq' = Append(lockq, c) /\ UNCHANGED <<task, cancelled>>
        /\ op' = [op EXCEPT ![c] = what] /\ lockq \in Seq(Clients)
    BY <2>1 DEF Queue, ControlInv
  <2>3. ToSet(lockq') = ToSet(lockq) \cup {c} /\ IsInjective(lockq')
    BY <2>2, JoinLine DEF LineInv
  <2>4. op'[c] = what /\ \A d \in Clients : d # c => op'[d] = op[d]
    BY <2>2 DEF ControlInv
  <2>5. QED
    BY <2>2, <2>3, <2>4 DEF LineInv
<1>2. ASSUME NEW c \in Clients, Start(c) \/ StopNothing(c) \/ Stopped(c) PROVE LineInv'
  <2>1. Holds(c) /\ Answer(c)
    BY <1>2 DEF Start, StopNothing, Stopped, ControlInv
  <2>2. QED
    BY <2>1, AnswerLeaves DEF LineInv
<1>3. ASSUME NEW c \in Clients, Stop(c) PROVE LineInv'
  <2>1. /\ op[c] = "stop" /\ lockq' = lockq /\ cancelled' = TRUE
        /\ op'[c] = "stopping" /\ \A d \in Clients : d # c => op'[d] = op[d]
    BY <1>3 DEF Stop, ControlInv
  <2>2. QED
    BY <2>1 DEF LineInv
<1>4. ASSUME UNCHANGED calls,
             (task' \in {"drain", "done"} \/ cancelled') \/ \A c \in Clients : op[c] # "stopping"
      PROVE  LineInv'
  BY <1>4 DEF LineInv, calls
<1>5. CASE ShutdownBegins \/ ShutdownEnds
  <2>1. \A c \in Clients : op[c] = "stopping" => lockq # <<>>
    BY DEF ControlInv, Holds
  <2>2. CASE ShutdownBegins
    BY <1>4, <2>1, <2>2 DEF ShutdownBegins
  <2>3. CASE ShutdownEnds
    BY <1>4, <2>1, <2>3 DEF ShutdownEnds, RequestInv
  <2>4. QED
    BY <1>5, <2>2, <2>3
<1>6. CASE LoopTask \/ Tick \/ \E r \in fresh \cup flying : Send(r) \/ Finish(r)
  BY <1>6 DEF LineInv, LoopTask, LoopBegins, NeverBegins, LoopEnds, Drained, DrainCancelled,
              Tick, Send, Finish, calls
<1>7. CASE UNCHANGED vars
  BY <1>7 DEF LineInv, vars, calls
<1>8. QED
  BY <1>1, <1>2, <1>3, <1>5, <1>6, <1>7 DEF Next, Step

\* Nobody is left in the line: who is in a call of the endpoint holds the lock or
\* waits behind its holder, and the holder of a stop waits for a task that is on
\* its way to its end (console.py:79-105); so no call waits for ever.
THEOREM LineNeverLeaks == Spec => []LineInv
<1>1. Init => LineInv
  BY DEF Init, LineInv, ToSet, IsInjective
<1>2. QED
  BY <1>1, LineStep, RequestInvariant, ControlInvariant, PTL DEF Spec

(* The calls that may start a loop.                                         *)
LEMMA StartersStay ==
  ASSUME SizeInv, \A c \in Clients : op'[c] = "start" => op[c] = "start"
  PROVE  /\ IsFiniteSet(Starters') /\ Cardinality(Starters') <= Cardinality(Starters)
         /\ Cardinality(Starters) \in Nat /\ Cardinality(Starters') \in Nat
BY FS_Subset, FS_CardinalityType DEF SizeInv, Starters

\* A step that neither creates nor sends requests.
LEMMA SizesStay ==
  ASSUME RequestInv, SizeInv, UNCHANGED <<created, sent>>,
         fresh' \subseteq fresh, flying' \subseteq flying,
         task' = "none" \/ task # "none" \/ loops' > 0,
         loops' + Cardinality(Starters') <= MaxLoops, IsFiniteSet(Starters'),
         loops' \in {loops, loops + 1}
  PROVE  SizeInv'
<1>1. /\ Cardinality(fresh') <= Cardinality(fresh)
      /\ Cardinality(fresh') \in Nat /\ Cardinality(fresh) \in Nat
  BY FS_Subset, FS_CardinalityType DEF RequestInv
<1>2. sent \in Nat /\ created \in Nat /\ loops \in Nat
  BY DEF RequestInv
<1>3. sent' + Cardinality(fresh') <= created' /\ created' <= MaxSent
  BY <1>1, <1>2 DEF SizeInv
<1>4. \A r \in fresh' \cup flying' : r = [id |-> r.id, loop |-> r.loop]
  BY DEF SizeInv
<1>5. task' # "none" => loops' > 0
  BY <1>2 DEF SizeInv
<1>6. QED
  BY <1>3, <1>4, <1>5 DEF SizeInv

LEMMA SizeStep == RequestInv /\ ControlInv /\ SizeInv /\ [Next]_vars => SizeInv'
<1> SUFFICES ASSUME RequestInv, ControlInv, SizeInv, [Next]_vars PROVE SizeInv'
  OBVIOUS
<1>1. /\ loops \in Nat /\ created \in Nat /\ sent \in Nat /\ MaxLoops \in Nat /\ MaxSent \in Nat
      /\ IsFiniteSet(fresh) /\ IsFiniteSet(Starters) /\ Cardinality(Starters) \in Nat
      /\ Cardinality(fresh) \in Nat
  BY Bounds, FS_CardinalityType DEF RequestInv, SizeInv
<1>2. ASSUME UNCHANGED <<loops, created, sent>>, fresh' \subseteq fresh, flying' \subseteq flying,
             task' # "none" => task # "none",
             \A c \in Clients : op'[c] = "start" => op[c] = "start"
      PROVE  SizeInv'
  <2>1. loops' + Cardinality(Starters') <= MaxLoops /\ IsFiniteSet(Starters')
    BY <1>1, <1>2, StartersStay DEF SizeInv
  <2>2. QED
    BY <1>2, <2>1, SizesStay
<1>3. ASSUME NEW c \in Clients, CallStart(c) PROVE SizeInv'
  <2>1. /\ Queue(c, "start") /\ loops + Cardinality(Starters) < MaxLoops
        /\ op[c] = "idle" /\ op'[c] = "start" /\ \A d \in Clients : d # c => op'[d] = op[d]
    BY <1>3 DEF CallStart, Queue, Starters, ControlInv
  <2>2. Starters' = Starters \cup {c} /\ c \notin Starters
    BY <2>1 DEF Starters
  <2>3. IsFiniteSet(Starters') /\ Cardinality(Starters') = Cardinality(Starters) + 1
    BY <1>1, <2>2, OneRequest
  <2>4. UNCHANGED <<loops, created, sent, task, fresh, flying>>
    BY <2>1 DEF Queue, requests
  <2>5. QED
    BY <1>1, <2>1, <2>3, <2>4 DEF SizeInv
<1>4. ASSUME NEW c \in Clients, CallStop(c) PROVE SizeInv'
  BY <1>2, <1>4 DEF CallStop, Queue, requests, ControlInv
<1>5. ASSUME NEW c \in Clients, Start(c) PROVE SizeInv'
  <2>1. /\ op[c] = "start" /\ op'[c] = "idle" /\ \A d \in Clients : d # c => op'[d] = op[d]
        /\ UNCHANGED requests
    BY <1>5 DEF Start, Answer, ControlInv
  <2>2. Starters' = Starters \ {c} /\ c \in Starters
    BY <2>1 DEF Starters
  <2>3. IsFiniteSet(Starters') /\ Cardinality(Starters') = Cardinality(Starters) - 1
    BY <1>1, <2>2, OneRequest
  <2>4. loops' = loops + 1 \/ (loops' = loops /\ task' = task)
    BY <1>5 DEF Start
  <2>5. loops' + Cardinality(Starters') <= MaxLoops
    BY <1>1, <2>3, <2>4 DEF SizeInv
  <2>6. task' = "none" \/ task # "none" \/ loops' > 0
    BY <1>1, <2>4
  <2>7. QED
    BY <1>1, <2>1, <2>3, <2>4, <2>5, <2>6, SizesStay DEF requests
<1>6. ASSUME NEW c \in Clients, StopNothing(c) \/ Stop(c) \/ Stopped(c) PROVE SizeInv'
  <2>1. UNCHANGED <<loops, requests, task>> /\ \E what \in {"idle", "stopping"} :
           op' = [op EXCEPT ![c] = what]
    BY <1>6 DEF StopNothing, Stop, Stopped, Answer
  <2>2. QED
    BY <1>2, <2>1 DEF requests, ControlInv
<1>7. CASE ShutdownBegins \/ ShutdownEnds \/ UNCHANGED vars
  BY <1>2, <1>7 DEF ShutdownBegins, ShutdownEnds, vars, calls, requests
<1>8. CASE LoopTask
  BY <1>2, <1>8 DEF LoopTask, LoopBegins, NeverBegins, LoopEnds, Drained, DrainCancelled,
                    calls, requests
<1>9. CASE Tick
  <2> DEFINE r == [id |-> created + 1, loop |-> loops]
  <2>1. /\ fresh' = fresh \cup {r} /\ created' = created + 1 /\ created < MaxSent
        /\ UNCHANGED <<op, loops, task, flying, sent>>
    BY <1>9 DEF Tick, calls
  <2>2. r \notin fresh
    BY DEF RequestInv
  <2>3. Cardinality(fresh') = Cardinality(fresh) + 1
    BY <1>1, <2>1, <2>2, OneRequest
  <2>4. Starters' = Starters
    BY <2>1 DEF Starters
  <2>5. sent' + Cardinality(fresh') <= created' /\ created' <= MaxSent
    BY <1>1, <2>1, <2>3 DEF SizeInv
  <2>6. r = [id |-> r.id, loop |-> r.loop]
    OBVIOUS
  <2>7. \A q \in fresh' \cup flying' : q = [id |-> q.id, loop |-> q.loop]
    BY <2>1, <2>6 DEF SizeInv
  <2>8. QED
    BY <2>1, <2>4, <2>5, <2>7 DEF SizeInv
<1>10. ASSUME NEW r \in fresh \cup flying, Send(r) PROVE SizeInv'
  <2>1. /\ r \in fresh /\ fresh' = fresh \ {r} /\ flying' = flying \cup {r} /\ sent' = sent + 1
        /\ UNCHANGED <<op, loops, task, created>>
    BY <1>10 DEF Send, calls
  <2>2. Cardinality(fresh') = Cardinality(fresh) - 1
    BY <1>1, <2>1, OneRequest
  <2>3. Starters' = Starters
    BY <2>1 DEF Starters
  <2>4. QED
    BY <1>1, <2>1, <2>2, <2>3 DEF SizeInv
<1>11. ASSUME NEW r \in fresh \cup flying, Finish(r) PROVE SizeInv'
  BY <1>2, <1>11 DEF Finish, calls
<1>12. QED
  BY <1>3, <1>4, <1>5, <1>6, <1>7, <1>8, <1>9, <1>10, <1>11 DEF Next, Step

THEOREM SizeInvariant == Spec => []SizeInv
<1>1. Init => SizeInv
  <2> SUFFICES ASSUME Init PROVE SizeInv
    OBVIOUS
  <2>1. /\ loops = 0 /\ created = 0 /\ sent = 0 /\ task = "none" /\ fresh = {} /\ flying = {}
        /\ \A c \in Clients : op[c] = "idle"
    BY DEF Init
  <2>2. Starters = {}
    BY <2>1 DEF Starters
  <2>3. QED
    BY <2>1, <2>2, Bounds, FS_EmptySet DEF SizeInv
<1>2. QED
  BY <1>1, SizeStep, RequestInvariant, ControlInvariant, PTL DEF Spec

\* Every variable stays in its range: the loops and the requests in their bounds,
\* the counters with them, and nobody is in the line twice.
THEOREM TypeCorrect == Spec => []TypeOK
<1> DEFINE Flags == server \in {"up", "stopping", "down"} /\ cancelled \in BOOLEAN
<1>1. RequestInv /\ ControlInv /\ LineInv /\ SizeInv /\ Flags => TypeOK
  <2> SUFFICES ASSUME RequestInv, ControlInv, LineInv, SizeInv, Flags PROVE TypeOK
    OBVIOUS
  <2>1. /\ loops \in Nat /\ created \in Nat /\ MaxLoops \in Nat /\ MaxSent \in Nat
        /\ {sent, successes, failures, aborted} \subseteq Nat
        /\ Cardinality(Starters) \in Nat /\ Cardinality(fresh) \in Nat
        /\ Cardinality(flying) \in Nat
    BY Bounds, FS_CardinalityType DEF RequestInv, SizeInv
  <2>2. loops \in 0..MaxLoops /\ created \in 0..MaxSent
    BY <2>1 DEF SizeInv
  <2>3. sent <= MaxSent /\ sent = successes + failures + aborted + Cardinality(flying)
    BY <2>1 DEF SizeInv, RequestInv
  <2>4. {sent, successes, failures, aborted} \subseteq 0..MaxSent
    BY <2>1, <2>3
  <2>5. fresh \cup flying \subseteq Request
    <3>1. SUFFICES ASSUME NEW r \in fresh \cup flying PROVE r \in Request
      OBVIOUS
    <3>2. r.loop = loops /\ r.id \in 1..created /\ r = [id |-> r.id, loop |-> r.loop]
      BY DEF RequestInv, SizeInv
    <3>3. task # "none"
      BY DEF RequestInv
    <3>4. r.loop \in 1..MaxLoops /\ r.id \in 1..MaxSent
      BY <2>1, <2>2, <3>2, <3>3 DEF SizeInv
    <3>5. QED
      BY <3>2, <3>4 DEF Request
  <2>6. QED
    BY <2>2, <2>4, <2>5 DEF TypeOK, RequestInv, ControlInv, LineInv
<1>2. Init => Flags
  BY DEF Init
<1>3. Flags /\ [Next]_vars => Flags'
  BY DEF Next, Step, LoopTask, CallStart, CallStop, Queue, Start, StopNothing, Stop, Stopped,
         ShutdownBegins, ShutdownEnds, LoopBegins, NeverBegins, LoopEnds, Drained,
         DrainCancelled, Tick, Send, Finish, vars, Ended
<1>4. QED
  BY <1>1, <1>2, <1>3, RequestInvariant, ControlInvariant, LineNeverLeaks, SizeInvariant, PTL
  DEF Spec
=============================================================================
