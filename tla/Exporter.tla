------------------------------ MODULE Exporter ------------------------------
(***************************************************************************)
(* The bounded, best-effort export of one Java service                     *)
(* (TelemetryExporter.java).  Request threads record the observations of a *)
(* finished request one by one into a bounded queue; a single worker       *)
(* drains batches and posts them to the receiver; close() stops the worker *)
(* while request threads may still record.                                 *)
(*                                                                         *)
(* The receiver stores a batch or refuses it; its answer can be lost after *)
(* it stored the batch, and it can store one after the worker gave it up.  *)
(* counted is a history of the observations the atomic counter stands for. *)
(***************************************************************************)
EXTENDS Naturals, FiniteSets, Sequences, SequencesExt

CONSTANTS
    ServerRequests,  \* requests whose server span is recorded (server = true)
    ClientCalls,     \* calls whose client span is recorded (server = false)
    Capacity,        \* capacity of the queue (2000)
    BatchMax         \* largest batch (100)

ASSUME ExporterAssumption ==
    /\ Capacity \in Nat \ {0}
    /\ BatchMax \in Nat \ {0}
    /\ ServerRequests \cap ClientCalls = {}

Requests == ServerRequests \cup ClientCalls

\* What record() offers, in order: a client call has no metric.
Kinds(r) == IF r \in ServerRequests THEN <<"span", "metric", "log">>
                                    ELSE <<"span", "log">>

Event(r, i) == [request |-> r, kind |-> Kinds(r)[i]]
Events == {Event(r, i) : r \in ServerRequests, i \in 1..3}
            \cup {Event(r, i) : r \in ClientCalls, i \in 1..2}

VARIABLES
    offered,    \* per request: how many of its observations were offered
    refused,    \* requests whose thread found the queue full and has yet to count it
    queue,
    worker,     \* "idle", "sending" (posted), "stored" (the receiver has it)
    batch,      \* the batch the worker drained
    stray,      \* batches the worker gave up on, still under way to the receiver
    received,   \* what the receiver stored, as it came in
    dropped,    \* the atomic counter
    counted,    \* history: the observations it stands for
    phase       \* "open", "closing", "closed"

vars == <<offered, refused, queue, worker, batch, stray, received, dropped, counted, phase>>

Init ==
    /\ offered = [r \in Requests |-> 0]
    /\ refused = {}
    /\ queue = <<>> /\ batch = <<>> /\ received = <<>>
    /\ worker = "idle"
    /\ stray = {} /\ dropped = 0 /\ counted = {}
    /\ phase = "open"
-----------------------------------------------------------------------------
(* Request threads.                                                        *)

\* offer(): the next observation enters the queue, or finds it full.
Offer(r) ==
    /\ r \notin refused /\ offered[r] < Len(Kinds(r))
    /\ offered' = [offered EXCEPT ![r] = @ + 1]
    /\ IF Len(queue) < Capacity
         THEN queue' = Append(queue, Event(r, offered[r] + 1)) /\ UNCHANGED refused
         ELSE refused' = refused \cup {r} /\ UNCHANGED queue
    /\ UNCHANGED <<worker, batch, received, dropped, counted, phase, stray>>

\* reportDropped(1), by the thread whose offer failed.
ReportRefused(r) ==
    /\ r \in refused
    /\ refused' = refused \ {r}
    /\ dropped' = dropped + 1 /\ counted' = counted \cup {Event(r, offered[r])}
    /\ UNCHANGED <<offered, queue, worker, batch, received, phase, stray>>

Record(r) == Offer(r) \/ ReportRefused(r)
-----------------------------------------------------------------------------
(* The worker.                                                             *)

Smaller(a, b) == IF a < b THEN a ELSE b
DrainCount == Smaller(Len(queue), BatchMax)

\* Mutant: the batch is posted but left in the queue until it is acknowledged.
MutantFlush ==
    /\ phase = "open" /\ worker = "idle" /\ queue # <<>>
    /\ batch' = SubSeq(queue, 1, DrainCount)
    /\ worker' = "sending"
    /\ UNCHANGED <<offered, refused, queue, received, dropped, counted, phase, stray>>

\* flush(): drain a batch, if there is one, and post it.
Flush ==
    /\ phase = "open" /\ worker = "idle" /\ queue # <<>>
    /\ batch' = SubSeq(queue, 1, DrainCount)
    /\ queue' = SubSeq(queue, DrainCount + 1, Len(queue))
    /\ worker' = "sending"
    /\ UNCHANGED <<offered, refused, received, dropped, counted, phase, stray>>

ReceiverStores ==
    /\ worker = "sending"
    /\ received' = received \o batch
    /\ worker' = "stored"
    /\ UNCHANGED <<offered, refused, queue, batch, dropped, counted, phase, stray>>

\* The answer is a 2xx.
Acknowledged ==
    /\ worker = "stored"
    /\ worker' = "idle" /\ batch' = <<>>
    /\ UNCHANGED <<offered, refused, queue, received, dropped, counted, phase, stray>>

\* A batch given up on was refused or lost, or is still under way.
GiveUp == stray' \in IF worker = "sending" THEN {stray, stray \cup {batch}} ELSE {stray}

\* Mutant: a refused batch is forgotten.
MutantSendFailed ==
    /\ worker \in {"sending", "stored"}
    /\ worker' = "idle" /\ batch' = <<>>
    /\ GiveUp
    /\ UNCHANGED <<offered, refused, queue, received, dropped, counted, phase>>

\* Mutant: the failure escapes from flush(), which cancels its schedule.
MutantSendFailedEscapes ==
    /\ worker \in {"sending", "stored"}
    /\ worker' = "cancelled" /\ batch' = <<>>
    /\ GiveUp
    /\ dropped' = dropped + Len(batch)
    /\ counted' = counted \cup ToSet(batch)
    /\ UNCHANGED <<offered, refused, queue, received, phase>>

\* The receiver refuses the batch, the post times out or fails, the answer is
\* lost, or shutdownNow() interrupts the worker: the whole batch is counted.
SendFailed ==
    /\ worker \in {"sending", "stored"}
    /\ worker' = "idle" /\ batch' = <<>>
    /\ GiveUp
    /\ dropped' = dropped + Len(batch)
    /\ counted' = counted \cup ToSet(batch)
    /\ UNCHANGED <<offered, refused, queue, received, phase>>
-----------------------------------------------------------------------------
(* The receiver stores a batch late: the worker has gone on to the next.    *)

StrayStored(b) ==
    /\ b \in stray
    /\ stray' = stray \ {b} /\ received' = received \o b
    /\ UNCHANGED <<offered, refused, queue, worker, batch, dropped, counted, phase>>
-----------------------------------------------------------------------------
(* close(): no further flush; what is queued stays where it is.            *)

Shutdown ==
    /\ phase = "open"
    /\ phase' = "closing"
    /\ UNCHANGED <<offered, refused, queue, worker, batch, received, dropped, counted, stray>>

Closed ==
    /\ phase = "closing" /\ worker = "idle"
    /\ phase' = "closed"
    /\ UNCHANGED <<offered, refused, queue, worker, batch, received, dropped, counted, stray>>

Next ==
    \/ \E r \in Requests : Record(r)
    \/ Flush \/ ReceiverStores \/ Acknowledged \/ SendFailed
    \/ \E b \in stray : StrayStored(b)
    \/ Shutdown \/ Closed

\* Request threads run, the worker's schedule fires, and every post ends by its
\* 1500 ms timeout at the latest.
Fairness ==
    /\ \A r \in Requests : WF_vars(Record(r))
    /\ WF_vars(Flush) /\ WF_vars(Acknowledged \/ SendFailed)
    /\ WF_vars(Closed)

Spec == Init /\ [][Next]_vars /\ Fairness
-----------------------------------------------------------------------------
\* Every variable stays in its range; the queue never exceeds its capacity
\* (TelemetryExporter.java:26) and a batch never exceeds its maximum (:84-85).
TypeOK ==
    /\ offered \in [Requests -> 0..3]
    /\ \A r \in Requests : offered[r] <= Len(Kinds(r))
    /\ refused \subseteq Requests
    /\ queue \in Seq(Events) /\ Len(queue) <= Capacity
    /\ worker \in {"idle", "sending", "stored"}
    /\ batch \in Seq(Events) /\ Len(batch) <= BatchMax
    /\ stray \subseteq Seq(Events) /\ received \in Seq(Events)
    /\ dropped \in Nat
    /\ counted \subseteq Events
    /\ phase \in {"open", "closing", "closed"}

\* The observations offered so far, and those of them nobody has accounted for.
Offered == UNION {{Event(r, i) : i \in 1..offered[r]} : r \in Requests}
Reporting == {Event(r, offered[r]) : r \in refused}

\* The observations that are lost without a trace: the receiver does not have
\* them, nobody counts them, and no flush will send them.
LostSilently ==
    Offered \ (ToSet(batch) \cup ToSet(received) \cup counted \cup Reporting
                 \cup IF phase = "open" THEN ToSet(queue) ELSE {})

\* While the export is open no observation is lost without being counted,
\* whatever the interleaving of threads, refusals and late answers; and the
\* counter counts each lost observation once.  close() does lose some: what it
\* leaves in the queue, and what request threads add to it afterwards, is sent by
\* nobody and counted nowhere, and that is all, never more than the queue holds
\* (TelemetryExporter.java:26,73-99,105-113).
OnlyCloseLosesSilently ==
    /\ LostSilently = IF phase = "open" THEN {} ELSE ToSet(queue)
    /\ Cardinality(LostSilently) <= Capacity
    /\ dropped = Cardinality(counted)

\* An observation is stored at most once: what is stored, under way and queued
\* never overlaps, also when a post was given up on and arrived all the same.
SentAtMostOnce ==
    LET underway == IF worker = "sending" THEN batch ELSE <<>>
    IN  /\ IsInjective(received \o underway \o queue)
        /\ \A b \in stray : ToSet(b) \cap ToSet(received \o underway \o queue) = {}

\* The exporter implements the promise of module Delivery: what is handed to it
\* is stored at most once, and for good, is counted once when it is given up, and
\* while the service runs it is settled one way or the other, with a receiver that
\* is slow, refuses or never answers (TelemetryExporter.java:23,73-99).
Promise == INSTANCE Delivery WITH
    Observations <- Events,
    recorded     <- Offered,
    stored       <- received,
    lost         <- counted,
    total        <- dropped,
    open         <- phase = "open"

KeepsDelivery == Promise!Spec
=============================================================================
