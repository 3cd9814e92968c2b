-------------------------------- MODULE Jobs --------------------------------
(***************************************************************************)
(* The investigation API (api.py): the jobs dictionary, which keeps its    *)
(* insertion order, and one task per job, which runs the agent under the   *)
(* outer deadline of the job and, once the model's status is known, under  *)
(* the agent's own deadline (agent.py).  Jobs live in memory only.         *)
(*                                                                         *)
(* Time is counted in ticks from the first step of the task.               *)
(***************************************************************************)
EXTENDS Naturals, FiniteSets, Sequences, SequencesExt

CONSTANTS
    MaxJobs,     \* jobs remembered (25)
    OuterLimit,  \* INVESTIGATION_TIMEOUT_SECONDS of the environment
    InnerLimit,  \* the agent's INVESTIGATION_TIMEOUT_SECONDS
    MaxPosts     \* bound on the jobs created

ASSUME JobsAssumption ==
    /\ MaxJobs \in Nat \ {0} /\ OuterLimit \in Nat \ {0}
    /\ InnerLimit \in Nat \ {0} /\ MaxPosts \in Nat

VARIABLES
    jobs,      \* the ids of the jobs dictionary, oldest first
    status,    \* job["status"], also of jobs no longer in the dictionary
    verdict,   \* what job["diagnosis"] assesses, or "none"
    error,     \* the kind of job["error"], or "none"
    pc,        \* per job: the state of its task
    outer,     \* ticks since the outer deadline was armed, 0 when it is not
    inner,     \* ticks since the agent's deadline was armed, 0 when it is not
    posts      \* jobs created

records == <<jobs, status, verdict, error, posts>>
clocks == <<outer, inner>>
jobsVars == <<records, pc, clocks>>

Ids == 1..MaxPosts
Statuses == {"running", "complete", "unavailable", "failed"}
Live(id) == pc[id] \in {"created", "status", "agent"}
Known == ToSet(jobs)

JobsInit ==
    /\ jobs = <<>> /\ posts = 0
    /\ status = [id \in Ids |-> "running"]
    /\ verdict = [id \in Ids |-> "none"] /\ error = [id \in Ids |-> "none"]
    /\ pc = [id \in Ids |-> "none"]
    /\ outer = [id \in Ids |-> 0] /\ inner = [id \in Ids |-> 0]
-----------------------------------------------------------------------------
(* POST /api/investigations, one step of the event loop.                   *)

Busy == \E id \in Known : status[id] = "running"

\* Mutant: one job too many is kept.
MutantEvicted == IF Len(jobs) > MaxJobs THEN Tail(jobs) ELSE jobs

\* The oldest job makes room for the new one (a loop in the code, whose body runs
\* at most once: JobsTypeOK bounds the dictionary).
Evicted == IF Len(jobs) >= MaxJobs THEN Tail(jobs) ELSE jobs

\* Mutant: the check for a running job is dropped.
MutantInvestigate ==
    /\ posts < MaxPosts
    /\ posts' = posts + 1
    /\ jobs' = Append(Evicted, posts + 1)
    /\ pc' = [pc EXCEPT ![posts + 1] = "created"]
    /\ UNCHANGED <<status, verdict, error, clocks>>

Investigate ==
    /\ ~Busy /\ posts < MaxPosts
    /\ posts' = posts + 1
    /\ jobs' = Append(Evicted, posts + 1)
    /\ pc' = [pc EXCEPT ![posts + 1] = "created"]
    /\ UNCHANGED <<status, verdict, error, clocks>>
-----------------------------------------------------------------------------
(* The task of a job.                                                      *)

Conclude(id, s, v, e) ==
    /\ status' = [status EXCEPT ![id] = s]
    /\ verdict' = [verdict EXCEPT ![id] = v]
    /\ error' = [error EXCEPT ![id] = e]
    /\ pc' = [pc EXCEPT ![id] = "ended"]
    /\ outer' = [outer EXCEPT ![id] = 0] /\ inner' = [inner EXCEPT ![id] = 0]
    /\ UNCHANGED <<jobs, posts>>

\* The outer deadline is armed, then the model asked for its status.
RunBegins(id) ==
    /\ pc[id] = "created"
    /\ pc' = [pc EXCEPT ![id] = "status"]
    /\ UNCHANGED <<records, clocks>>

\* The status arrives, a round trip later; the agent arms its own deadline.
ModelReady(id) ==
    /\ pc[id] = "status" /\ outer[id] > 0
    /\ pc' = [pc EXCEPT ![id] = "agent"]
    /\ UNCHANGED <<records, clocks>>

ModelMissing(id) ==
    /\ pc[id] = "status"
    /\ Conclude(id, "unavailable", "none", "unavailable")

\* The agent returns a diagnosis, of its own or of the model.
Finish(id) ==
    /\ pc[id] = "agent"
    /\ \E v \in {"assessed", "incomplete"} : Conclude(id, "complete", v, "none")

\* Mutant: only the errors foreseen are caught, the task dies of another.
MutantBreaks(id) ==
    /\ pc[id] \in {"status", "agent"}
    /\ pc' = [pc EXCEPT ![id] = "ended"]
    /\ UNCHANGED <<records, clocks>>

\* Any other exception, of the request for the model's status or of the agent
\* (the exception group around a failing model among them).
Breaks(id) ==
    /\ pc[id] \in {"status", "agent"}
    /\ Conclude(id, "failed", "none", "other")

\* Mutant: the deadline's answer is stored, the agent not stopped.
MutantInnerExpires(id) ==
    /\ pc[id] = "agent" /\ inner[id] >= InnerLimit
    /\ status' = [status EXCEPT ![id] = "complete"]
    /\ verdict' = [verdict EXCEPT ![id] = "incomplete"]
    /\ UNCHANGED <<jobs, error, posts, pc, clocks>>

\* The agent's deadline answers with an incomplete assessment ...
InnerExpires(id) ==
    /\ pc[id] = "agent" /\ inner[id] >= InnerLimit
    /\ Conclude(id, "complete", "incomplete", "none")

\* Mutant: the deadline does not cover the wait for the model's status.
MutantOuterExpires(id) ==
    /\ pc[id] = "agent" /\ outer[id] >= OuterLimit
    /\ Conclude(id, "failed", "none", "time")

\* ... the job's with a failure.
OuterExpires(id) ==
    /\ pc[id] \in {"status", "agent"} /\ outer[id] >= OuterLimit
    /\ Conclude(id, "failed", "none", "time")

\* Time passes up to the earlier deadline, which then is due.
Tick(id) ==
    /\ pc[id] \in {"status", "agent"} /\ outer[id] < OuterLimit
    /\ pc[id] = "agent" => inner[id] < InnerLimit
    /\ outer' = [outer EXCEPT ![id] = @ + 1]
    /\ inner' = [inner EXCEPT ![id] = IF pc[id] = "agent" THEN @ + 1 ELSE @]
    /\ UNCHANGED <<records, pc>>

\* The process ends, in order (the lifespan cancels the tasks, which leaves
\* their jobs "running") or not, and starts again without jobs.
Restart ==
    /\ jobs # <<>>
    /\ jobs' = <<>>
    /\ pc' = [id \in Ids |-> IF Live(id) THEN "ended" ELSE pc[id]]
    /\ outer' = [id \in Ids |-> 0] /\ inner' = [id \in Ids |-> 0]
    /\ UNCHANGED <<status, verdict, error, posts>>

Timed(id) == RunBegins(id) \/ Tick(id) \/ InnerExpires(id) \/ OuterExpires(id)

Task(id) == Timed(id) \/ ModelReady(id) \/ ModelMissing(id) \/ Finish(id) \/ Breaks(id)

JobsNext == Investigate \/ Restart \/ \E id \in Ids : Task(id)

\* The event loop runs a ready task and its timers; nothing is promised of the
\* model or of the telemetry.
JobsFairness == \A id \in Ids : WF_jobsVars(Timed(id))

JobsSpec == JobsInit /\ [][JobsNext]_jobsVars /\ JobsFairness
-----------------------------------------------------------------------------
\* Every variable stays in its range; the dictionary has no id twice and never
\* more than MaxJobs (api.py:80).
JobsTypeOK ==
    /\ jobs \in Seq(Ids) /\ IsInjective(jobs) /\ Len(jobs) <= MaxJobs
    /\ posts \in 0..MaxPosts
    /\ status \in [Ids -> Statuses]
    /\ verdict \in [Ids -> {"none", "assessed", "incomplete"}]
    /\ error \in [Ids -> {"none", "unavailable", "time", "other"}]
    /\ pc \in [Ids -> {"none", "created", "status", "agent", "ended"}]
    /\ outer \in [Ids -> 0..OuterLimit] /\ inner \in [Ids -> 0..InnerLimit]

\* At most one investigation runs, whatever was posted, evicted or restarted.
AtMostOneRuns == \A i, j \in Ids : Live(i) /\ Live(j) => i = j

\* A job is listed as running exactly while its task lives: eviction never takes
\* a job from its task, and no job listed as running refuses every later POST
\* because nothing will finish it (api.py:60-82).
RunningMeansTask == \A id \in Ids : Live(id) <=> (id \in Known /\ status[id] = "running")

\* A job that has ended never changes again: neither deadline overwrites what
\* the other, or the agent, has answered.
EndedIsFinal ==
    [][\A id \in Ids : pc[id] # "none" /\ status[id] # "running"
          => <<status'[id], verdict'[id], error'[id]>> = <<status[id], verdict[id], error[id]>>]_jobsVars

\* What has become of a job: running while its task lives, lost when the task is
\* gone without an end.
Outcome(id) ==
    [status  |-> IF pc[id] = "none" THEN "none"
                 ELSE IF status[id] # "running" THEN status[id]
                 ELSE IF Live(id) THEN "running" ELSE "lost",
     verdict |-> verdict[id], error |-> error[id]]

\* The API implements the promise of module OneInvestigation, whichever of the
\* deadlines, the agent and the model ends a job and whatever is posted, evicted
\* or restarted meanwhile: one job runs at a time, its end is one, is final and
\* says what it is, and it ends or is lost with its process even if the model and
\* the telemetry never answer (api.py:34-82).
Promise == INSTANCE OneInvestigation WITH outcome <- [id \in Ids |-> Outcome(id)]

KeepsOneInvestigation == Promise!Spec

\* "Unresolved validation or exhausted budgets produce an explicitly incomplete
\* assessment" (architecture.md:67), the 240 seconds per investigation being one
\* of the budgets (architecture.md:61).
TimeBudgetIsAssessed == \A id \in Ids : error[id] # "time"
=============================================================================
