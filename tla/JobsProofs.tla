----------------------------- MODULE JobsProofs -----------------------------
(***************************************************************************)
(* Proofs about the investigation API and the pages that follow it, for    *)
(* any number of pages, jobs and posts and for any deadlines.              *)
(*                                                                         *)
(* RunningMeansTask is what carries the rest: a POST is accepted only when *)
(* no known job is running, so that no task lives when a job is added or   *)
(* evicted, and a task only ever writes a status that is still running.    *)
(* The step simulation of module OneInvestigation rests on the same facts. *)
(***************************************************************************)
EXTENDS InvestigationPage, FiniteSetTheorems, SequenceTheorems, TLAPS

TaskStates == {"none", "created", "status", "agent", "ended"}

\* What the API keeps true: the ids beyond `posts` are untouched, and a job is
\* running exactly while its task lives, which at most one does.
JobsInv ==
    /\ jobs \in Seq(Ids) /\ posts \in 0..MaxPosts
    /\ status \in [Ids -> Statuses]
    /\ pc \in [Ids -> TaskStates]
    /\ \A id \in Ids : id > posts => pc[id] = "none" /\ status[id] = "running"
    /\ RunningMeansTask /\ AtMostOneRuns

(* A new job is appended, the oldest one leaves at most.                    *)
LEMMA EvictedKeeps ==
  ASSUME JobsInv, NEW id \in Ids
  PROVE  /\ Append(Evicted, id) \in Seq(Ids)
         /\ id \in ToSet(Append(Evicted, id))
         /\ ToSet(Append(Evicted, id)) \subseteq Known \cup {id}
<1>1. jobs \in Seq(Ids) /\ MaxJobs \in Nat \ {0}
  BY JobsAssumption DEF JobsInv
<1>2. Evicted \in Seq(Ids) /\ ToSet(Evicted) \subseteq Known
  <2>1. CASE Len(jobs) >= MaxJobs
    <3>1. jobs # <<>>
      BY <1>1, <2>1, EmptySeq
    <3>2. /\ Tail(jobs) \in Seq(Ids) /\ Len(Tail(jobs)) = Len(jobs) - 1
          /\ \A i \in 1..Len(Tail(jobs)) : Tail(jobs)[i] = jobs[i + 1]
      BY <1>1, <3>1, HeadTailProperties
    <3>3. Evicted = Tail(jobs)
      BY <2>1 DEF Evicted
    <3>4. /\ DOMAIN jobs = 1..Len(jobs) /\ Len(jobs) \in Nat
          /\ DOMAIN Tail(jobs) = 1..Len(Tail(jobs))
      BY <1>1, <3>2, LenProperties
    <3>5. \A i \in 1..Len(Tail(jobs)) : i + 1 \in DOMAIN jobs
      BY <3>2, <3>4
    <3>6. QED
      BY <3>2, <3>3, <3>4, <3>5 DEF ToSet, Known
  <2>2. CASE ~(Len(jobs) >= MaxJobs)
    BY <1>1, <2>2 DEF Evicted, Known
  <2>3. QED
    BY <2>1, <2>2
<1>3. /\ Append(Evicted, id) \in Seq(Ids)
      /\ Len(Append(Evicted, id)) = Len(Evicted) + 1
      /\ \A i \in 1..Len(Evicted) : Append(Evicted, id)[i] = Evicted[i]
      /\ Append(Evicted, id)[Len(Evicted) + 1] = id
  BY <1>2, AppendProperties
<1>4. /\ DOMAIN Append(Evicted, id) = 1..(Len(Evicted) + 1) /\ Len(Evicted) \in Nat
      /\ DOMAIN Evicted = 1..Len(Evicted)
  BY <1>2, <1>3, LenProperties
<1>5. id \in ToSet(Append(Evicted, id))
  <2>1. Len(Evicted) + 1 \in DOMAIN Append(Evicted, id)
    BY <1>4
  <2>2. QED
    BY <1>3, <2>1 DEF ToSet
<1>6. ToSet(Append(Evicted, id)) \subseteq ToSet(Evicted) \cup {id}
  <2>1. ASSUME NEW i \in DOMAIN Append(Evicted, id)
        PROVE  Append(Evicted, id)[i] \in ToSet(Evicted) \cup {id}
    <3>1. i \in DOMAIN Evicted \/ i = Len(Evicted) + 1
      BY <1>4
    <3>2. QED
      BY <1>3, <1>4, <3>1 DEF ToSet
  <2>2. QED
    BY <2>1 DEF ToSet
<1>7. QED
  BY <1>2, <1>3, <1>5, <1>6

(* A step of the API leaves its invariant true, and changes the status of   *)
(* a job only while its task lives.                                         *)
LEMMA JobsStep ==
  ASSUME JobsInv, [JobsNext]_jobsVars
  PROVE  /\ JobsInv'
         /\ posts <= posts'
         /\ \A id \in Ids : ~Live(id) =>
               /\ status'[id] = status[id]
               /\ verdict'[id] = verdict[id] /\ error'[id] = error[id]
<1> USE DEF JobsInv, RunningMeansTask, AtMostOneRuns, Live, Ids, Statuses, TaskStates
<1>1. CASE Investigate
  <2>1. /\ posts + 1 \in Ids /\ posts' = posts + 1
        /\ pc' = [pc EXCEPT ![posts + 1] = "created"]
        /\ jobs' = Append(Evicted, posts + 1)
        /\ status' = status /\ verdict' = verdict /\ error' = error
    BY <1>1, JobsAssumption DEF Investigate
  <2>2. jobs' \in Seq(Ids) /\ posts + 1 \in Known' /\ Known' \subseteq Known \cup {posts + 1}
    BY <2>1, EvictedKeeps DEF Known
  <2>3. \A id \in Known : status[id] # "running"
    BY <1>1 DEF Investigate, Busy
  <2>4. \A id \in Ids : ~Live(id)
    BY <2>3
  <2>5. QED
    BY <2>1, <2>2, <2>3, <2>4, JobsAssumption
<1>2. CASE Restart
  <2>1. Known' = {} /\ jobs' \in Seq(Ids)
    BY <1>2, EmptySeq DEF Restart, Known, ToSet
  <2>2. QED
    BY <1>2, <2>1 DEF Restart
<1>3. ASSUME NEW id \in Ids,
             NEW s \in Statuses \ {"running"}, NEW v, NEW e,
             Live(id), Conclude(id, s, v, e)
      PROVE  /\ JobsInv'
             /\ posts <= posts'
             /\ \A i \in Ids : ~Live(i) =>
                   /\ status'[i] = status[i]
                   /\ verdict'[i] = verdict[i] /\ error'[i] = error[i]
  <2>1. /\ status' = [status EXCEPT ![id] = s] /\ pc' = [pc EXCEPT ![id] = "ended"]
        /\ verdict' = [verdict EXCEPT ![id] = v] /\ error' = [error EXCEPT ![id] = e]
        /\ UNCHANGED <<jobs, posts>>
    BY <1>3 DEF Conclude
  <2>2. Known' = Known
    BY <2>1 DEF Known
  <2>3. \A i \in Ids \ {id} : /\ status'[i] = status[i] /\ pc'[i] = pc[i]
                              /\ verdict'[i] = verdict[i] /\ error'[i] = error[i]
    BY <2>1
  <2>4. status'[id] = s /\ pc'[id] = "ended" /\ id <= posts
    BY <1>3, <2>1, JobsAssumption
  <2>5. QED
    BY <1>3, <2>1, <2>2, <2>3, <2>4, JobsAssumption
<1>4. ASSUME NEW id \in Ids, NEW next \in {"created", "status", "agent"},
             Live(id), UNCHANGED records, pc' = [pc EXCEPT ![id] = next]
      PROVE  /\ JobsInv'
             /\ posts <= posts'
             /\ \A i \in Ids : ~Live(i) =>
                   /\ status'[i] = status[i]
                   /\ verdict'[i] = verdict[i] /\ error'[i] = error[i]
  <2>1. Known' = Known /\ UNCHANGED <<jobs, status, verdict, error, posts>>
    BY <1>4 DEF records, Known
  <2>2. pc' \in [Ids -> TaskStates] /\ \A i \in Ids \ {id} : pc'[i] = pc[i]
    BY <1>4
  <2>3. pc'[id] \in {"created", "status", "agent"} /\ id <= posts
    BY <1>4, JobsAssumption
  <2>4. \A i \in Ids : Live(i)' <=> Live(i)
    BY <1>4, <2>2, <2>3
  <2>5. QED
    BY <1>4, <2>1, <2>2, <2>3, <2>4, JobsAssumption
<1>5. CASE \E id \in Ids : Task(id)
  <2>1. PICK id \in Ids : Task(id)
    BY <1>5
  <2>2. CASE RunBegins(id) \/ Tick(id) \/ ModelReady(id)
    <3>1. CASE Tick(id)
      <4>1. Live(id) /\ UNCHANGED records /\ pc' = [pc EXCEPT ![id] = pc[id]]
        BY <3>1 DEF Tick
      <4>2. QED
        BY <1>4, <4>1
    <3>2. QED
      BY <1>4, <2>2, <3>1 DEF RunBegins, ModelReady
  <2>3. CASE ModelMissing(id)
    BY <1>3, <2>3 DEF ModelMissing
  <2>4. CASE Finish(id)
    <3>1. PICK v \in {"assessed", "incomplete"} : Conclude(id, "complete", v, "none")
      BY <2>4 DEF Finish
    <3>2. QED
      BY <1>3, <2>4, <3>1 DEF Finish
  <2>5. CASE Breaks(id)
    BY <1>3, <2>5 DEF Breaks
  <2>6. CASE InnerExpires(id) \/ OuterExpires(id)
    BY <1>3, <2>6 DEF InnerExpires, OuterExpires
  <2>7. QED
    BY <2>1, <2>2, <2>3, <2>4, <2>5, <2>6 DEF Task, Timed
<1>6. CASE UNCHANGED jobsVars
  BY <1>6, JobsAssumption DEF jobsVars, records, Known
<1>7. QED
  BY <1>1, <1>2, <1>5, <1>6 DEF JobsNext
-----------------------------------------------------------------------------
(* To the API, whatever a page does is a step of its own or a stutter.      *)
LEMMA ApiStep ==
  ASSUME [Next]_vars
  PROVE  [JobsNext]_jobsVars
BY DEF Next, PageNext, Submit, Accepted, Refused, Started, PostGivenUp, Poll, Reload, JobRead,
       Rendered, PollFails, LateArrives, JobsNext, vars

(* The invariant of the API in the composed system.                         *)
THEOREM ApiInvariant == Spec => []JobsInv
<1>1. Init => JobsInv
  <2> SUFFICES ASSUME JobsInit PROVE JobsInv
    BY DEF Init
  <2>1. jobs \in Seq(Ids) /\ Known = {}
    BY EmptySeq DEF JobsInit, Known, ToSet
  <2>2. QED
    BY <2>1, JobsAssumption
    DEF JobsInit, JobsInv, RunningMeansTask, AtMostOneRuns, Live, Ids, Statuses, TaskStates
<1>2. JobsInv /\ [Next]_vars => JobsInv'
  BY ApiStep, JobsStep
<1>3. QED
  BY <1>1, <1>2, PTL DEF Spec

\* However many pages post, and whatever is given up, evicted or restarted, at
\* most one investigation runs (api.py:78).
THEOREM OnlyOneRuns == Spec => []AtMostOneRuns
<1>1. JobsInv => AtMostOneRuns
  BY DEF JobsInv
<1>2. QED
  BY <1>1, ApiInvariant, PTL

\* A job is listed as running exactly while its task lives (api.py:60-82).
THEOREM RunningAlwaysMeansTask == Spec => []RunningMeansTask
<1>1. JobsInv => RunningMeansTask
  BY DEF JobsInv
<1>2. QED
  BY <1>1, ApiInvariant, PTL

\* What a job has answered is never overwritten, by neither deadline
\* (api.py:60-74, agent.py:308).
THEOREM EndedAlwaysFinal == Spec => EndedIsFinal
<1> DEFINE Step == \A id \in Ids : pc[id] # "none" /\ status[id] # "running"
             => <<status'[id], verdict'[id], error'[id]>> = <<status[id], verdict[id], error[id]>>
<1>1. JobsInv /\ [Next]_vars => [Step]_jobsVars
  <2> SUFFICES ASSUME JobsInv, [Next]_vars, NEW id \in Ids, status[id] # "running"
               PROVE  /\ status'[id] = status[id]
                      /\ verdict'[id] = verdict[id] /\ error'[id] = error[id]
    BY DEF Step
  <2>1. ~Live(id)
    BY DEF JobsInv, RunningMeansTask
  <2>2. QED
    BY <2>1, ApiStep, JobsStep
<1>2. QED
  BY <1>1, ApiInvariant, PTL DEF Spec, EndedIsFinal
-----------------------------------------------------------------------------
\* What a page knows, and the answer on its way to it, is of the job its URL
\* names, or of the one it has just started.
PageInv ==
    /\ page \in [Pages -> {"ready", "posting", "posted", "asking", "answered"}]
    /\ reply \in [Pages -> {Nothing} \cup [id : Ids, status : Statuses]]
    /\ view \in [Pages -> {Nothing} \cup [id : Ids, status : Statuses]]
    /\ link \in [Pages -> 0..MaxPosts]
    /\ ShowsTheLinkedJob
    /\ \A p \in Pages :
          /\ page[p] = "posted" => reply[p] # Nothing /\ reply[p].status = "running"
          /\ page[p] = "answered" /\ reply[p] # Nothing =>
                /\ reply[p].id = link[p]
                /\ reply[p].status # "running" => reply[p].status = status[link[p]]

(* A step that leaves all but one page alone keeps the invariant if it does *)
(* for that page: what the others show has ended, and stays as it is.       *)
LEMMA PageStep == JobsInv /\ PageInv /\ [Next]_vars => PageInv'
<1> SUFFICES ASSUME JobsInv, PageInv, [Next]_vars PROVE PageInv'
  OBVIOUS
<1> USE DEF PageInv, ShowsTheLinkedJob, Shows
<1>1. \A x \in Ids : status[x] # "running" => status'[x] = status[x]
  <2>1. \A x \in Ids : status[x] # "running" => ~Live(x)
    BY DEF JobsInv, RunningMeansTask
  <2>2. QED
    BY <2>1, ApiStep, JobsStep
<1>2. \A p \in Pages : /\ view[p] # Nothing => view[p].id \in Ids
                       /\ reply[p] # Nothing => reply[p].id \in Ids
  OBVIOUS
<1>3. CASE UNCHANGED <<page, reply, view, link>>
  BY <1>1, <1>2, <1>3
<1>4. ASSUME NEW p \in Pages, PageNext(p) PROVE PageInv'
  <2>1. CASE Submit(p) \/ Refused(p) \/ Poll(p)
    BY <1>1, <1>2, <2>1 DEF Submit, Refused, Poll
  <2>2. CASE Accepted(p)
    <3>1. posts + 1 \in Ids
      BY <2>2, JobsAssumption DEF Accepted, Investigate, JobsInv, Ids
    <3>2. [id |-> posts + 1, status |-> "running"] # Nothing
      BY DEF Nothing
    <3>3. QED
      BY <1>1, <1>2, <2>2, <3>1, <3>2 DEF Accepted, Statuses
  <2>3. CASE Started(p)
    BY <1>1, <1>2, <2>3 DEF Started, Ids
  <2>4. CASE PostGivenUp(p) \/ PollFails(p)
    BY <1>1, <1>2, <2>4 DEF PostGivenUp, PollFails
  <2>5. CASE Reload(p)
    BY <1>1, <1>2, <2>5 DEF Reload
  <2>6. CASE JobRead(p)
    <3>1. Record(link[p]) # Nothing =>
            /\ Record(link[p]) \in [id : Ids, status : Statuses]
            /\ Record(link[p]).id = link[p]
            /\ Record(link[p]).status = status[link[p]]
      <4>1. Known \subseteq Ids
        BY LenProperties, ElementOfSeq DEF JobsInv, Known, ToSet
      <4>2. QED
        BY <4>1 DEF JobsInv, Record
    <3>2. UNCHANGED jobsVars
      BY <2>6 DEF JobRead
    <3>3. QED
      BY <1>2, <2>6, <3>1, <3>2 DEF JobRead, jobsVars, records
  <2>7. CASE Rendered(p)
    BY <1>1, <1>2, <2>7 DEF Rendered
  <2>8. QED
    BY <1>4, <2>1, <2>2, <2>3, <2>4, <2>5, <2>6, <2>7 DEF PageNext
<1>5. QED
  BY <1>3, <1>4 DEF Next, LateArrives, vars, pageVars

\* Whatever answers are late, lost or stale, a page shows the job its URL names,
\* and an end it shows is that job's own (app.js:258-287).
THEOREM ShowsAlwaysTheLinkedJob == Spec => []ShowsTheLinkedJob
<1>1. Init => PageInv
  BY JobsAssumption DEF Init, PageInv, ShowsTheLinkedJob
<1>2. PageInv => ShowsTheLinkedJob
  BY DEF PageInv
<1>3. QED
  BY <1>1, <1>2, ApiInvariant, PageStep, PTL DEF Spec
-----------------------------------------------------------------------------
(* The dictionary, the records and the clocks.                              *)

LEMMA Bounds == /\ MaxJobs \in Nat \ {0} /\ OuterLimit \in Nat \ {0}
                /\ InnerLimit \in Nat \ {0} /\ MaxPosts \in Nat
BY JobsAssumption

\* The dictionary holds the last jobs posted, oldest first, and no more than
\* MaxJobs; so a new job evicts the oldest one.
KeepsTheNewest ==
    /\ Len(jobs) <= MaxJobs /\ Len(jobs) <= posts
    /\ \A i \in 1..Len(jobs) : jobs[i] = posts - Len(jobs) + i

RecordInv ==
    /\ verdict \in [Ids -> {"none", "assessed", "incomplete"}]
    /\ error \in [Ids -> {"none", "unavailable", "time", "other"}]
    /\ outer \in [Ids -> 0..OuterLimit] /\ inner \in [Ids -> 0..InnerLimit]

LEMMA NewestStep ==
  ASSUME JobsInv, KeepsTheNewest, [JobsNext]_jobsVars
  PROVE  KeepsTheNewest'
<1>1. /\ jobs \in Seq(Ids) /\ Len(jobs) \in Nat /\ posts \in Nat
      /\ DOMAIN jobs = 1..Len(jobs)
  BY LenProperties, Bounds DEF JobsInv
<1>2. CASE UNCHANGED <<jobs, posts>>
  BY <1>2 DEF KeepsTheNewest
<1>3. CASE Restart
  <2>1. Len(jobs') = 0 /\ posts' = posts
    BY <1>3 DEF Restart
  <2>2. QED
    BY <1>1, <2>1, Bounds DEF KeepsTheNewest
<1>4. CASE Investigate
  <2> DEFINE kept == Evicted
  <2>1. jobs' = Append(kept, posts + 1) /\ posts' = posts + 1 /\ posts + 1 \in Ids
    BY <1>1, <1>4, Bounds DEF Investigate, Ids
  <2>2. /\ kept \in Seq(Ids) /\ Len(kept) \in Nat
        /\ Len(kept) < MaxJobs /\ Len(kept) <= posts
        /\ \A i \in 1..Len(kept) : kept[i] = posts - Len(kept) + i
    <3>1. CASE Len(jobs) >= MaxJobs
      <4>1. jobs # <<>>
        BY <1>1, <3>1, Bounds, EmptySeq
      <4>2. /\ kept = Tail(jobs) /\ Tail(jobs) \in Seq(Ids) /\ Len(Tail(jobs)) = Len(jobs) - 1
            /\ \A i \in 1..Len(Tail(jobs)) : Tail(jobs)[i] = jobs[i + 1]
        BY <1>1, <3>1, <4>1, HeadTailProperties DEF Evicted
      <4> HIDE DEF kept
      <4>3. /\ Len(kept) = Len(jobs) - 1 /\ Len(jobs) > 0 /\ Len(jobs) <= MaxJobs
            /\ Len(jobs) <= posts
        BY <1>1, <3>1, <4>2, Bounds DEF KeepsTheNewest
      <4>4. Len(kept) \in Nat /\ Len(kept) < MaxJobs /\ Len(kept) <= posts
        BY <1>1, <4>3, Bounds
      <4>5. ASSUME NEW i \in 1..Len(kept) PROVE kept[i] = posts - Len(kept) + i
        <5>1. i + 1 \in 1..Len(jobs) /\ kept[i] = jobs[i + 1]
          BY <1>1, <4>2, <4>3
        <5>2. jobs[i + 1] = posts - Len(jobs) + (i + 1)
          BY <5>1 DEF KeepsTheNewest
        <5>3. QED
          BY <1>1, <4>3, <5>1, <5>2
      <4>6. QED
        BY <4>2, <4>4, <4>5
    <3>2. CASE ~(Len(jobs) >= MaxJobs)
      BY <1>1, <3>2, Bounds DEF Evicted, KeepsTheNewest
    <3>3. QED
      BY <3>1, <3>2
  <2> HIDE DEF kept
  <2>3. /\ Len(jobs') = Len(kept) + 1 /\ jobs'[Len(kept) + 1] = posts + 1
        /\ \A i \in 1..Len(kept) : jobs'[i] = kept[i]
    BY <2>1, <2>2, AppendProperties
  <2>4. Len(jobs') <= MaxJobs /\ Len(jobs') <= posts'
    BY <1>1, <2>1, <2>2, <2>3, Bounds
  <2>5. ASSUME NEW i \in 1..Len(jobs') PROVE jobs'[i] = posts' - Len(jobs') + i
    <3>1. i \in 1..Len(kept) \/ i = Len(kept) + 1
      BY <2>2, <2>3
    <3>2. QED
      BY <1>1, <2>1, <2>2, <2>3, <3>1
  <2>6. QED
    BY <2>4, <2>5 DEF KeepsTheNewest
<1>5. QED
  BY <1>2, <1>3, <1>4
  DEF JobsNext, Task, Timed, RunBegins, ModelReady, ModelMissing, Finish, Breaks, InnerExpires,
      OuterExpires, Tick, Conclude, records, jobsVars

LEMMA RecordStep ==
  ASSUME RecordInv, [JobsNext]_jobsVars
  PROVE  RecordInv'
<1>1. ASSUME NEW id \in Ids, NEW s, NEW v \in {"none", "assessed", "incomplete"},
             NEW e \in {"none", "unavailable", "time", "other"}, Conclude(id, s, v, e)
      PROVE  RecordInv'
  <2>1. /\ verdict' = [verdict EXCEPT ![id] = v] /\ error' = [error EXCEPT ![id] = e]
        /\ outer' = [outer EXCEPT ![id] = 0] /\ inner' = [inner EXCEPT ![id] = 0]
    BY <1>1 DEF Conclude
  <2>2. 0 \in 0..OuterLimit /\ 0 \in 0..InnerLimit
    BY Bounds
  <2>3. QED
    BY <2>1, <2>2 DEF RecordInv
<1>2. ASSUME NEW id \in Ids, Tick(id) PROVE RecordInv'
  <2>1. /\ outer' = [outer EXCEPT ![id] = @ + 1] /\ outer[id] < OuterLimit
        /\ inner' = [inner EXCEPT ![id] = IF pc[id] = "agent" THEN @ + 1 ELSE @]
        /\ pc[id] = "agent" => inner[id] < InnerLimit
        /\ UNCHANGED <<verdict, error>>
    BY <1>2 DEF Tick, records
  <2>2. outer[id] \in 0..OuterLimit /\ inner[id] \in 0..InnerLimit
    BY DEF RecordInv
  <2>3. /\ outer[id] + 1 \in 0..OuterLimit
        /\ pc[id] = "agent" => inner[id] + 1 \in 0..InnerLimit
    BY <2>1, <2>2, Bounds
  <2>4. QED
    BY <2>1, <2>2, <2>3 DEF RecordInv
<1>3. ASSUME NEW id \in Ids, Task(id) PROVE RecordInv'
  <2>1. CASE RunBegins(id) \/ ModelReady(id)
    BY <2>1 DEF RunBegins, ModelReady, records, clocks, RecordInv
  <2>2. CASE ModelMissing(id) \/ Finish(id) \/ Breaks(id) \/ InnerExpires(id) \/ OuterExpires(id)
    BY <1>1, <2>2 DEF ModelMissing, Finish, Breaks, InnerExpires, OuterExpires
  <2>3. QED
    BY <1>2, <1>3, <2>1, <2>2 DEF Task, Timed
<1>4. CASE Restart
  <2>1. /\ outer' = [id \in Ids |-> 0] /\ inner' = [id \in Ids |-> 0]
        /\ UNCHANGED <<verdict, error>>
    BY <1>4 DEF Restart
  <2>2. QED
    BY <2>1, Bounds DEF RecordInv
<1>5. CASE Investigate \/ UNCHANGED jobsVars
  BY <1>5 DEF Investigate, jobsVars, records, clocks, RecordInv
<1>6. QED
  BY <1>3, <1>4, <1>5 DEF JobsNext

\* The dictionary keeps the newest jobs: an investigation is forgotten only when
\* MaxJobs later ones were posted, or with the process (api.py:80-82).
THEOREM NewestAlwaysKept == Spec => []KeepsTheNewest
<1>1. Init => KeepsTheNewest
  <2>1. Init => Len(jobs) = 0 /\ posts = 0
    BY DEF Init, JobsInit
  <2>2. QED
    BY <2>1, Bounds DEF KeepsTheNewest
<1>2. JobsInv /\ KeepsTheNewest /\ [Next]_vars => KeepsTheNewest'
  BY ApiStep, NewestStep
<1>3. QED
  BY <1>1, <1>2, ApiInvariant, PTL DEF Spec
-----------------------------------------------------------------------------
(* The calls of the pages: each one posted, or still to be, has its job id. *)

Posting == {p \in Pages : page[p] = "posting"}

CallInv ==
    /\ late \in Nat /\ IsFiniteSet(Posting)
    /\ posts + late + Cardinality(Posting) <= MaxPosts

LEMMA CallStep ==
  ASSUME JobsInv, PageInv, CallInv, [Next]_vars
  PROVE  CallInv'
<1>1. /\ posts \in Nat /\ late \in Nat /\ MaxPosts \in Nat /\ IsFiniteSet(Posting)
      /\ Cardinality(Posting) \in Nat /\ posts + late + Cardinality(Posting) <= MaxPosts
  BY Bounds, FS_CardinalityType DEF CallInv, JobsInv
<1>2. ASSUME NEW p \in Pages, page[p] = "posting", page'[p] # "posting",
             \A q \in Pages : q # p => page'[q] = page[q]
      PROVE  IsFiniteSet(Posting') /\ Cardinality(Posting') = Cardinality(Posting) - 1
  <2>1. Posting' = Posting \ {p} /\ p \in Posting
    BY <1>2 DEF Posting
  <2>2. QED
    BY <1>1, <2>1, FS_RemoveElement
<1>3. ASSUME NEW p \in Pages, page[p] # "posting", page'[p] # "posting",
             \A q \in Pages : q # p => page'[q] = page[q], UNCHANGED <<posts, late>>
      PROVE  CallInv'
  <2>1. Posting' = Posting
    BY <1>3 DEF Posting
  <2>2. QED
    BY <1>3, <2>1 DEF CallInv
<1>4. ASSUME NEW p \in Pages, Submit(p) PROVE CallInv'
  <2>1. /\ page[p] = "ready" /\ page'[p] = "posting" /\ UNCHANGED <<posts, late>>
        /\ \A q \in Pages : q # p => page'[q] = page[q]
        /\ posts + late + Cardinality(Posting) < MaxPosts
    BY <1>4 DEF Submit, MaySubmit, PageInv, jobsVars, records, Posting
  <2>2. Posting' = Posting \cup {p} /\ p \notin Posting
    BY <2>1 DEF Posting
  <2>3. IsFiniteSet(Posting') /\ Cardinality(Posting') = Cardinality(Posting) + 1
    BY <1>1, <2>2, FS_AddElement
  <2>4. QED
    BY <1>1, <2>1, <2>3 DEF CallInv
<1>5. ASSUME NEW p \in Pages, Accepted(p) \/ Refused(p) PROVE CallInv'
  <2>1. /\ page[p] = "posting" /\ page'[p] # "posting" /\ late' = late
        /\ posts' \in {posts, posts + 1} /\ \A q \in Pages : q # p => page'[q] = page[q]
    BY <1>5 DEF Accepted, Refused, Investigate, PageInv, jobsVars, records
  <2>2. QED
    BY <1>1, <1>2, <2>1 DEF CallInv
<1>6. ASSUME NEW p \in Pages, PostGivenUp(p) \/ Reload(p) PROVE CallInv'
  <2>1. /\ page'[p] \in {"ready", "asking"} /\ posts' = posts
        /\ \A q \in Pages : q # p => page'[q] = page[q]
        /\ \/ page[p] = "posting" /\ late' \in {late, late + 1}
           \/ page[p] # "posting" /\ late' = late
    BY <1>6 DEF PostGivenUp, Reload, PageInv, jobsVars, records
  <2>2. QED
    BY <1>1, <1>2, <1>3, <2>1 DEF CallInv
<1>7. ASSUME NEW p \in Pages, Started(p) \/ Poll(p) \/ JobRead(p) \/ Rendered(p) \/ PollFails(p)
      PROVE  CallInv'
  BY <1>3, <1>7 DEF Started, Poll, JobRead, Rendered, PollFails, PageInv, jobsVars, records
<1>8. CASE LateArrives
  <2>1. late' = late - 1 /\ late > 0 /\ posts' \in {posts, posts + 1} /\ page' = page
    BY <1>8 DEF LateArrives, Investigate, jobsVars, records
  <2>2. QED
    BY <1>1, <2>1 DEF CallInv, Posting
<1>9. CASE \/ (Restart \/ \E id \in Ids : Task(id)) /\ UNCHANGED pageVars
           \/ UNCHANGED vars
  <2>1. UNCHANGED <<posts, page, late>>
    BY <1>9 DEF vars, jobsVars, records, pageVars, Restart, Task, Timed, RunBegins, ModelReady,
                ModelMissing, Finish, Breaks, InnerExpires, OuterExpires, Tick, Conclude
  <2>2. QED
    BY <2>1 DEF CallInv, Posting
<1>10. QED
  BY <1>4, <1>5, <1>6, <1>7, <1>8, <1>9 DEF Next, PageNext

\* Every variable of the API and of its pages stays in its range; the dictionary
\* has no id twice and never more than MaxJobs (api.py:80, app.js:258-300).
THEOREM TypeCorrect == Spec => []TypeOK
<1>1. Init => RecordInv /\ PageInv /\ CallInv
  <2> SUFFICES ASSUME Init PROVE RecordInv /\ PageInv /\ CallInv
    OBVIOUS
  <2>1. Posting = {} /\ late = 0 /\ posts = 0
    BY DEF Init, JobsInit, Posting
  <2>2. CallInv
    BY <2>1, Bounds, FS_EmptySet DEF CallInv
  <2>3. RecordInv
    BY Bounds DEF Init, JobsInit, RecordInv
  <2>4. PageInv
    BY Bounds DEF Init, PageInv, ShowsTheLinkedJob
  <2>5. QED
    BY <2>2, <2>3, <2>4
<1>2. RecordInv /\ [Next]_vars => RecordInv'
  BY ApiStep, RecordStep
<1>3. JobsInv /\ PageInv /\ CallInv /\ [Next]_vars => CallInv'
  BY CallStep
<1>4. JobsInv /\ KeepsTheNewest /\ RecordInv /\ PageInv /\ CallInv => TypeOK
  <2> SUFFICES ASSUME JobsInv, KeepsTheNewest, RecordInv, PageInv, CallInv PROVE TypeOK
    OBVIOUS
  <2>1. /\ jobs \in Seq(Ids) /\ DOMAIN jobs = 1..Len(jobs) /\ Len(jobs) \in Nat /\ posts \in Nat
    BY LenProperties, Bounds DEF JobsInv
  <2>2. IsInjective(jobs)
    BY <2>1 DEF KeepsTheNewest, IsInjective
  <2>3. JobsTypeOK
    BY <2>1, <2>2 DEF JobsTypeOK, JobsInv, KeepsTheNewest, RecordInv, TaskStates
  <2>4. late \in 0..MaxPosts
    BY <2>1, Bounds, FS_CardinalityType DEF CallInv
  <2>5. {reply[p] : p \in Pages} \cup {view[p] : p \in Pages}
          \subseteq {Nothing} \cup [id : Ids, status : Statuses]
    BY DEF PageInv
  <2>6. QED
    BY <2>3, <2>4, <2>5 DEF TypeOK, PageInv
<1>5. QED
  BY <1>1, <1>2, <1>3, <1>4, ApiInvariant, NewestAlwaysKept, PageStep, PTL DEF Spec
-----------------------------------------------------------------------------
(* The API implements module OneInvestigation.                             *)

\* A job that was posted has a task, and nothing is said of one that has not
\* come to an end.
PromiseInv ==
    /\ RecordInv
    /\ \A id \in Ids : id <= posts => pc[id] # "none"
    /\ \A id \in Ids : status[id] = "running" => verdict[id] = "none" /\ error[id] = "none"

LEMMA PromiseInvStep ==
  ASSUME JobsInv, PromiseInv, [JobsNext]_jobsVars
  PROVE  PromiseInv'
<1> USE DEF PromiseInv
<1>1. /\ posts \in Nat /\ pc \in [Ids -> TaskStates] /\ Ids = 1..MaxPosts
      /\ RecordInv'
  BY Bounds, RecordStep DEF JobsInv, Ids
<1>2. CASE Investigate
  <2>1. /\ posts' = posts + 1 /\ pc' = [pc EXCEPT ![posts + 1] = "created"]
        /\ UNCHANGED <<status, verdict, error>>
    BY <1>2 DEF Investigate
  <2>2. \A id \in Ids : id <= posts + 1 => id <= posts \/ id = posts + 1
    BY <1>1
  <2> QED
    BY <1>1, <2>1, <2>2
<1>3. CASE Restart
  BY <1>1, <1>3 DEF Restart
<1>4. ASSUME NEW id \in Ids, NEW s \in Statuses \ {"running"}, NEW v, NEW e,
             Conclude(id, s, v, e)
      PROVE  PromiseInv'
  <2>1. /\ status' = [status EXCEPT ![id] = s] /\ pc' = [pc EXCEPT ![id] = "ended"]
        /\ verdict' = [verdict EXCEPT ![id] = v] /\ error' = [error EXCEPT ![id] = e]
        /\ posts' = posts
    BY <1>4 DEF Conclude
  <2>2. /\ \A i \in Ids \ {id} : status'[i] = status[i] /\ pc'[i] = pc[i]
        /\ \A i \in Ids \ {id} : verdict'[i] = verdict[i] /\ error'[i] = error[i]
        /\ pc'[id] = "ended" /\ status'[id] # "running"
    BY <1>1, <2>1 DEF JobsInv, RecordInv
  <2> QED
    BY <1>1, <2>1, <2>2
<1>5. ASSUME NEW id \in Ids, NEW next \in {"created", "status", "agent"},
             UNCHANGED records, pc' = [pc EXCEPT ![id] = next]
      PROVE  PromiseInv'
  BY <1>1, <1>5 DEF records
<1>6. ASSUME NEW id \in Ids, Task(id) PROVE PromiseInv'
  <2>1. CASE RunBegins(id) \/ ModelReady(id)
    BY <1>5, <2>1 DEF RunBegins, ModelReady
  <2>2. CASE Tick(id)
    BY <1>1, <2>2 DEF Tick, records
  <2>3. CASE ModelMissing(id) \/ Finish(id) \/ Breaks(id) \/ InnerExpires(id) \/ OuterExpires(id)
    BY <1>4, <2>3 DEF ModelMissing, Finish, Breaks, InnerExpires, OuterExpires, Statuses
  <2> QED
    BY <1>6, <2>1, <2>2, <2>3 DEF Task, Timed
<1>7. CASE UNCHANGED jobsVars
  BY <1>1, <1>7 DEF jobsVars, records
<1> QED
  BY <1>2, <1>3, <1>6, <1>7 DEF JobsNext

(* What the promise says of each job.                                      *)
LEMMA OutcomeOf ==
  ASSUME JobsInv, PromiseInv, NEW id \in Ids
  PROVE  /\ Outcome(id) = Promise!Fresh <=> id > posts
         /\ Outcome(id) = Promise!Running <=> Live(id)
<1>1. posts \in Nat /\ id \in Nat
  BY Bounds DEF JobsInv, Ids
<1>2. status[id] \in Statuses /\ pc[id] \in TaskStates /\ (Live(id) => status[id] = "running")
  BY DEF JobsInv, RunningMeansTask
<1>3. CASE id > posts
  <2>1. pc[id] = "none" /\ status[id] = "running" /\ verdict[id] = "none" /\ error[id] = "none"
    BY <1>3 DEF JobsInv, PromiseInv
  <2>2. Outcome(id) = Promise!Fresh /\ ~Live(id) /\ Outcome(id).status = "none"
    BY <2>1 DEF Outcome, Live, Promise!Fresh, Promise!Entry
  <2>3. Outcome(id) # Promise!Running
    BY <2>2 DEF Promise!Running, Promise!Entry
  <2> QED
    BY <1>3, <2>2, <2>3
<1>4. CASE ~(id > posts)
  <2>1. pc[id] # "none"
    <3>1. id <= posts
      BY <1>1, <1>4
    <3> QED
      BY <3>1 DEF PromiseInv
  <2>2. Outcome(id).status # "none"
    BY <1>2, <2>1 DEF Outcome, Statuses
  <2>3. Outcome(id) # Promise!Fresh
    BY <2>2 DEF Promise!Fresh, Promise!Entry
  <2>4. CASE Live(id)
    <3>1. Outcome(id) = Promise!Running
      BY <1>2, <2>1, <2>4 DEF Outcome, PromiseInv, Promise!Running, Promise!Entry
    <3> QED
      BY <1>4, <2>3, <2>4, <3>1
  <2>5. CASE ~Live(id)
    <3>1. Outcome(id).status # "running"
      BY <1>2, <2>1, <2>5 DEF Outcome, Statuses
    <3>2. Outcome(id) # Promise!Running
      BY <3>1 DEF Promise!Running, Promise!Entry
    <3> QED
      BY <1>4, <2>3, <2>5, <3>2
  <2> QED
    BY <2>4, <2>5
<1> QED
  BY <1>3, <1>4

Outcomes == [id \in Ids |-> Outcome(id)]

\* One job's outcome changes.
LEMMA OnlyOne ==
  ASSUME NEW id \in Ids, \A i \in Ids \ {id} : Outcome(i)' = Outcome(i)
  PROVE  Outcomes' = [Outcomes EXCEPT ![id] = Outcome(id)']
<1>1. Ids' = Ids
  BY DEF Ids
<1> QED
  BY <1>1 DEF Outcomes

LEMMA AcceptImplements ==
  ASSUME JobsInv, PromiseInv, Investigate
  PROVE  Promise!Next
<1>0. PICK new \in Ids : new = posts + 1
  BY Bounds DEF Investigate, JobsInv, Ids
<1>1. /\ new = posts + 1 /\ posts \in Nat /\ Ids \subseteq Nat /\ Promise!Ids = Ids
      /\ pc' = [pc EXCEPT ![new] = "created"] /\ UNCHANGED <<status, verdict, error>>
  BY <1>0, Bounds DEF Investigate, JobsInv, Ids, Promise!Ids
<1>2. \A id \in Ids : ~Live(id)
  BY DEF Investigate, Busy, JobsInv, RunningMeansTask
<1>3. \A id \in Ids : Outcomes[id] # Promise!Running /\ (Outcomes[id] = Promise!Fresh <=> id >= new)
  <2>1. \A id \in Ids : id > posts <=> id >= new
    BY <1>1
  <2> QED
    BY <1>2, <2>1, OutcomeOf DEF Outcomes
<1>4. Outcome(new)' = Promise!Running
  <2>1. new > posts
    BY <1>1
  <2>2. status[new] = "running" /\ verdict[new] = "none" /\ error[new] = "none"
    BY <1>1, <2>1 DEF JobsInv, PromiseInv
  <2>3. pc'[new] = "created"
    BY <1>1 DEF JobsInv
  <2> QED
    BY <1>1, <2>2, <2>3 DEF Outcome, Live, Promise!Running, Promise!Entry
<1>5. \A i \in Ids \ {new} : Outcome(i)' = Outcome(i)
  BY <1>1 DEF Outcome, Live, JobsInv
<1>6. Outcomes' = [Outcomes EXCEPT ![new] = Promise!Running]
  BY <1>1, <1>4, <1>5, OnlyOne
<1>7. Promise!Accept(new)
  BY <1>1, <1>3, <1>6 DEF Promise!Accept, Outcomes
<1> QED
  BY <1>1, <1>7 DEF Promise!Next

LEMMA EndImplements ==
  ASSUME JobsInv, PromiseInv, NEW id \in Ids, Live(id),
         Outcome(id)' \in Promise!Ends \cup {Promise!Lost},
         \A i \in Ids \ {id} : Outcome(i)' = Outcome(i)
  PROVE  Promise!Next
<1>1. Outcomes[id] = Promise!Running
  BY OutcomeOf DEF Outcomes
<1>2. Outcomes' = [Outcomes EXCEPT ![id] = Outcome(id)']
  BY OnlyOne
<1>3. Promise!End(id)
  BY <1>1, <1>2 DEF Promise!End, Outcomes
<1> QED
  BY <1>3 DEF Promise!Next, Ids, Promise!Ids

LEMMA ConcludeImplements ==
  ASSUME JobsInv, PromiseInv, NEW id \in Ids, Live(id),
         NEW s \in Statuses \ {"running"}, NEW v, NEW e,
         Promise!Entry(s, v, e) \in Promise!Ends, Conclude(id, s, v, e)
  PROVE  Promise!Next
<1>1. /\ status' = [status EXCEPT ![id] = s] /\ pc' = [pc EXCEPT ![id] = "ended"]
      /\ verdict' = [verdict EXCEPT ![id] = v] /\ error' = [error EXCEPT ![id] = e]
  BY DEF Conclude
<1>2. status \in [Ids -> Statuses] /\ pc \in [Ids -> TaskStates]
  BY DEF JobsInv
<1>3. \A i \in Ids \ {id} : Outcome(i)' = Outcome(i)
  BY <1>1, <1>2 DEF Outcome, Live
<1>4. Outcome(id)' = Promise!Entry(s, v, e)
  <2>1. /\ status'[id] = s /\ s # "running" /\ pc'[id] = "ended"
        /\ verdict'[id] = v /\ error'[id] = e
    BY <1>1, <1>2 DEF PromiseInv, RecordInv
  <2> QED
    BY <2>1 DEF Outcome, Promise!Entry
<1> QED
  BY <1>3, <1>4, EndImplements

LEMMA RestartImplements ==
  ASSUME JobsInv, PromiseInv, Restart
  PROVE  Promise!Next \/ UNCHANGED Outcomes
<1>1. /\ pc' = [id \in Ids |-> IF Live(id) THEN "ended" ELSE pc[id]]
      /\ UNCHANGED <<status, verdict, error>>
  BY DEF Restart
<1>2. \A id \in Ids : ~Live(id) => Outcome(id)' = Outcome(id)
  BY <1>1 DEF Outcome, Live
<1>3. CASE \A id \in Ids : ~Live(id)
  BY <1>2, <1>3 DEF Outcomes, Ids
<1>4. ASSUME NEW id \in Ids, Live(id) PROVE Promise!Next
  <2>1. \A i \in Ids \ {id} : Outcome(i)' = Outcome(i)
    BY <1>2, <1>4 DEF JobsInv, AtMostOneRuns
  <2>2. status[id] = "running" /\ verdict[id] = "none" /\ error[id] = "none"
    BY <1>4 DEF JobsInv, RunningMeansTask, PromiseInv
  <2>3. Outcome(id)' = Promise!Lost
    BY <1>1, <1>4, <2>2 DEF Outcome, Live, Promise!Lost, Promise!Entry
  <2> QED
    BY <1>4, <2>1, <2>3, EndImplements
<1> QED
  BY <1>3, <1>4

LEMMA PromiseStep ==
  ASSUME JobsInv, PromiseInv, [JobsNext]_jobsVars
  PROVE  Promise!Next \/ UNCHANGED Outcomes
<1> USE DEF Promise!Ends, Statuses
<1>1. ASSUME NEW id \in Ids, Task(id) PROVE Promise!Next \/ UNCHANGED Outcomes
  <2>1. CASE RunBegins(id) \/ ModelReady(id) \/ Tick(id)
    <3>1. /\ UNCHANGED <<status, verdict, error>>
          /\ \A i \in Ids : Live(i)' <=> Live(i)
          /\ \A i \in Ids : pc'[i] = "none" <=> pc[i] = "none"
      BY <2>1 DEF RunBegins, ModelReady, Tick, records, Live, JobsInv
    <3>2. \A i \in Ids : Outcome(i)' = Outcome(i)
      BY <3>1 DEF Outcome
    <3> QED
      BY <3>2 DEF Outcomes, Ids
  <2>2. CASE ModelMissing(id)
    BY <2>2, ConcludeImplements DEF ModelMissing, Live
  <2>3. CASE Finish(id)
    <3>1. PICK v \in {"assessed", "incomplete"} : Conclude(id, "complete", v, "none")
      BY <2>3 DEF Finish
    <3> QED
      BY <2>3, <3>1, ConcludeImplements DEF Finish, Live
  <2>4. CASE Breaks(id)
    BY <2>4, ConcludeImplements DEF Breaks, Live
  <2>5. CASE InnerExpires(id)
    BY <2>5, ConcludeImplements DEF InnerExpires, Live
  <2>6. CASE OuterExpires(id)
    BY <2>6, ConcludeImplements DEF OuterExpires, Live
  <2> QED
    BY <1>1, <2>1, <2>2, <2>3, <2>4, <2>5, <2>6 DEF Task, Timed
<1>2. CASE UNCHANGED jobsVars
  BY <1>2 DEF jobsVars, records, Outcomes, Outcome, Live, Ids
<1> QED
  BY <1>1, <1>2, AcceptImplements, RestartImplements DEF JobsNext

\* However many pages post, for any deadlines and any number of jobs: accepted
\* in order, one at a time, each with one final end that says what it is, or lost
\* with the process (api.py:34-82); that it ends is left to the run.
THEOREM OneInvestigationKept == Spec => Promise!Safety
<1>1. Init => Promise!Init /\ PromiseInv
  <2> SUFFICES ASSUME Init PROVE Promise!Init /\ PromiseInv
    OBVIOUS
  <2>1. /\ posts = 0
        /\ \A id \in Ids : status[id] = "running" /\ pc[id] = "none"
        /\ \A id \in Ids : verdict[id] = "none" /\ error[id] = "none"
    BY DEF Init, JobsInit
  <2>4. RecordInv
    BY Bounds DEF Init, JobsInit, RecordInv
  <2>2. \A id \in Ids : Outcome(id) = Promise!Fresh
    BY <2>1 DEF Outcome, Promise!Fresh, Promise!Entry
  <2>3. \A id \in Ids : ~(id <= posts)
    BY <2>1, Bounds DEF Ids
  <2> QED
    BY <2>1, <2>2, <2>3, <2>4 DEF Promise!Init, Promise!Ids, Ids, PromiseInv
<1>2. JobsInv /\ PromiseInv /\ [Next]_vars
        => PromiseInv' /\ [Promise!Next]_Outcomes
  BY ApiStep, PromiseInvStep, PromiseStep
<1>3. JobsInv /\ PromiseInv /\ [Next]_vars
        => PromiseInv' /\ [Promise!Next]_[id \in Ids |-> Outcome(id)]
  BY <1>2 DEF Outcomes
<1> QED
  BY <1>1, <1>3, ApiInvariant, PTL DEF Spec, Promise!Safety
=============================================================================
