-------------------------- MODULE InvestigationPage --------------------------
(***************************************************************************)
(* Browser pages that start and follow investigations (app.js) through two *)
(* proxies, the console's (console.py) and the relay of the MCP server     *)
(* (mcp_server.py), composed with the investigation API.                   *)
(*                                                                         *)
(* The browser gives a call up after 15 seconds or when its page is loaded *)
(* again, the proxies after 12; the API may still handle a call given up,  *)
(* or have handled it already.                                             *)
(***************************************************************************)
EXTENDS Jobs

CONSTANTS Pages

VARIABLES
    page,  \* per page, its call: "ready", "posting", "posted", "asking", "answered"
    reply, \* per page, the answer on its way: [id, status]
    view,  \* per page, state.investigation: [id, status]
    link,  \* per page, the job id in the URL, or 0
    late   \* POSTs given up by their page and not yet seen by the API

pageVars == <<page, reply, view, link, late>>
vars == <<jobsVars, pageVars>>

Nothing == [id |-> 0, status |-> "none"]

Init ==
    /\ JobsInit
    /\ page = [p \in Pages |-> "ready"]
    /\ reply = [p \in Pages |-> Nothing] /\ view = [p \in Pages |-> Nothing]
    /\ link = [p \in Pages |-> 0] /\ late = 0

\* POSTs sent so far never outnumber the job ids.
MaySubmit ==
    posts + late + Cardinality({p \in Pages : page[p] = "posting"}) < MaxPosts

Shows(p) == view[p].status
-----------------------------------------------------------------------------
(* Starting an investigation.                                              *)

Submit(p) ==
    /\ page[p] = "ready" /\ Shows(p) # "running" /\ MaySubmit
    /\ page' = [page EXCEPT ![p] = "posting"]
    /\ UNCHANGED <<jobsVars, reply, view, link, late>>

Accepted(p) ==
    /\ page[p] = "posting" /\ Investigate
    /\ page' = [page EXCEPT ![p] = "posted"]
    /\ reply' = [reply EXCEPT ![p] = [id |-> posts + 1, status |-> "running"]]
    /\ UNCHANGED <<view, link, late>>

\* 409; the page shows the message and keeps what it showed.
Refused(p) ==
    /\ page[p] = "posting" /\ Busy
    /\ page' = [page EXCEPT ![p] = "ready"]
    /\ UNCHANGED <<jobsVars, reply, view, link, late>>

Started(p) ==
    /\ page[p] = "posted"
    /\ page' = [page EXCEPT ![p] = "ready"]
    /\ view' = [view EXCEPT ![p] = reply[p]]
    /\ link' = [link EXCEPT ![p] = reply[p].id]
    /\ reply' = [reply EXCEPT ![p] = Nothing]
    /\ UNCHANGED <<jobsVars, late>>

\* A timeout or a lost connection; the API may see the call later, or never.
PostGivenUp(p) ==
    /\ page[p] \in {"posting", "posted"}
    /\ page' = [page EXCEPT ![p] = "ready"]
    /\ reply' = [reply EXCEPT ![p] = Nothing]
    /\ late' \in IF page[p] = "posting" THEN {late, late + 1} ELSE {late}
    /\ UNCHANGED <<jobsVars, view, link>>

\* Nobody will hear of the job that a late call starts.
LateArrives ==
    /\ late > 0 /\ late' = late - 1
    /\ Investigate \/ (Busy /\ UNCHANGED jobsVars)
    /\ UNCHANGED <<page, reply, view, link>>
-----------------------------------------------------------------------------
(* Following it: pollInvestigation every second, restoreInvestigation when *)
(* the page is loaded.                                                     *)

Poll(p) ==
    /\ page[p] = "ready" /\ Shows(p) = "running"
    /\ page' = [page EXCEPT ![p] = "asking"]
    /\ UNCHANGED <<jobsVars, reply, view, link, late>>

\* The page is loaded again, at any time; a job id in its URL is asked for once.
\* A call under way is dropped with its answer; the API may see a POST later.
Reload(p) ==
    /\ view' = [view EXCEPT ![p] = Nothing]
    /\ page' = [page EXCEPT ![p] = IF link[p] = 0 THEN "ready" ELSE "asking"]
    /\ reply' = [reply EXCEPT ![p] = Nothing]
    /\ late' \in IF page[p] = "posting" THEN {late, late + 1} ELSE {late}
    /\ UNCHANGED <<jobsVars, link>>

Record(id) == IF id \in Known THEN [id |-> id, status |-> status[id]] ELSE Nothing

\* Mutant: the API answers with its newest job.
MutantJobRead(p) ==
    /\ page[p] = "asking" /\ jobs # <<>>
    /\ page' = [page EXCEPT ![p] = "answered"]
    /\ reply' = [reply EXCEPT ![p] = [id |-> link[p], status |-> status[Last(jobs)]]]
    /\ UNCHANGED <<jobsVars, view, link, late>>

\* GET /api/investigations/{id}: the record, or 404.
JobRead(p) ==
    /\ page[p] = "asking"
    /\ page' = [page EXCEPT ![p] = "answered"]
    /\ reply' = [reply EXCEPT ![p] = Record(link[p])]
    /\ UNCHANGED <<jobsVars, view, link, late>>

\* A 404 is an error to the page, which keeps showing what it showed.
Rendered(p) ==
    /\ page[p] = "answered"
    /\ page' = [page EXCEPT ![p] = "ready"]
    /\ view' = [view EXCEPT ![p] = IF reply[p] = Nothing THEN @ ELSE reply[p]]
    /\ reply' = [reply EXCEPT ![p] = Nothing]
    /\ UNCHANGED <<jobsVars, link, late>>

\* Mutant: a failed poll does not reset jobPolling.
MutantPollFails(p) ==
    /\ page[p] \in {"asking", "answered"}
    /\ page' = [page EXCEPT ![p] = "hung"]
    /\ reply' = [reply EXCEPT ![p] = Nothing]
    /\ UNCHANGED <<jobsVars, view, link, late>>

PollFails(p) ==
    /\ page[p] \in {"asking", "answered"}
    /\ page' = [page EXCEPT ![p] = "ready"]
    /\ reply' = [reply EXCEPT ![p] = Nothing]
    /\ UNCHANGED <<jobsVars, view, link, late>>

PageNext(p) ==
    \/ Submit(p) \/ Accepted(p) \/ Refused(p) \/ Started(p) \/ PostGivenUp(p)
    \/ Poll(p) \/ Reload(p) \/ JobRead(p) \/ Rendered(p) \/ PollFails(p)

Next ==
    \/ \E p \in Pages : PageNext(p)
    \/ LateArrives
    \/ (Restart \/ \E id \in Ids : Task(id)) /\ UNCHANGED pageVars

\* The page polls, every call ends, and not every answer is lost.
Fairness ==
    /\ \A id \in Ids : WF_vars(Timed(id) /\ UNCHANGED pageVars)
    /\ \A p \in Pages :
        /\ WF_vars(Poll(p)) /\ WF_vars(PostGivenUp(p)) /\ WF_vars(PollFails(p))
        /\ SF_vars(JobRead(p)) /\ SF_vars(Rendered(p))

Spec == Init /\ [][Next]_vars /\ Fairness
-----------------------------------------------------------------------------
\* Every variable stays in its range.
TypeOK ==
    /\ JobsTypeOK
    /\ page \in [Pages -> {"ready", "posting", "posted", "asking", "answered"}]
    /\ {reply[p] : p \in Pages} \cup {view[p] : p \in Pages}
          \subseteq {Nothing} \cup [id : Ids, status : Statuses]
    /\ link \in [Pages -> 0..MaxPosts] /\ late \in 0..MaxPosts

\* The page shows the job its URL names, so that a reload shows the same one;
\* and an end it shows is that job's own, however stale the answer.
ShowsTheLinkedJob ==
    \A p \in Pages : view[p] # Nothing =>
        /\ view[p].id = link[p]
        /\ Shows(p) # "running" => Shows(p) = status[link[p]]

\* A page that shows a running investigation comes to show its end, unless the
\* job is lost with its process or by eviction first; it does so although polls
\* fail, and although other pages start investigations.
PageSeesTheEnd ==
    \A p \in Pages : (Shows(p) = "running") ~>
                        (Shows(p) # "running" \/ link[p] \notin Known)

\* "An investigator restart also loses in-memory jobs.  Use a new investigation"
\* (troubleshooting.md:19): a page that follows a job the API no longer knows
\* comes to offer a new investigation, which app.js:291 refuses while it shows
\* one running.
LostJobAllowsNewInvestigation ==
    \A p \in Pages : (Shows(p) = "running" /\ link[p] \notin Known) ~> (Shows(p) # "running")

=============================================================================
