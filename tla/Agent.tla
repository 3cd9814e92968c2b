------------------------------- MODULE Agent -------------------------------
(***************************************************************************)
(* One bounded investigation: Investigator.run and _loop of agent.py, the  *)
(* local assessment checks they apply, and the part of the MCP server that *)
(* stores a snapshot before it answers (mcp_server.py, EvidenceStore).     *)
(*                                                                         *)
(* The language model is the environment: at each turn it answers with any *)
(* number of function calls, with plain content, or not at all.  A         *)
(* snapshot's evidence_id is the hash of its content, so a snapshot is its *)
(* own identifier; Forged holds identifiers the model makes up.            *)
(*                                                                         *)
(* pc names the await (or the synchronous section) the coroutine is in:    *)
(* "status", "session", "tools", "chat", "tool" and "closing" (the MCP     *)
(* session, once the loop has decided) are awaits, where a timer or a      *)
(* cancellation can strike; "turn", "calls" and "content" are not.  The    *)
(* run ends "done" (a diagnosis was returned), "unavailable"               *)
(* (ModelUnavailable), "group" (an exception group), "cancelled" or        *)
(* "invalid" (the controller's own diagnosis failed its schema).           *)
(***************************************************************************)
EXTENDS Naturals, FiniteSets

CONSTANTS
    Snapshots,      \* the results the telemetry tools can return
    Forged,         \* evidence identifiers no tool ever returned
    MaxTurns,       \* MAX_TURNS
    MaxToolCalls,   \* MAX_TOOL_CALLS
    MaxCitations    \* max_length of Diagnosis.evidence

ASSUME BudgetAssumption ==
    /\ MaxTurns \in Nat \ {0}
    /\ MaxToolCalls \in Nat \ {0}
    /\ MaxCitations \in Nat
    /\ MaxToolCalls <= MaxCitations

ASSUME ForgedAssumption == Forged \cap Snapshots = {}

Services == {"orders-service", "inventory-service"}

\* The tools whose results the assessment checks look at; get_service_map
\* is permitted too, and no check reads what it returns.
AllowedTools == {"get_service_health", "get_service_map", "query_metrics",
                 "search_logs", "get_trace"}

Assessments == {"incident", "healthy", "incomplete"}

Ids == Snapshots \cup Forged

\* What the checks see of a Diagnosis: the identifiers it cites and those its
\* prose mentions.
Diagnoses ==
    [assessment : Assessments,
     cites      : {c \in SUBSET Ids : Cardinality(c) <= MaxCitations},
     mentions   : SUBSET Forged]

Outcomes ==
    [assessment : Assessments, cites : SUBSET Ids, mentions : SUBSET Forged,
     by : {"model", "controller"}]

NoOutcome == [by |-> "nobody"]
NoRequest == [tool |-> "none", saved |-> {}]

VARIABLES
    pc,         \* where the coroutine is, or how it ended
    turn,       \* model turns completed
    callCount,  \* function calls made, submissions included
    left,       \* calls of the current message not yet handled
    synthesis,  \* synthesis_only: the turn is reserved for the assessment
    evidence,   \* snapshots retrieved in this run
    store,      \* snapshots the evidence store holds
    request,    \* the tool call in flight, and what the server saved for it
    outcome     \* the diagnosis the loop has decided on, or the run returned

vars == <<pc, turn, callCount, left, synthesis, evidence, store, request, outcome>>

budget == <<turn, callCount, left, synthesis>>
-----------------------------------------------------------------------------
(* assessment_errors: which diagnoses the controller accepts.              *)

\* The cited records that summarise requests of service s.
Carriers(cites, s) ==
    {r \in cites : /\ r.available
                   /\ r.tool \in {"query_metrics", "get_service_health"}
                   /\ r.samples[s] # "absent"}

\* `summaries` is filled by iterating a set, a later record replacing an
\* earlier one: the summary kept for a service is that of the last carrier in
\* an order Python does not fix.  Two records that both cover both services
\* cannot each be the last one for a different service.
LastWins(cites) ==
    {last \in [Services -> cites] :
        /\ \A s \in Services : last[s] \in Carriers(cites, s)
        /\ \A s, t \in Services :
              last[s] = last[t] \/ last[s] \notin Carriers(cites, t)
                                \/ last[t] \notin Carriers(cites, s)}

\* Mutant: a service without samples is taken as one without errors.
MutantSampled(last) == TRUE

Sampled(last) == \A s \in Services : last[s].samples[s] \in {"clean", "errors"}

\* Mutant: any error log and any linked trace, of different requests.
MutantCorrelated(cites) ==
    \E log, trace \in cites :
        /\ log.available /\ log.failed # {}
        /\ trace.available /\ trace.linked # {}

\* Some cited trace ties a failed order of a cited error log to its downstream span.
Correlated(cites) ==
    \E log, trace \in cites :
        /\ log.available /\ log.tool = "search_logs"
        /\ trace.available /\ trace.tool = "get_trace"
        /\ log.failed \cap trace.linked # {}

\* The checks a complete assessment passes, for one order of the summaries.
Supported(d, last) ==
    /\ Sampled(last)
    /\ d.assessment = "healthy" =>
          \A s \in Services : last[s].samples[s] # "errors"
    /\ d.assessment = "incident" =>
          /\ last["orders-service"].samples["orders-service"] = "errors"
          /\ Correlated(d.cites)

\* Mutant: identifiers in the prose are not looked at.
MutantNoErrors(d) ==
    /\ d.cites \subseteq evidence
    /\ \/ d.assessment = "incomplete"
       \/ \E last \in LastWins(d.cites) : Supported(d, last)

NoErrors(d) ==
    /\ d.cites \cup d.mentions \subseteq evidence
    /\ \/ d.assessment = "incomplete"
       \/ \E last \in LastWins(d.cites) : Supported(d, last)

\* A conclusion before any telemetry was read is refused, except on a
\* reserved turn.
Accepts(d) == (evidence # {} \/ synthesis) /\ NoErrors(d)
-----------------------------------------------------------------------------
Init ==
    /\ pc = "status"
    /\ turn = 0 /\ callCount = 0 /\ left = 0 /\ synthesis = FALSE
    /\ evidence = {} /\ store = {}
    /\ request = NoRequest
    /\ outcome = NoOutcome

\* Mutant: the fallback cites every stored snapshot, retrieved or not.
MutantIncomplete(next) ==
    /\ pc' = next
    /\ outcome' = [assessment |-> "incomplete", cites |-> store,
                   mentions |-> {}, by |-> "controller"]

\* incomplete(): a controller conclusion that cites every retrieved result.
\* It is itself a validated Diagnosis, so too many citations would raise.
Incomplete(next) ==
    IF Cardinality(evidence) <= MaxCitations
      THEN /\ pc' = next
           /\ outcome' = [assessment |-> "incomplete", cites |-> evidence,
                          mentions |-> {}, by |-> "controller"]
      ELSE pc' = "invalid" /\ outcome' = NoOutcome

\* status(): the preflight of the local model; it has its own deadline.
StatusChecked ==
    /\ pc = "status"
    /\ pc' \in {"session", "unavailable"}
    /\ UNCHANGED <<budget, evidence, store, request, outcome>>

\* gateway.session() connects and initialises.
SessionOpens ==
    /\ pc = "session"
    /\ pc' = "tools"
    /\ UNCHANGED <<budget, evidence, store, request, outcome>>

\* list_tools offers no permitted tool.
NothingToUse ==
    /\ pc = "tools"
    /\ Incomplete("closing")
    /\ UNCHANGED <<budget, evidence, store, request>>

ToolsListed ==
    /\ pc = "tools"
    /\ pc' = "turn"
    /\ UNCHANGED <<budget, evidence, store, request, outcome>>

\* Mutant: one turn too many.
MutantStartTurn ==
    /\ pc = "turn" /\ turn <= MaxTurns
    /\ synthesis' = (turn = MaxTurns - 1 \/ callCount + 1 >= MaxToolCalls)
    /\ pc' = "chat"
    /\ UNCHANGED <<turn, callCount, left, evidence, store, request, outcome>>

\* The top of the for loop, when the context still fits.
StartTurn ==
    /\ pc = "turn" /\ turn < MaxTurns
    /\ synthesis' = (turn = MaxTurns - 1 \/ callCount + 1 >= MaxToolCalls)
    /\ pc' = "chat"
    /\ UNCHANGED <<turn, callCount, left, evidence, store, request, outcome>>

\* The accumulated messages no longer fit (never at the first turn, whose
\* messages are bounded), or the turns are used up.
BudgetExhausted ==
    /\ pc = "turn" /\ turn > 0
    /\ Incomplete("closing")
    /\ UNCHANGED <<budget, evidence, store, request>>

\* Mutant: the message is not held against the calls already made.
MutantReplyCalls(n) ==
    /\ pc = "chat"
    /\ left' = n /\ pc' = "calls"
    /\ UNCHANGED <<turn, callCount, synthesis, evidence, store, request, outcome>>

\* The model answers with n calls that fit the remaining call budget.
ReplyCalls(n) ==
    /\ pc = "chat"
    /\ n <= MaxToolCalls - callCount
    /\ left' = n /\ pc' = "calls"
    /\ UNCHANGED <<turn, callCount, synthesis, evidence, store, request, outcome>>

\* The model answers with more calls than the budget has left.
ReplyTooManyCalls ==
    /\ pc = "chat"
    /\ Incomplete("closing")
    /\ UNCHANGED <<budget, evidence, store, request>>

ReplyContent ==
    /\ pc = "chat"
    /\ pc' = "content"
    /\ UNCHANGED <<budget, evidence, store, request, outcome>>

InSession == {"session", "tools", "chat", "tool", "closing"}

\* chat() raises ModelUnavailable, or the MCP client an error that is not a
\* transport failure, inside the session, whose task groups wrap it: the
\* caller receives an exception group.
SessionBreaks ==
    /\ pc \in InSession
    /\ pc' = "group" /\ outcome' = NoOutcome
    /\ UNCHANGED <<budget, evidence, store, request>>

\* The loop returns the model's diagnosis, through the exit of the session.
Return(d) ==
    /\ pc' = "closing"
    /\ outcome' = [assessment |-> d.assessment, cites |-> d.cites,
                   mentions |-> d.mentions, by |-> "model"]

\* The bookkeeping at the head of the loop over the calls of a message.
TakeCall ==
    /\ pc = "calls" /\ left > 0
    /\ left' = left - 1 /\ callCount' = callCount + 1
    /\ UNCHANGED <<turn, synthesis>>

SubmitAccepted ==
    /\ TakeCall
    /\ \E d \in Diagnoses : Accepts(d) /\ Return(d)
    /\ UNCHANGED <<evidence, store, request>>

\* A submission that is premature, ill-formed or unsupported, or a tool call
\* that is not permitted, has bad arguments or falls on a reserved turn.
CallRejected ==
    /\ TakeCall
    /\ UNCHANGED <<pc, evidence, store, request, outcome>>

\* Mutant: a reserved turn may still read telemetry.
MutantTelemetrySent(tool) ==
    /\ TakeCall
    /\ pc' = "tool"
    /\ request' = [tool |-> tool, saved |-> {}]
    /\ UNCHANGED <<evidence, store, outcome>>

TelemetrySent(tool) ==
    /\ TakeCall
    /\ ~synthesis
    /\ pc' = "tool"
    /\ request' = [tool |-> tool, saved |-> {}]
    /\ UNCHANGED <<evidence, store, outcome>>

\* The MCP server computes a result and stores its snapshot, then answers.  One
\* it stores after the client has given the call up is stored here before that:
\* nothing in a run reads the store, so only the moment differs.
ServerSaves(s) ==
    /\ pc = "tool" /\ request.saved = {} /\ s.tool = request.tool
    /\ store' = store \cup {s}
    /\ request' = [request EXCEPT !.saved = {s}]
    /\ UNCHANGED <<pc, budget, evidence, outcome>>

\* The answer arrives and passes the checks on tool, query and checksum.
AnswerArrives ==
    /\ pc = "tool" /\ request.saved # {}
    /\ evidence' = evidence \cup request.saved
    /\ pc' = "calls" /\ request' = NoRequest
    /\ UNCHANGED <<budget, store, outcome>>

\* The call fails, is refused or times out, before the server stored
\* anything or after: the model is told, and no evidence is recorded.
CallFails ==
    /\ pc = "tool"
    /\ pc' = "calls" /\ request' = NoRequest
    /\ UNCHANGED <<budget, evidence, store, outcome>>

\* The end of a turn: every call of the message was handled, or the plain
\* content was not an acceptable diagnosis.
EndTurn ==
    /\ \/ pc = "calls" /\ left = 0
       \/ pc = "content"
    /\ turn' = turn + 1 /\ pc' = "turn"
    /\ UNCHANGED <<callCount, left, synthesis, evidence, store, request, outcome>>

ContentAccepted ==
    /\ pc = "content"
    /\ \E d \in Diagnoses : Accepts(d) /\ Return(d)
    /\ UNCHANGED <<budget, evidence, store, request>>

SessionCloses ==
    /\ pc = "closing"
    /\ pc' = "done"
    /\ UNCHANGED <<budget, evidence, store, request, outcome>>

\* asyncio.timeout(INVESTIGATION_TIMEOUT_SECONDS) of run() strikes, or the
\* connection to the MCP server fails; while the session closes, that takes the
\* place of the diagnosis the loop has accepted.
Interrupted ==
    /\ pc \in InSession
    /\ Incomplete("done")
    /\ UNCHANGED <<budget, evidence, store, request>>

\* The caller cancels the run: its own deadline, or a shutdown.
Cancelled ==
    /\ pc \in {"status"} \cup InSession
    /\ pc' = "cancelled" /\ outcome' = NoOutcome
    /\ UNCHANGED <<budget, evidence, store, request>>

Progress ==
    \/ StatusChecked \/ SessionOpens \/ NothingToUse \/ ToolsListed
    \/ StartTurn \/ BudgetExhausted
    \/ \E n \in 1..MaxToolCalls : ReplyCalls(n)
    \/ ReplyTooManyCalls \/ ReplyContent \/ SessionBreaks
    \/ SubmitAccepted \/ ContentAccepted \/ CallRejected
    \/ \E tool \in AllowedTools : TelemetrySent(tool)
    \/ AnswerArrives \/ CallFails \/ EndTurn \/ SessionCloses \/ Interrupted

Next ==
    \/ Progress
    \/ \E s \in Snapshots : ServerSaves(s)
    \/ Cancelled

\* Every await of the run has a timer of its own, so the run always moves on;
\* the server owes nothing.
Fairness == WF_vars(Progress)

Spec == Init /\ [][Next]_vars /\ Fairness
-----------------------------------------------------------------------------
Ended == {"done", "unavailable", "group", "cancelled", "invalid"}
Running == {"status", "turn", "calls", "content"} \cup InSession

\* Every variable stays in its range; in particular the turns and the calls
\* stay within MAX_TURNS and MAX_TOOL_CALLS (agent.py:322,335).
TypeOK ==
    /\ pc \in Running \cup Ended
    /\ turn \in 0..MaxTurns
    /\ callCount \in 0..MaxToolCalls
    /\ left \in 0..(MaxToolCalls - callCount)
    /\ synthesis \in BOOLEAN
    /\ evidence \subseteq Snapshots
    /\ store \subseteq Snapshots
    /\ request \in [tool : AllowedTools \cup {"none"}, saved : SUBSET Snapshots]
    /\ outcome \in Outcomes \cup {NoOutcome}

\* Whatever a returned diagnosis cites or mentions was retrieved in this run,
\* and the evidence store still resolves it (agent.py:172, mcp_server.py:268):
\* no interleaving of lost answers, timers and corrections lets a forged or
\* unseen identifier through, whether the model or the controller concludes.
CitationsResolve ==
    outcome # NoOutcome =>
        /\ outcome.cites \cup outcome.mentions \subseteq evidence
        /\ evidence \subseteq store

\* The controller can always fall back on incomplete(): it cites one entry per
\* retrieved result, and the call budget keeps their number within the limit
\* its own Diagnosis schema sets (agent.py:265-274, models.py:70).
FallbackIsValid ==
    /\ Cardinality(evidence) <= MaxCitations
    /\ pc # "invalid"

\* An accepted incident always rests on retrieved observations of the whole
\* chain: failing orders, samples of both services, an error log of a failed
\* order, and that order's trace followed into the dependency
\* (agent.py:187-218, architecture.md:67).
IncidentIsCorrelated ==
    (outcome # NoOutcome /\ outcome.assessment = "incident") =>
        /\ \E r \in outcome.cites \cap evidence :
              r.available /\ r.samples["orders-service"] = "errors"
        /\ \A s \in Services : \E r \in outcome.cites \cap evidence :
              r.available /\ r.samples[s] \in {"clean", "errors"}
        /\ \E log, trace \in outcome.cites \cap evidence : \E t \in log.failed :
              log.available /\ trace.available /\ t \in trace.linked

\* An accepted healthy assessment rests on retrieved clean samples of both
\* services; unavailable telemetry never counts as health (agent.py:181,187).
HealthyIsSampled ==
    (outcome # NoOutcome /\ outcome.assessment = "healthy") =>
        \A s \in Services : \E r \in outcome.cites \cap evidence :
            r.available /\ r.samples[s] = "clean"

\* Whatever the controller accepts from the model is grounded in this sense, for
\* every order in which Python may visit the cited results (agent.py:178-219).
AssessmentIsGrounded == IncidentIsCorrelated /\ HealthyIsSampled

\* The last model turn never sends a telemetry call, whatever calls the model
\* packs into its message: it is reserved for synthesis (agent.py:325,375,
\* architecture.md:63).
LastTurnReadsNothing ==
    [][(pc # "tool" /\ pc' = "tool") => turn + 1 < MaxTurns]_vars

\* A snapshot enters the evidence only if the server had stored it by then,
\* and nothing leaves the evidence or the store (agent.py:385,
\* mcp_server.py:92-100).
EvidenceOnlyGrows ==
    [][/\ evidence \subseteq evidence' /\ store \subseteq store'
       /\ evidence' \ evidence \subseteq store]_vars

\* The run implements the promise of module Investigation: evidence only
\* accumulates, and a run that ends with a diagnosis ends with one justified by
\* the evidence of that moment, the deadline's and the budget's included, and
\* whatever strikes between the decision and the end.
Promise == INSTANCE Investigation WITH
    Diagnoses <- Outcomes,
    phase     <- CASE pc \in Running -> "open"
                   [] pc = "done"    -> "concluded"
                   [] OTHER          -> "aborted",
    outcome   <- IF pc = "done" THEN outcome ELSE NoOutcome

KeepsPromise == Promise!Spec

\* architecture.md:67: "A healthy conclusion cannot coexist with observed
\* errors."  Here: no cited, available result shows an error or a failed order.
HealthyMeansNoObservedErrors ==
    (outcome # NoOutcome /\ outcome.assessment = "healthy") =>
        \A r \in outcome.cites : r.available =>
            /\ \A s \in Services : r.samples[s] # "errors"
            /\ r.failed = {} /\ r.linked = {}
=============================================================================
