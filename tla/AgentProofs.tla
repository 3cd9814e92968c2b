---------------------------- MODULE AgentProofs ----------------------------
(***************************************************************************)
(* Safety of one investigation, for every set of snapshots and every       *)
(* budget: its types, the bound that keeps the controller's fallback       *)
(* valid, the provenance of citations, the support of an incident, the     *)
(* reserved turn, and the step simulation of module Investigation.         *)
(***************************************************************************)
EXTENDS Agent, TLAPS, FiniteSetTheorems

(* A turn in progress is within the budget, and the last one is reserved.  *)
TurnInv ==
    pc \in {"chat", "calls", "tool", "content"} =>
        turn < MaxTurns /\ (turn + 1 = MaxTurns => synthesis)

TypeInv == TypeOK /\ TurnInv

(* Every variable stays in its range, MAX_TURNS and MAX_TOOL_CALLS included. *)
LEMMA TypeInit == Init => TypeInv
<1> SUFFICES ASSUME Init PROVE TypeInv
  OBVIOUS
<1>1. request \in [tool : AllowedTools \cup {"none"}, saved : SUBSET Snapshots]
  BY DEF Init, NoRequest
<1>2. turn \in 0..MaxTurns /\ callCount \in 0..MaxToolCalls
      /\ left \in 0..(MaxToolCalls - callCount)
  BY BudgetAssumption DEF Init
<1>3. pc = "status" /\ synthesis \in BOOLEAN /\ evidence = {} /\ store = {}
      /\ outcome = NoOutcome
  BY DEF Init
<1> QED
  BY <1>1, <1>2, <1>3 DEF TypeInv, TypeOK, TurnInv, Running

LEMMA IncompleteType ==
  ASSUME TypeOK, NEW next, Incomplete(next)
  PROVE  pc' \in {next, "invalid"} /\ outcome' \in Outcomes \cup {NoOutcome}
  BY DEF TypeOK, Incomplete, Outcomes, Assessments, Ids

LEMMA TypeStep == TypeInv /\ [Next]_vars => TypeInv'
<1> SUFFICES ASSUME TypeInv, [Next]_vars PROVE TypeInv'
  OBVIOUS
<1> USE BudgetAssumption DEF TypeInv, TypeOK, TurnInv, InSession
<1>1. CASE StatusChecked
  BY <1>1 DEF StatusChecked, budget, Running, Ended
<1>2. CASE SessionOpens
  BY <1>2 DEF SessionOpens, budget, Running
<1>3. CASE NothingToUse
  BY <1>3, IncompleteType DEF NothingToUse, budget, Running, Ended
<1>4. CASE ToolsListed
  BY <1>4 DEF ToolsListed, budget, Running
<1>5. CASE StartTurn
  <2>1. synthesis' \in BOOLEAN
    BY <1>5, Zenon DEF StartTurn
  <2>2. turn + 1 = MaxTurns => synthesis'
    <3>1. turn + 1 = MaxTurns => turn = MaxTurns - 1
      OBVIOUS
    <3> QED BY <1>5, <3>1, Zenon DEF StartTurn
  <2> QED BY <1>5, <2>1, <2>2 DEF StartTurn, Running
<1>6. CASE BudgetExhausted
  BY <1>6, IncompleteType DEF BudgetExhausted, budget, Running, Ended
<1>7. ASSUME NEW n \in 1..MaxToolCalls, ReplyCalls(n) PROVE TypeInv'
  BY <1>7 DEF ReplyCalls, Running
<1>8. CASE ReplyTooManyCalls
  BY <1>8, IncompleteType DEF ReplyTooManyCalls, budget, Running, Ended
<1>9. CASE ReplyContent
  BY <1>9 DEF ReplyContent, budget, Running
<1>10. CASE SessionBreaks
  BY <1>10 DEF SessionBreaks, budget, Ended
<1>12. ASSUME NEW d \in Diagnoses, Return(d)
       PROVE pc' = "closing" /\ outcome' \in Outcomes \cup {NoOutcome}
  BY <1>12 DEF Diagnoses, Return, Outcomes
<1>13. CASE SubmitAccepted
  BY <1>12, <1>13 DEF SubmitAccepted, TakeCall, Running
<1>14. CASE ContentAccepted
  BY <1>12, <1>14 DEF ContentAccepted, budget, Running
<1>15. CASE CallRejected
  BY <1>15 DEF CallRejected, TakeCall
<1>16. ASSUME NEW tool \in AllowedTools, TelemetrySent(tool) PROVE TypeInv'
  BY <1>16 DEF TelemetrySent, TakeCall, Running
<1>17. CASE AnswerArrives
  BY <1>17 DEF AnswerArrives, budget, Running, NoRequest
<1>18. CASE CallFails
  BY <1>18 DEF CallFails, budget, Running, NoRequest
<1>19. CASE EndTurn
  BY <1>19 DEF EndTurn, Running
<1>20. CASE Interrupted
  BY <1>20, IncompleteType DEF Interrupted, budget, Ended
<1>21. ASSUME NEW s \in Snapshots, ServerSaves(s) PROVE TypeInv'
  BY <1>21 DEF ServerSaves, budget
<1>22. CASE Cancelled
  BY <1>22 DEF Cancelled, budget, Ended
<1>23. CASE UNCHANGED vars
  BY <1>23 DEF vars
<1>24. CASE SessionCloses
  BY <1>24 DEF SessionCloses, budget, Ended
<1> QED
  BY <1>1, <1>2, <1>3, <1>4, <1>5, <1>6, <1>7, <1>8, <1>9, <1>10, <1>13, <1>14,
     <1>15, <1>16, <1>17, <1>18, <1>19, <1>20, <1>21, <1>22, <1>23, <1>24
  DEF Next, Progress

(* Spec keeps every variable in its range: no message of the model makes   *)
(* the loop exceed its turns or its calls.                                 *)
THEOREM TypeCorrect == Spec => []TypeOK
<1>1. TypeInv => TypeOK
  BY DEF TypeInv
<1> QED
  BY <1>1, TypeInit, TypeStep, PTL DEF Spec

(* The inductive form of it: a turn in progress is within the budget, and   *)
(* the last one is reserved (agent.py:322-326).                             *)
THEOREM TypeInvariant == Spec => []TypeInv
  BY TypeInit, TypeStep, PTL DEF Spec
-----------------------------------------------------------------------------
(* Each retrieved result used up a call, and so will the one in flight.    *)
BudgetInv ==
    /\ IsFiniteSet(evidence)
    /\ Cardinality(evidence) + (IF pc = "tool" THEN 1 ELSE 0) <= callCount
    /\ \A a, b \in request.saved : a = b
    /\ pc # "invalid"

LEMMA BudgetInit == Init => BudgetInv
  BY FS_EmptySet DEF Init, BudgetInv, NoRequest

LEMMA EvidenceFits ==
  ASSUME TypeOK, BudgetInv
  PROVE  Cardinality(evidence) \in Nat /\ Cardinality(evidence) <= MaxCitations
<1>1. Cardinality(evidence) \in Nat
  BY FS_CardinalityType DEF BudgetInv
<1> QED
  BY <1>1, BudgetAssumption DEF TypeOK, BudgetInv

(* The fallback of a run whose evidence fits is a valid diagnosis.         *)
LEMMA FallbackStep ==
  ASSUME TypeOK, BudgetInv, NEW next, Incomplete(next)
  PROVE  pc' = next
  BY EvidenceFits DEF Incomplete

LEMMA BudgetStep == TypeOK /\ BudgetInv /\ [Next]_vars => BudgetInv'
<1> SUFFICES ASSUME TypeOK, BudgetInv, [Next]_vars PROVE BudgetInv'
  OBVIOUS
<1>0. Cardinality(evidence) \in Nat /\ callCount \in Nat
  BY EvidenceFits, BudgetAssumption DEF TypeOK
<1>1. ASSUME UNCHANGED <<evidence, request>>, callCount' \in {callCount, callCount + 1},
             pc' # "invalid", pc' = "tool" => pc = "tool"
      PROVE  BudgetInv'
  BY <1>0, <1>1 DEF BudgetInv
<1>2. ASSUME NEW next \in {"closing", "done"}, Incomplete(next),
             UNCHANGED <<budget, evidence, request>>
      PROVE  BudgetInv'
  BY <1>0, <1>2, FallbackStep DEF BudgetInv, budget
<1>3. CASE StatusChecked \/ SessionOpens \/ ToolsListed \/ ReplyContent \/ SessionBreaks
           \/ SessionCloses \/ Cancelled
  BY <1>1, <1>3 DEF StatusChecked, SessionOpens, ToolsListed, ReplyContent,
                    SessionBreaks, SessionCloses, Cancelled, budget
<1>4. CASE StartTurn \/ EndTurn \/ \E n \in 1..MaxToolCalls : ReplyCalls(n)
  BY <1>1, <1>4 DEF StartTurn, EndTurn, ReplyCalls
<1>5. CASE NothingToUse \/ BudgetExhausted \/ ReplyTooManyCalls \/ Interrupted
  BY <1>2, <1>5 DEF NothingToUse, BudgetExhausted, ReplyTooManyCalls, Interrupted
<1>6. CASE SubmitAccepted \/ ContentAccepted \/ CallRejected
  BY <1>1, <1>6 DEF SubmitAccepted, ContentAccepted, CallRejected, Return, TakeCall, budget
<1>7. ASSUME NEW tool \in AllowedTools, TelemetrySent(tool) PROVE BudgetInv'
  BY <1>0, <1>7 DEF TelemetrySent, TakeCall, BudgetInv
<1>8. CASE AnswerArrives
  <2>1. PICK s \in request.saved : request.saved = {s}
    BY <1>8 DEF AnswerArrives, BudgetInv
  <2>2. evidence' = evidence \cup {s} /\ pc' = "calls" /\ callCount' = callCount
        /\ request'.saved = {}
    BY <1>8, <2>1 DEF AnswerArrives, NoRequest, budget
  <2>3. IsFiniteSet(evidence)
    BY DEF BudgetInv
  <2>4. IsFiniteSet(evidence')
    BY <2>2, <2>3, FS_AddElement
  <2>5. Cardinality(evidence') \in {Cardinality(evidence), Cardinality(evidence) + 1}
    BY <2>2, <2>3, FS_AddElement, Zenon
  <2>6. Cardinality(evidence) + 1 <= callCount
    BY <1>0, <1>8 DEF AnswerArrives, BudgetInv
  <2> QED
    BY <1>0, <2>2, <2>4, <2>5, <2>6 DEF BudgetInv
<1>9. CASE CallFails
  BY <1>0, <1>9 DEF CallFails, BudgetInv, NoRequest, budget
<1>10. ASSUME NEW s \in Snapshots, ServerSaves(s) PROVE BudgetInv'
  <2>1. request \in [tool : AllowedTools \cup {"none"}, saved : SUBSET Snapshots]
    BY DEF TypeOK
  <2>2. request' = [request EXCEPT !.saved = {s}] /\ UNCHANGED <<pc, evidence, callCount>>
    BY <1>10 DEF ServerSaves, budget
  <2>3. request'.saved = {s}
    BY <2>1, <2>2
  <2> QED
    BY <1>0, <2>2, <2>3 DEF BudgetInv
<1>11. CASE UNCHANGED vars
  BY <1>1, <1>11 DEF vars, BudgetInv
<1> QED
  BY <1>3, <1>4, <1>5, <1>6, <1>7, <1>8, <1>9, <1>10, <1>11 DEF Next, Progress

(* incomplete() never raises: the evidence of a run always fits the        *)
(* citations its own schema allows, so every budget, deadline and          *)
(* connection failure ends in an incomplete diagnosis (agent.py:265-274).  *)
THEOREM FallbackAlwaysValid == Spec => []FallbackIsValid
<1>1. TypeOK /\ BudgetInv => FallbackIsValid
  BY EvidenceFits DEF FallbackIsValid, BudgetInv
<1>2. Spec => [](TypeOK /\ BudgetInv)
  BY TypeCorrect, BudgetInit, BudgetStep, PTL DEF Spec
<1> QED
  BY <1>1, <1>2, PTL
-----------------------------------------------------------------------------
(* What was retrieved was stored first, and a diagnosis is the last thing   *)
(* the loop decides: only the fallback may still take its place, and no     *)
(* evidence arrives after it.                                               *)
ProvenanceInv ==
    /\ evidence \subseteq store
    /\ request.saved \subseteq store
    /\ outcome # NoOutcome =>
          pc \in {"closing", "done"} /\ outcome.cites \cup outcome.mentions \subseteq evidence

LEMMA ProvenanceInit == Init => ProvenanceInv
  BY DEF Init, ProvenanceInv, NoRequest

LEMMA IncompleteProvenance ==
  ASSUME ProvenanceInv, NEW next \in {"closing", "done"}, Incomplete(next),
         UNCHANGED <<evidence, store, request>>
  PROVE  ProvenanceInv'
<1>1. CASE outcome' = NoOutcome
  BY <1>1 DEF ProvenanceInv
<1>2. CASE pc' = next /\ outcome'.cites = evidence /\ outcome'.mentions = {}
  BY <1>2 DEF ProvenanceInv
<1> QED
  BY <1>1, <1>2 DEF Incomplete

LEMMA ReturnProvenance ==
  ASSUME NEW d, ProvenanceInv, Accepts(d), Return(d), UNCHANGED <<evidence, store, request>>
  PROVE  ProvenanceInv'
<1>1. outcome'.cites = d.cites /\ outcome'.mentions = d.mentions /\ pc' = "closing"
  BY DEF Return
<1> QED
  BY <1>1 DEF ProvenanceInv, Accepts, NoErrors

LEMMA ProvenanceStep == TypeOK /\ ProvenanceInv /\ [Next]_vars => ProvenanceInv'
<1> SUFFICES ASSUME TypeOK, ProvenanceInv, [Next]_vars PROVE ProvenanceInv'
  OBVIOUS
<1>1. ASSUME UNCHANGED <<evidence, store, request>>,
             \/ outcome' = NoOutcome
             \/ UNCHANGED outcome /\ pc \notin {"closing", "done"}
             \/ UNCHANGED outcome /\ pc' = "done"
      PROVE  ProvenanceInv'
  BY <1>1 DEF ProvenanceInv
<1>2. CASE StatusChecked \/ SessionOpens \/ ToolsListed \/ ReplyContent \/ SessionBreaks
           \/ SessionCloses \/ Cancelled
  BY <1>1, <1>2 DEF StatusChecked, SessionOpens, ToolsListed, ReplyContent,
                    SessionBreaks, SessionCloses, Cancelled
<1>3. CASE StartTurn \/ EndTurn \/ CallRejected \/ \E n \in 1..MaxToolCalls : ReplyCalls(n)
  BY <1>1, <1>3 DEF StartTurn, EndTurn, CallRejected, TakeCall, ReplyCalls
<1>4. CASE NothingToUse \/ BudgetExhausted \/ ReplyTooManyCalls \/ Interrupted
  BY <1>4, IncompleteProvenance DEF NothingToUse, BudgetExhausted, ReplyTooManyCalls,
                                    Interrupted
<1>5. CASE SubmitAccepted \/ ContentAccepted
  BY <1>5, ReturnProvenance DEF SubmitAccepted, ContentAccepted
<1>6. ASSUME NEW tool \in AllowedTools, TelemetrySent(tool) PROVE ProvenanceInv'
  BY <1>6 DEF TelemetrySent, TakeCall, ProvenanceInv
<1>7. CASE AnswerArrives
  BY <1>7 DEF AnswerArrives, ProvenanceInv, NoRequest
<1>8. CASE CallFails
  BY <1>8 DEF CallFails, ProvenanceInv, NoRequest
<1>9. ASSUME NEW s \in Snapshots, ServerSaves(s) PROVE ProvenanceInv'
  <2>1. request \in [tool : AllowedTools \cup {"none"}, saved : SUBSET Snapshots]
    BY DEF TypeOK
  <2>2. request' = [request EXCEPT !.saved = {s}] /\ store' = store \cup {s}
        /\ pc = "tool" /\ UNCHANGED <<pc, evidence, outcome>>
    BY <1>9 DEF ServerSaves
  <2>3. request'.saved = {s}
    BY <2>1, <2>2
  <2> QED
    BY <2>2, <2>3 DEF ProvenanceInv
<1>10. CASE UNCHANGED vars
  BY <1>10 DEF vars, ProvenanceInv
<1> QED
  BY <1>2, <1>3, <1>4, <1>5, <1>6, <1>7, <1>8, <1>9, <1>10 DEF Next, Progress

(* Evidence only comes out of the store, a result in flight included, and   *)
(* an outcome only out of the evidence (agent.py:385, mcp_server.py:98-100).*)
THEOREM Provenance == Spec => []ProvenanceInv
  BY TypeCorrect, ProvenanceInit, ProvenanceStep, PTL DEF Spec

(* Every identifier a returned diagnosis cites or mentions was retrieved in *)
(* the run and is in the evidence store, whoever concluded and however the *)
(* run was interrupted (agent.py:172, mcp_server.py:268).                  *)
THEOREM CitationsAlwaysResolve == Spec => []CitationsResolve
<1>1. ProvenanceInv => CitationsResolve
  BY DEF ProvenanceInv, CitationsResolve
<1> QED
  BY <1>1, Provenance, PTL
-----------------------------------------------------------------------------
LEMMA SupportStep ==
  ASSUME NEW d, Accepts(d), Return(d), UNCHANGED evidence
  PROVE  IncidentIsCorrelated'
<1> SUFFICES ASSUME d.assessment = "incident" PROVE IncidentIsCorrelated'
  BY DEF Return, IncidentIsCorrelated
<1>1. d.cites \subseteq evidence
  BY DEF Accepts, NoErrors
<1>2. PICK last \in LastWins(d.cites) : Supported(d, last)
  BY DEF Accepts, NoErrors
<1>3. \A s \in Services : last[s] \in d.cites /\ last[s].available
                       /\ last[s].samples[s] \in {"clean", "errors"}
  BY <1>2 DEF LastWins, Carriers, Supported, Sampled
<1>4. last["orders-service"].samples["orders-service"] = "errors" /\ Correlated(d.cites)
  BY <1>2 DEF Supported
<1>5. "orders-service" \in Services
  BY DEF Services
<1>6. outcome'.cites = d.cites /\ d.cites \cap evidence' = d.cites
  BY <1>1 DEF Return
<1>7. \E log, trace \in d.cites : \E t \in log.failed :
         log.available /\ trace.available /\ t \in trace.linked
  BY <1>4 DEF Correlated
<1> QED
  BY <1>3, <1>4, <1>5, <1>6, <1>7 DEF IncidentIsCorrelated

(* A stable diagnosis: once returned it and the evidence stay as they are. *)
LEMMA SupportInductive ==
  ProvenanceInv /\ IncidentIsCorrelated /\ [Next]_vars => IncidentIsCorrelated'
<1> SUFFICES ASSUME ProvenanceInv, IncidentIsCorrelated, [Next]_vars
             PROVE  IncidentIsCorrelated'
  OBVIOUS
<1>1. CASE UNCHANGED <<evidence, outcome>>
  BY <1>1 DEF IncidentIsCorrelated
<1>2. CASE outcome' = NoOutcome \/ outcome'.assessment = "incomplete"
  BY <1>2 DEF IncidentIsCorrelated
<1>3. CASE SubmitAccepted \/ ContentAccepted
  BY <1>3, SupportStep DEF SubmitAccepted, ContentAccepted
<1>4. CASE NothingToUse \/ BudgetExhausted \/ ReplyTooManyCalls \/ Interrupted
  BY <1>1, <1>2, <1>4 DEF NothingToUse, BudgetExhausted, ReplyTooManyCalls,
                          Interrupted, Incomplete
<1>5. CASE AnswerArrives
  BY <1>2, <1>5 DEF AnswerArrives, ProvenanceInv
<1>6. CASE SessionBreaks \/ Cancelled
  BY <1>2, <1>6 DEF SessionBreaks, Cancelled
<1> QED
  BY <1>1, <1>3, <1>4, <1>5, <1>6
  DEF Next, Progress, vars, budget, StatusChecked, SessionOpens, ToolsListed, StartTurn,
      ReplyCalls, ReplyContent, TakeCall, CallRejected, TelemetrySent,
      CallFails, EndTurn, ServerSaves, SessionCloses

LEMMA HealthStep ==
  ASSUME NEW d, Accepts(d), Return(d), UNCHANGED evidence
  PROVE  HealthyIsSampled'
<1> SUFFICES ASSUME d.assessment = "healthy" PROVE HealthyIsSampled'
  BY DEF Return, HealthyIsSampled
<1>1. d.cites \subseteq evidence
  BY DEF Accepts, NoErrors
<1>2. PICK last \in LastWins(d.cites) : Supported(d, last)
  BY DEF Accepts, NoErrors
<1>3. \A s \in Services : last[s] \in d.cites /\ last[s].available
                       /\ last[s].samples[s] \in {"clean", "errors"}
  BY <1>2 DEF LastWins, Carriers, Supported, Sampled
<1>4. \A s \in Services : last[s].samples[s] # "errors"
  BY <1>2 DEF Supported
<1>5. \A s \in Services : last[s].samples[s] = "clean"
  BY <1>3, <1>4
<1>6. outcome'.cites = d.cites /\ d.cites \cap evidence' = d.cites
  BY <1>1 DEF Return
<1> QED
  BY <1>3, <1>5, <1>6 DEF HealthyIsSampled

LEMMA HealthInductive ==
  ProvenanceInv /\ HealthyIsSampled /\ [Next]_vars => HealthyIsSampled'
<1> SUFFICES ASSUME ProvenanceInv, HealthyIsSampled, [Next]_vars
             PROVE  HealthyIsSampled'
  OBVIOUS
<1>1. CASE UNCHANGED <<evidence, outcome>>
  BY <1>1 DEF HealthyIsSampled
<1>2. CASE outcome' = NoOutcome \/ outcome'.assessment = "incomplete"
  BY <1>2 DEF HealthyIsSampled
<1>3. CASE SubmitAccepted \/ ContentAccepted
  BY <1>3, HealthStep DEF SubmitAccepted, ContentAccepted
<1>4. CASE NothingToUse \/ BudgetExhausted \/ ReplyTooManyCalls \/ Interrupted
  BY <1>1, <1>2, <1>4 DEF NothingToUse, BudgetExhausted, ReplyTooManyCalls,
                          Interrupted, Incomplete
<1>5. CASE AnswerArrives
  BY <1>2, <1>5 DEF AnswerArrives, ProvenanceInv
<1>6. CASE SessionBreaks \/ Cancelled
  BY <1>2, <1>6 DEF SessionBreaks, Cancelled
<1> QED
  BY <1>1, <1>3, <1>4, <1>5, <1>6
  DEF Next, Progress, vars, budget, StatusChecked, SessionOpens, ToolsListed, StartTurn,
      ReplyCalls, ReplyContent, TakeCall, CallRejected, TelemetrySent,
      CallFails, EndTurn, ServerSaves, SessionCloses

(* An accepted incident rests on retrieved failing orders, samples of both  *)
(* services, and an error log whose trace was followed into the dependency; *)
(* an accepted healthy assessment rests on retrieved clean samples of both  *)
(* (agent.py:178-219): in every order of the summaries, for any snapshots. *)
THEOREM AssessmentAlwaysGrounded == Spec => []AssessmentIsGrounded
<1>1. Init => IncidentIsCorrelated /\ HealthyIsSampled
  BY DEF Init, IncidentIsCorrelated, HealthyIsSampled
<1>2. IncidentIsCorrelated /\ HealthyIsSampled => AssessmentIsGrounded
  BY DEF AssessmentIsGrounded
<1> QED
  BY <1>1, <1>2, Provenance, SupportInductive, HealthInductive, PTL DEF Spec
-----------------------------------------------------------------------------
(* The last turn sends no telemetry call, whatever the model packs into its *)
(* message (agent.py:325,375).                                              *)
THEOREM LastTurnNeverReads == Spec => LastTurnReadsNothing
<1>1. TypeInv /\ [Next]_vars
        => [(pc # "tool" /\ pc' = "tool") => turn + 1 < MaxTurns]_vars
  <2> SUFFICES ASSUME TypeInv, Next, pc # "tool", pc' = "tool"
               PROVE  turn + 1 < MaxTurns
    OBVIOUS
  <2>1. PICK tool \in AllowedTools : TelemetrySent(tool)
    BY DEF Next, Progress, StatusChecked, SessionOpens, ToolsListed, StartTurn,
           ReplyCalls, ReplyContent, SessionBreaks, TakeCall, CallRejected,
           CallFails, EndTurn, ServerSaves, SessionCloses, Cancelled, NothingToUse, BudgetExhausted,
           ReplyTooManyCalls, Interrupted, Incomplete, SubmitAccepted, ContentAccepted,
           Return, AnswerArrives
  <2>2. pc = "calls" /\ ~synthesis
    BY <2>1 DEF TelemetrySent, TakeCall
  <2> QED
    BY <2>2, BudgetAssumption DEF TypeInv, TurnInv, TypeOK
<1> QED
  BY <1>1, TypeInvariant, PTL DEF Spec, LastTurnReadsNothing

(* Evidence and store only grow, and nothing becomes evidence that the      *)
(* server had not stored before it answered (agent.py:385,                  *)
(* mcp_server.py:92-100).                                                   *)
THEOREM EvidenceAccumulates == Spec => EvidenceOnlyGrows
<1>1. ProvenanceInv /\ [Next]_vars
        => [/\ evidence \subseteq evidence' /\ store \subseteq store'
            /\ evidence' \ evidence \subseteq store]_vars
  BY DEF Next, Progress, StatusChecked, SessionOpens, ToolsListed, StartTurn,
         ReplyCalls, ReplyContent, SessionBreaks, TakeCall, CallRejected, TelemetrySent,
         CallFails, EndTurn, ServerSaves, SessionCloses, Cancelled, NothingToUse, BudgetExhausted,
         ReplyTooManyCalls, Interrupted, SubmitAccepted, ContentAccepted,
         AnswerArrives, ProvenanceInv
<1> QED
  BY <1>1, Provenance, PTL DEF Spec, EvidenceOnlyGrows
-----------------------------------------------------------------------------
(* A diagnosis the loop has decided on is a justified conclusion of the     *)
(* abstract investigation, and stays one until the session is closed.       *)
DecidedInv ==
    pc = "closing" => outcome \in Outcomes /\ Promise!Justified(outcome)

LEMMA IncompleteDecides ==
  ASSUME TypeOK, BudgetInv, NEW next, Incomplete(next), UNCHANGED evidence
  PROVE  /\ pc' = next /\ outcome' \in Outcomes
         /\ outcome' # NoOutcome /\ Promise!Justified(outcome')
         /\ Promise!Justified(outcome)'
<1>1. pc' = next
  BY FallbackStep
<1>2. outcome' = [assessment |-> "incomplete", cites |-> evidence,
                  mentions |-> {}, by |-> "controller"]
  BY EvidenceFits DEF Incomplete
<1>3. outcome' \in Outcomes
  BY <1>2 DEF Outcomes, Assessments, Ids, TypeOK
<1>4. Promise!Justified(outcome') /\ Promise!Justified(outcome)'
  BY <1>2 DEF Promise!Justified
<1> QED
  BY <1>1, <1>2, <1>3, <1>4 DEF NoOutcome

(* So is one the controller accepts from the model.                         *)
LEMMA ReturnDecides ==
  ASSUME NEW d \in Diagnoses, Accepts(d), Return(d), UNCHANGED evidence
  PROVE  pc' = "closing" /\ outcome' \in Outcomes /\ Promise!Justified(outcome)'
<1>1. pc' = "closing" /\ outcome' \in Outcomes
  BY DEF Return, Diagnoses, Outcomes
<1>2. outcome'.assessment = d.assessment
      /\ outcome'.cites = d.cites /\ outcome'.mentions = d.mentions
  BY DEF Return
<1>3. d.cites \cup d.mentions \subseteq evidence
  BY DEF Accepts, NoErrors
<1>4. evidence = {} => d.assessment = "incomplete"
  <2> SUFFICES ASSUME evidence = {}, d.assessment # "incomplete" PROVE FALSE
    OBVIOUS
  <2>1. PICK last \in LastWins(d.cites) : TRUE
    BY DEF Accepts, NoErrors
  <2>2. last["orders-service"] \in d.cites
    BY <2>1 DEF LastWins, Carriers, Services
  <2> QED
    BY <1>3, <2>2
<1> QED
  BY <1>1, <1>2, <1>3, <1>4 DEF Promise!Justified

LEMMA DecidedStep ==
  TypeOK /\ BudgetInv /\ DecidedInv /\ [Next]_vars => DecidedInv'
<1> SUFFICES ASSUME TypeOK, BudgetInv, DecidedInv, [Next]_vars PROVE DecidedInv'
  OBVIOUS
<1>1. ASSUME pc' # "closing" PROVE DecidedInv'
  BY <1>1 DEF DecidedInv
<1>2. CASE NothingToUse \/ BudgetExhausted \/ ReplyTooManyCalls
  BY <1>2, IncompleteDecides DEF NothingToUse, BudgetExhausted, ReplyTooManyCalls, DecidedInv
<1>3. CASE SubmitAccepted \/ ContentAccepted
  BY <1>3, ReturnDecides DEF SubmitAccepted, ContentAccepted, DecidedInv
<1>4. CASE Interrupted
  BY <1>1, <1>4, IncompleteDecides DEF Interrupted
<1>5. CASE StatusChecked \/ SessionOpens \/ ToolsListed \/ ReplyContent \/ StartTurn \/ EndTurn
           \/ CallFails \/ AnswerArrives \/ SessionBreaks \/ SessionCloses \/ Cancelled
           \/ (\E n \in 1..MaxToolCalls : ReplyCalls(n))
           \/ (\E tool \in AllowedTools : TelemetrySent(tool))
  BY <1>1, <1>5 DEF StatusChecked, SessionOpens, ToolsListed, ReplyContent, StartTurn, EndTurn,
                    CallFails, AnswerArrives, SessionBreaks, SessionCloses, Cancelled,
                    ReplyCalls, TelemetrySent
<1>6. CASE CallRejected \/ (\E s \in Snapshots : ServerSaves(s))
  BY <1>1, <1>6 DEF CallRejected, TakeCall, ServerSaves
<1>7. CASE UNCHANGED vars
  BY <1>7 DEF vars, DecidedInv, Promise!Justified
<1> QED
  BY <1>2, <1>3, <1>4, <1>5, <1>6, <1>7 DEF Next, Progress

Concluded == IF pc = "done" THEN outcome ELSE NoOutcome

LEMMA PromiseStep ==
  TypeOK /\ BudgetInv /\ DecidedInv /\ [Next]_vars
    => Promise!Next \/ UNCHANGED <<pc \in Running, pc = "done", evidence, Concluded>>
<1> SUFFICES ASSUME TypeOK, BudgetInv, DecidedInv, [Next]_vars
             PROVE  Promise!Next
                    \/ UNCHANGED <<pc \in Running, pc = "done", evidence, Concluded>>
  OBVIOUS
<1> USE DEF InSession, Concluded
<1>1. CASE StatusChecked \/ SessionBreaks \/ Cancelled
  <2>1. /\ pc \in Running /\ pc # "done" /\ pc' # "done" /\ UNCHANGED evidence
        /\ pc' \in {"session", "unavailable", "group", "cancelled"}
    BY <1>1 DEF StatusChecked, SessionBreaks, Cancelled, Running
  <2>2. CASE pc' \in Running
    BY <2>1, <2>2
  <2>3. CASE pc' \notin Running
    BY <2>1, <2>3 DEF Promise!Next, Promise!End, Promise!Abort
  <2> QED BY <2>2, <2>3
<1>2. CASE Interrupted
  <2>1. pc \in Running /\ pc # "done" /\ UNCHANGED evidence /\ Incomplete("done")
    BY <1>2 DEF Interrupted, Running
  <2>2. pc' = "done" /\ outcome' \in Outcomes /\ Promise!Justified(outcome')
    BY <2>1, IncompleteDecides
  <2> QED
    BY <2>1, <2>2 DEF Promise!Next, Promise!End, Promise!Conclude, Running
<1>3. CASE NothingToUse \/ BudgetExhausted \/ ReplyTooManyCalls
  <2>1. /\ pc \in {"tools", "turn", "chat"} /\ UNCHANGED evidence /\ Incomplete("closing")
    BY <1>3 DEF NothingToUse, BudgetExhausted, ReplyTooManyCalls
  <2>2. pc' = "closing"
    BY <2>1, IncompleteDecides
  <2> QED
    BY <2>1, <2>2 DEF Running
<1>4. CASE SubmitAccepted \/ ContentAccepted
  BY <1>4 DEF SubmitAccepted, ContentAccepted, TakeCall, Return, Running
<1>5. CASE AnswerArrives
  <2>1. PICK s \in request.saved : request.saved = {s}
    BY <1>5 DEF AnswerArrives, BudgetInv
  <2>2. s \in Snapshots
    BY <2>1 DEF TypeOK
  <2> QED
    BY <1>5, <2>1, <2>2
    DEF AnswerArrives, Running, Promise!Next, Promise!Retrieve
<1>6. CASE SessionCloses
  <2>1. /\ pc = "closing" /\ pc' = "done" /\ UNCHANGED <<evidence, outcome>>
    BY <1>6 DEF SessionCloses
  <2>2. outcome' \in Outcomes /\ Promise!Justified(outcome')
    BY <2>1 DEF DecidedInv
  <2> QED
    BY <2>1, <2>2 DEF Promise!Next, Promise!End, Promise!Conclude, Running
<1>7. CASE UNCHANGED vars
  BY <1>7 DEF vars
<1>8. CASE SessionOpens \/ ToolsListed \/ ReplyContent \/ StartTurn \/ EndTurn
           \/ CallRejected \/ CallFails \/ (\E n \in 1..MaxToolCalls : ReplyCalls(n))
           \/ (\E tool \in AllowedTools : TelemetrySent(tool))
           \/ (\E s \in Snapshots : ServerSaves(s))
  BY <1>8 DEF SessionOpens, ToolsListed, ReplyContent, StartTurn, EndTurn, CallRejected,
              CallFails, ReplyCalls, TelemetrySent, ServerSaves, TakeCall, Running
<1> QED
  BY <1>1, <1>2, <1>3, <1>4, <1>5, <1>6, <1>7, <1>8 DEF Next, Progress

(* The run implements the safety part of module Investigation: evidence    *)
(* only accumulates, the run ends once, and a diagnosis is justified by    *)
(* the evidence of the moment it is returned.                              *)
THEOREM PromiseKept == Spec => Promise!Safety
<1>1. Init => Promise!Init /\ DecidedInv
  BY DEF Init, Promise!Init, NoOutcome, Promise!NoOutcome, Running, DecidedInv
<1>2. TypeOK /\ BudgetInv /\ DecidedInv /\ [Next]_vars
        => [Promise!Next]_<<CASE pc \in Running -> "open"
                              [] pc = "done" -> "concluded"
                              [] OTHER -> "aborted",
                            evidence, IF pc = "done" THEN outcome ELSE NoOutcome>>
  BY PromiseStep DEF Concluded
<1>3. Spec => [](TypeOK /\ BudgetInv)
  BY TypeCorrect, BudgetInit, BudgetStep, PTL DEF Spec
<1>4. TypeOK /\ BudgetInv /\ DecidedInv /\ [Next]_vars => DecidedInv'
  BY DecidedStep
<1> QED
  BY <1>1, <1>2, <1>3, <1>4, PTL DEF Spec, Promise!Safety
=============================================================================
