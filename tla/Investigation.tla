--------------------------- MODULE Investigation ---------------------------
(***************************************************************************)
(* What an investigation promises its reader (docs/architecture.md, "Model *)
(* loop and validation"): evidence only accumulates; a run ends once, with *)
(* a diagnosis justified by the evidence gathered up to that moment, or    *)
(* without one; and it does end.  Agent implements it.                     *)
(***************************************************************************)
EXTENDS Naturals

CONSTANTS
    Snapshots,  \* the results the telemetry tools can return
    Diagnoses   \* records with the fields assessment, cites and mentions

VARIABLES phase, evidence, outcome

NoOutcome == [by |-> "nobody"]

Init == phase = "open" /\ evidence = {} /\ outcome = NoOutcome

Retrieve(s) ==
    /\ phase = "open"
    /\ evidence' = evidence \cup {s}
    /\ UNCHANGED <<phase, outcome>>

\* Only retrieved results are cited, and nothing but incomplete is concluded
\* from nothing.
Justified(d) ==
    /\ d.cites \cup d.mentions \subseteq evidence
    /\ evidence = {} => d.assessment = "incomplete"

Conclude ==
    /\ phase = "open" /\ phase' = "concluded"
    /\ outcome' \in Diagnoses /\ Justified(outcome')
    /\ UNCHANGED evidence

Abort ==
    /\ phase = "open"
    /\ phase' = "aborted"
    /\ UNCHANGED <<evidence, outcome>>

End == Abort \/ Conclude

Next == End \/ \E s \in Snapshots : Retrieve(s)

Safety == Init /\ [][Next]_<<phase, evidence, outcome>>

Spec == Safety /\ WF_<<phase, evidence, outcome>>(End)
=============================================================================
