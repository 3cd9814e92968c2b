------------------------------ MODULE Delivery ------------------------------
(***************************************************************************)
(* What a "best-effort, bounded export" promises of the observations       *)
(* handed to it (TelemetryExporter.java:23): each is stored at most once,  *)
(* and once stored it is never taken back or moved, whatever order they    *)
(* come in (a batch given up on may come last); each that is given up is   *)
(* counted once; and while the export is open, none of them is left with   *)
(* neither.  It is silent on which happens, and both can: an observation   *)
(* counted as lost may have been stored, or be stored later.  Exporter     *)
(* implements it.                                                          *)
(***************************************************************************)
EXTENDS Naturals, FiniteSets, Sequences, SequencesExt

CONSTANT Observations

VARIABLES
    recorded,  \* the observations handed over
    stored,    \* what the receiver has stored, as it came in
    lost,      \* the observations counted as lost
    total,     \* the counter
    open

Init ==
    /\ recorded = {} /\ stored = <<>> /\ lost = {} /\ total = 0
    /\ open = TRUE

Record(o) ==
    /\ o \notin recorded
    /\ recorded' = recorded \cup {o}
    /\ UNCHANGED <<stored, lost, total, open>>

Store ==
    /\ IsPrefix(stored, stored') /\ IsInjective(stored')
    /\ ToSet(stored') \subseteq recorded
    /\ UNCHANGED <<recorded, lost, total, open>>

Lose ==
    /\ lost \subseteq lost' /\ lost' \subseteq recorded
    /\ total' = total + Cardinality(lost' \ lost)
    /\ UNCHANGED <<recorded, stored, open>>

Close ==
    /\ open /\ open' = FALSE
    /\ UNCHANGED <<recorded, stored, lost, total>>

Next == Store \/ Lose \/ Close \/ \E o \in Observations : Record(o)

Safety == Init /\ [][Next]_<<recorded, stored, lost, total, open>>

Settled(o) == o \in lost \cup ToSet(stored)

Settles == \A o \in Observations : (o \in recorded /\ open) ~> (Settled(o) \/ ~open)

Spec == Safety /\ Settles
=============================================================================
