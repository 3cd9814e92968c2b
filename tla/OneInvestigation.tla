-------------------------- MODULE OneInvestigation --------------------------
(***************************************************************************)
(* What the investigation API promises whoever posts to it (api.py:56-96): *)
(* investigations are numbered in the order they are accepted; one runs at *)
(* a time; it comes to one end, which says why it is incomplete or missing *)
(* and never changes, or is lost with the process; and it does come to     *)
(* one of the two.  Jobs implements it.                                    *)
(***************************************************************************)
EXTENDS Naturals

CONSTANT MaxPosts  \* bound on the investigations

VARIABLE outcome

Ids == 1..MaxPosts

Entry(status, verdict, error) == [status |-> status, verdict |-> verdict, error |-> error]

\* Not posted yet, running, and lost with the process.
Fresh == Entry("none", "none", "none")
Running == Entry("running", "none", "none")
Lost == Entry("lost", "none", "none")

\* A diagnosis exactly when it is complete, an error exactly when it is not.
Ends == {Entry("complete", "assessed", "none"), Entry("complete", "incomplete", "none"),
         Entry("unavailable", "none", "unavailable"),
         Entry("failed", "none", "time"), Entry("failed", "none", "other")}

Init == outcome = [id \in Ids |-> Fresh]

Accept(id) ==
    /\ \A other \in Ids : outcome[other] # Running
    /\ \A other \in Ids : outcome[other] = Fresh <=> other >= id
    /\ outcome' = [outcome EXCEPT ![id] = Running]

End(id) ==
    /\ outcome[id] = Running
    /\ \E e \in Ends \cup {Lost} : outcome' = [outcome EXCEPT ![id] = e]

Next == \E id \in Ids : Accept(id) \/ End(id)

Safety == Init /\ [][Next]_outcome

Spec == Safety /\ WF_outcome(\E id \in Ids : End(id))
=============================================================================
