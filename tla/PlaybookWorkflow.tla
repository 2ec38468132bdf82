--------------------------- MODULE PlaybookWorkflow -------------------------
(* What the approval-gated SOAR engine promises about a playbook: nothing   *)
(* is executed that was not approved, a decision is taken once, and only an *)
(* executed action is rolled back.  Nothing is promised of a playbook on    *)
(* which two operations overlapped.                                         *)
CONSTANT Playbooks
VARIABLE stage

Init == stage = [p \in Playbooks |-> "none"]

Step(p, from, to) ==
    /\ stage[p] = from
    /\ stage' = [stage EXCEPT ![p] = to]

Recommend(p) == Step(p, "none", "pending_approval")
Decide(p) == Step(p, "pending_approval", "approved")
                \/ Step(p, "pending_approval", "rejected")
Execute(p) == Step(p, "approved", "executed_simulated")
Rollback(p) == Step(p, "executed_simulated", "rolled_back")
Overlap(p) == \E from \in {"pending_approval", "approved", "rejected",
                           "executed_simulated", "rolled_back"} :
                  Step(p, from, "overlapped")

Next ==
    \E p \in Playbooks :
        Recommend(p) \/ Decide(p) \/ Execute(p) \/ Rollback(p) \/ Overlap(p)

Spec == Init /\ [][Next]_stage
=============================================================================
