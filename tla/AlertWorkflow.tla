---------------------------- MODULE AlertWorkflow ---------------------------
(* What the analyst repository promises about an alert: it moves from new   *)
(* through in_review to one of two ends, one step at a time, and never back.*)
CONSTANT Alerts
VARIABLE stage

Init == stage = [a \in Alerts |-> "new"]

Step(a, from, to) ==
    /\ stage[a] = from
    /\ stage' = [stage EXCEPT ![a] = to]

Review(a) == Step(a, "new", "in_review")
Close(a) == Step(a, "in_review", "closed")
Escalate(a) == Step(a, "in_review", "escalated")

Next == \E a \in Alerts : Review(a) \/ Close(a) \/ Escalate(a)

Spec == Init /\ [][Next]_stage
=============================================================================
