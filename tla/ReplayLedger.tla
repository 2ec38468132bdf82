----------------------------- MODULE ReplayLedger -----------------------------
(***************************************************************************)
(* What the durable replay journal promises its only caller, without       *)
(* evidence, tokens, generations or correlation ids: a request is claimed  *)
(* at most once, a claim ends at most once, either with one response or    *)
(* as outcome_unknown, and an ended request never changes again.           *)
(***************************************************************************)
CONSTANTS Requests, Responses, NoResponse

VARIABLE ledger

Absent == [state |-> "absent", response |-> NoResponse]
InProgress == [state |-> "in_progress", response |-> NoResponse]
Completed(response) == [state |-> "completed", response |-> response]
OutcomeUnknown == [state |-> "outcome_unknown", response |-> NoResponse]

Entries == {Absent, InProgress, OutcomeUnknown}
               \cup [state : {"completed"}, response : Responses]

Init == ledger = [r \in Requests |-> Absent]

(* claim() returned request_claimed, or committed and then failed. *)
Claim(r) ==
    /\ ledger[r] = Absent
    /\ ledger' = [ledger EXCEPT ![r] = InProgress]

(* complete() committed the response of the active claim. *)
Complete(r, response) ==
    /\ ledger[r] = InProgress
    /\ ledger' = [ledger EXCEPT ![r] = Completed(response)]

(* recover_abandoned_generation() gave up the claims of one generation. *)
Abandon(R) ==
    /\ \A r \in R : ledger[r] = InProgress
    /\ ledger' = [r \in Requests |-> IF r \in R THEN OutcomeUnknown ELSE ledger[r]]

Next ==
    \/ \E r \in Requests : Claim(r)
    \/ \E r \in Requests, response \in Responses : Complete(r, response)
    \/ \E R \in SUBSET Requests : Abandon(R)

Spec == Init /\ [][Next]_ledger
===============================================================================
