---------------------------- MODULE FeedbackLedger ----------------------------
(* The offline retraining feedback ledger beside the frozen models: a database   *)
(* made on first use without a lock between looking for it and creating it, and  *)
(* rows written between two verifications of the forest and the autoencoder.     *)
EXTENDS ResidualAudit

CONSTANTS
    Recorders,       \* processes that record feedback at the same time
    MaxDrift         \* bound: changes of a frozen model while feedback is recorded

Outcomes == {"confirmed_threat", "false_positive"}

ASSUME FeedbackConfiguration == MaxDrift \in Nat /\ None \notin Outcomes

VARIABLE feedback    \* the file, its rows, what was answered, what each recorder does

(* One transition_request_id; a row is what it was recorded with. *)
NoFeedback ==
    [file |-> "none", row |-> None, created |-> {}, existing |-> {}, drift |-> 0,
     runs |-> [r \in Recorders |-> Idle]]

FeedbackInit == AuditInit /\ feedback = NoFeedback

InRun(r, run) == [feedback EXCEPT !.runs[r] = run]
Step(r, pc) == feedback' = [feedback EXCEPT !.runs[r].pc = pc] /\ UNCHANGED <<pipelineVars, audit>>
Raises(r) == feedback' = InRun(r, Idle) /\ UNCHANGED <<pipelineVars, audit>>

(* _initialize: lstat decides between creating and verifying ... *)
LedgerLookedFor(r, outcome) ==
    /\ feedback.runs[r] = Idle
    /\ pins # None /\ "autoencoder" \in DOMAIN pins
    /\ feedback' = InRun(r, [pc |-> IF feedback.file = "none" THEN "connect" ELSE "schema",
                             outcome |-> outcome, drift |-> 0])
    /\ UNCHANGED <<pipelineVars, audit>>

(* ... and connecting makes an empty file. *)
LedgerConnected(r) ==
    /\ feedback.runs[r].pc = "connect"
    /\ feedback' = [feedback EXCEPT !.runs[r].pc = "create",
                                    !.file = IF @ = "none" THEN "empty" ELSE @]
    /\ UNCHANGED <<pipelineVars, audit>>

(* One exclusive transaction.  The second of two creators breaks the key of the  *)
(* metadata row and reports a corrupt ledger.                                    *)
LedgerCreated(r) ==
    /\ feedback.runs[r].pc = "create"
    /\ IF feedback.file = "empty"
       THEN /\ feedback' = [feedback EXCEPT !.file = "ledger", !.runs[r].pc = "opened"]
            /\ UNCHANGED <<pipelineVars, audit>>
       ELSE Raises(r)

(* An empty file has no metadata: corrupt, for as long as it stays. *)
SchemaVerified(r) ==
    /\ feedback.runs[r].pc = "schema"
    /\ IF feedback.file = "ledger" THEN Step(r, "opened") ELSE Raises(r)

-----------------------------------------------------------------------------
(* How often something else than the pipeline wrote to a file, so far. *)
Changes == feedback.drift + faults.alterations

FrozenModel(s) == dirs[s][pins[s]].files["model"] = "whole"

(* verify_frozen_models_unmodified: the forest, then the autoencoder, before the *)
(* row and after it.                                                             *)
Checked == [opened |-> "forest", forest_seen |-> "autoencoder",
            stored |-> "forest", forest_again |-> "autoencoder"]
Passed == [opened |-> "forest_seen", forest_seen |-> "insert",
           stored |-> "forest_again", forest_again |-> "created"]

FrozenModelVerified(r) ==
    LET run == feedback.runs[r]
    IN /\ run.pc \in DOMAIN Checked
       /\ IF FrozenModel(Checked[run.pc])
          THEN /\ feedback' = InRun(r, [run EXCEPT !.pc = Passed[run.pc],
                                 !.drift = IF run.pc = "opened" THEN Changes ELSE @])
               /\ UNCHANGED <<pipelineVars, audit>>
          ELSE Raises(r)

(* Mutant: INSERT OR REPLACE, with nothing looked up. *)
FeedbackReplaced(r) ==
    /\ feedback.runs[r].pc = "insert"
    /\ feedback' = [feedback EXCEPT !.row = feedback.runs[r].outcome, !.runs[r].pc = "stored"]
    /\ UNCHANGED <<pipelineVars, audit>>

(* BEGIN IMMEDIATE to COMMIT of record_feedback: a repeated request is answered  *)
(* with the row there is, a different one under the same id is refused.          *)
FeedbackStored(r) ==
    LET outcome == feedback.runs[r].outcome
    IN /\ feedback.runs[r].pc = "insert"
       /\ feedback' =
             IF feedback.row = None
             THEN [feedback EXCEPT !.row = outcome, !.runs[r].pc = "stored"]
             ELSE [InRun(r, Idle) EXCEPT
                     !.existing = IF feedback.row = outcome THEN @ \cup {outcome} ELSE @]
       /\ UNCHANGED <<pipelineVars, audit>>

FeedbackAnswered(r) ==
    /\ feedback.runs[r].pc = "created"
    /\ feedback' = [InRun(r, Idle) EXCEPT !.created = @ \cup {<<r, feedback.runs[r].outcome>>}]
    /\ UNCHANGED <<pipelineVars, audit>>

(* The process ends, or the database refuses: for the ledger it is the same. *)
RecorderDies(r) ==
    /\ feedback.runs[r] # Idle /\ faults.mishaps < MaxMishaps
    /\ faults' = [faults EXCEPT !.mishaps = @ + 1]
    /\ feedback' = InRun(r, Idle)
    /\ UNCHANGED <<flows, source, dirs, proc, pins, served, audit>>

(* Somebody changes a frozen model, or puts it back. *)
FrozenModelDrifts(s) ==
    /\ feedback # NoFeedback /\ feedback.drift < MaxDrift
    /\ dirs' = [dirs EXCEPT ![s][pins[s]].files["model"] = IF @ = "whole" THEN "altered" ELSE "whole"]
    /\ feedback' = [feedback EXCEPT !.drift = @ + 1]
    /\ UNCHANGED <<flows, source, proc, pins, served, faults, audit>>

FeedbackNext ==
    \/ AuditNext /\ UNCHANGED feedback
    \/ \E r \in Recorders :
          \/ \E outcome \in Outcomes : LedgerLookedFor(r, outcome)
          \/ LedgerConnected(r) \/ LedgerCreated(r) \/ SchemaVerified(r)
          \/ FrozenModelVerified(r) \/ FeedbackStored(r) \/ FeedbackAnswered(r) \/ RecorderDies(r)
    \/ \E s \in {"forest", "autoencoder"} : FrozenModelDrifts(s)

FeedbackSpec == FeedbackInit /\ [][FeedbackNext]_<<pipelineVars, audit, feedback>>

-----------------------------------------------------------------------------
(* Whoever was told that feedback is stored, now or already, finds it as it was  *)
(* recorded, and one recorder at most was told that it created it; feedback that *)
(* is about to be reported as created was stored beside models that were whole   *)
(* before and after, unless they changed meanwhile; and only a creator that died *)
(* leaves a ledger nobody can open.                                              *)
FeedbackSound ==
    /\ \A told \in feedback.created : told[2] = feedback.row
    /\ Cardinality(feedback.created) <= 1
    /\ feedback.existing \subseteq {feedback.row}
    /\ \A r \in Recorders : feedback.runs[r].pc = "created" =>
          /\ feedback.row = feedback.runs[r].outcome
          /\ Changes = feedback.runs[r].drift => FrozenModel("forest") /\ FrozenModel("autoencoder")
    /\ feedback.file = "empty" =>
          faults.mishaps > 0 \/ \E r \in Recorders : feedback.runs[r].pc = "create"
    /\ feedback.row # None => feedback.file = "ledger"
=============================================================================
