----------------------------- MODULE ResidualAudit -----------------------------
(* The residual audit of a trusted autoencoder beside the forest, on top of the  *)
(* pipeline.  Its calculation is kept in a recovery file before anything is      *)
(* published, so that an audit that dies is published later without the models;  *)
(* its output appears by one rename.                                             *)
EXTENDS EvidencePipeline

CONSTANT Auditors        \* audits that run at the same time

(* The report is an aggregate of these three; the recovery file binds it. *)
AuditReports == [preprocess : RunIds, forest : RunIds, autoencoder : RunIds]
RecoveryFiles == [report : AuditReports, whole : BOOLEAN]

ASSUME NoReportIsNone == None \notin AuditReports \cup RecoveryFiles

VARIABLE audit           \* the recovery file, the output, what each auditor does

NoAudit == [recovery |-> None, output |-> None, published |-> 0,
            runs |-> [a \in Auditors |-> Idle]]

AuditInit == Init /\ audit = NoAudit

RunIs(a, pc, report) == [audit EXCEPT !.runs[a] = [pc |-> pc, report |-> report]]

(* verify_january_inputs: the frozen preprocessing, and the arrays its report names. *)
JanuaryInputsVerified(d) == pins["preprocess"] = d /\ Whole("preprocess", d, FilesOf("preprocess"))

(* No recovery file and no output: everything is verified and calculated. *)
AuditCalculated(a, d, m, i) ==
    /\ audit.runs[a] = Idle /\ audit.recovery = None /\ audit.output = None
    /\ pins # None /\ "autoencoder" \in DOMAIN pins
    /\ JanuaryInputsVerified(d)
    /\ BundleVerified(i) /\ SourceProvenanceVerified(i)
    /\ SavedModelVerified("forest", m, d)
    /\ audit' = RunIs(a, "calculated", [preprocess |-> d, forest |-> m, autoencoder |-> i])
    /\ UNCHANGED pipelineVars

(* _load_recovery: its own digest must hold; the models are not looked at. *)
RecoveryLoaded(a) ==
    /\ audit.runs[a] = Idle /\ audit.recovery # None
    /\ audit.recovery.whole
    /\ audit' = RunIs(a, "calculated", audit.recovery.report)
    /\ UNCHANGED pipelineVars

(* publish_aggregates: nothing if there is an output, else the recovery file ... *)
RecoveryWritten(a) ==
    /\ audit.runs[a].pc = "calculated"
    /\ audit' = IF audit.output # None
                THEN [audit EXCEPT !.runs[a] = Idle]
                ELSE [RunIs(a, "publishing", audit.runs[a].report) EXCEPT
                        !.recovery = [report |-> audit.runs[a].report, whole |-> TRUE]]
    /\ UNCHANGED pipelineVars

(* Mutant: an output that is there is replaced. *)
AuditPublishedOver(a) ==
    /\ audit.runs[a].pc = "publishing"
    /\ audit' = [audit EXCEPT !.runs[a] = Idle, !.output = audit.runs[a].report,
                              !.published = @ + 1]
    /\ UNCHANGED pipelineVars

(* ... and the finished directory renamed; a directory that is there stays. *)
AuditPublished(a) ==
    /\ audit.runs[a].pc = "publishing"
    /\ audit' = IF audit.output # None
                THEN [audit EXCEPT !.runs[a] = Idle]
                ELSE [audit EXCEPT !.runs[a] = Idle, !.output = audit.runs[a].report,
                                   !.published = @ + 1]
    /\ UNCHANGED pipelineVars

(* Memory, time, disk, or the process itself. *)
AuditDies(a) ==
    /\ audit.runs[a] # Idle /\ faults.mishaps < MaxMishaps
    /\ faults' = [faults EXCEPT !.mishaps = @ + 1]
    /\ audit' = [audit EXCEPT !.runs[a] = Idle]
    /\ UNCHANGED <<flows, source, dirs, proc, pins, served>>

AlterRecovery ==
    /\ faults.alterations < MaxAlterations
    /\ audit.recovery # None
    /\ audit.recovery.whole
    /\ audit' = [audit EXCEPT !.recovery.whole = FALSE]
    /\ faults' = [faults EXCEPT !.alterations = @ + 1]
    /\ UNCHANGED <<flows, source, dirs, proc, pins, served>>

AuditNext ==
    \/ UNCHANGED audit /\ Next
    \/ \E a \in Auditors :
          \/ \E d, m, i \in RunIds : AuditCalculated(a, d, m, i)
          \/ RecoveryLoaded(a) \/ RecoveryWritten(a) \/ AuditPublished(a) \/ AuditDies(a)
    \/ AlterRecovery

AuditedSpec == AuditInit /\ [][AuditNext]_<<pipelineVars, audit>>

(* The audit is published at most once, with its recovery file beside it, and    *)
(* names a forest and an autoencoder of one preprocessing: however many audits   *)
(* ran, died or resumed from what another of them had calculated.                *)
AuditPublishedOnce ==
    /\ audit.published <= 1
    /\ audit.output # None =>
          /\ audit.recovery # None
          /\ \A m \in {"forest", "autoencoder"} :
                dirs[m][audit.output[m]].refs["preprocess"] = <<audit.output.preprocess, "whole">>

(* Nothing of the pipeline is reported or published twice. *)
PublishedOnce == ReportedOnce /\ AuditPublishedOnce
=============================================================================
