---------------------------- MODULE EvidencePipeline ----------------------------
(* The offline pipeline from the registered flows to the model that serves:     *)
(* preflight, split, preprocessing, the baselines, the February and CIC         *)
(* evaluations, the autoencoder and its log1p variant.  Every command verifies  *)
(* the runs it builds on, makes a directory of its own, writes its files one by *)
(* one and its report last.  Commands race for a directory, fail or die between *)
(* two files, and files of finished runs may be altered.                        *)
(*                                                                              *)
(* A file's digest stands for its content.  Of a fitted file the model keeps    *)
(* the flows that had a part in it, of an evaluation the flows it scores.       *)
EXTENDS DevelopmentSplit

CONSTANTS
    Tables,          \* tables of registered flows to start from
    Workers,         \* commands that run at the same time
    Repeated,        \* bound: stages run under a second run id, MaxSecond of them
    Contended,       \* bound: stages two commands race for
    Alterable,       \* bound: stages whose files are altered
    MaxSecond,
    MaxMishaps,      \* bound: commands that die or fail by themselves
    MaxAlterations,  \* bound: files altered after they were written
    None

ASSUME PipelineConfiguration ==
    MaxSecond \in Nat /\ MaxMishaps \in Nat /\ MaxAlterations \in Nat

VARIABLES
    flows,     \* the registered table
    source,    \* whether the raw files still match the manifest
    dirs,      \* the run directories of each stage
    proc,      \* the running commands
    pins,      \* digests the code owns: the runs it was frozen to
    served,    \* what the inference boundary loaded
    faults     \* mishaps and alterations so far

pipelineVars == <<flows, source, dirs, proc, pins, served, faults>>

RunIds == {1, 2}

-----------------------------------------------------------------------------
(* What each command builds on, writes, and fits or scores. *)
PreflightInputs == {}
PreflightFiles == <<"database", "report">>
SplitInputs == {"preflight"}
SplitFiles == <<"assignments", "report">>
PreprocessInputs == {"split", "preflight"}
PreprocessFiles == <<"state", "arrays", "config", "report">>
LogisticInputs == {"preprocess"}
LogisticFiles == <<"config", "model", "report">>
ForestInputs == {"preprocess", "logistic"}
ForestFiles == <<"config", "model", "report">>
FebruaryInputs == {"preprocess", "split", "preflight", "logistic", "forest"}
FebruaryFiles == <<"config", "arrays", "report">>
(* The threshold is on disk before February is looked at. *)
AutoencoderInputs == {"preprocess", "forest", "february"}
AutoencoderSources == <<"provenance">>
AutoencoderFitted == <<"config", "model", "threshold">>
AutoencoderSealed == <<"manifest", "report">>
PrepareInputs == {"preprocess", "split", "preflight"}
PrepareFiles == <<"arrays", "report", "manifest">>
RateInputs == {"prepare", "preprocess", "forest"}
RateFitted == <<"candidate", "config", "model", "threshold">>
RateSealed == <<"manifest", "report">>
CicInputs == {"preprocess", "logistic", "forest"}
CicFiles == <<"config", "arrays", "report">>

Command(inputs, files) == [inputs |-> inputs, files |-> files]
Run ==
    [preflight |-> Command(PreflightInputs, PreflightFiles),
     split |-> Command(SplitInputs, SplitFiles),
     preprocess |-> Command(PreprocessInputs, PreprocessFiles),
     logistic |-> Command(LogisticInputs, LogisticFiles),
     forest |-> Command(ForestInputs, ForestFiles),
     february |-> Command(FebruaryInputs, FebruaryFiles),
     autoencoder |-> Command(AutoencoderInputs, AutoencoderSources \o AutoencoderFitted \o AutoencoderSealed),
     prepare |-> Command(PrepareInputs, PrepareFiles),
     rate |-> Command(RateInputs, RateFitted \o RateSealed),
     cic |-> Command(CicInputs, CicFiles)]

Stages == DOMAIN Run
FilesOf(s) == ToSet(Run[s].files)

(* These two make their directory before they look at their inputs, and remove *)
(* what they wrote when they fail.                                             *)
MakesFirst == {"preflight", "split"}
Removes == [preflight |-> <<"report">>, split |-> <<"assignments", "report">>]

(* Their budget is checked once more after the report is written. *)
PostChecked == {"preflight", "split", "preprocess", "autoencoder"}

NoRun(s) == [made |-> FALSE, files |-> [f \in FilesOf(s) |-> "none"], failure |-> "none",
             ins |-> None, refs |-> None, fit |-> {}, held |-> {}, reports |-> 0]
Idle == [pc |-> "idle"]

Init ==
    /\ flows \in Tables
    /\ source = "registered"
    /\ dirs = [s \in Stages |-> [i \in RunIds |-> NoRun(s)]]
    /\ proc = [w \in Workers |-> Idle]
    /\ pins = None /\ served = None
    /\ faults = [mishaps |-> 0, alterations |-> 0]

-----------------------------------------------------------------------------
(* Verification.  The reports of preflight and split hold no time of day, so two *)
(* runs of them agree; every other report is one of its kind.                    *)
Ref(s, i) == <<IF s \in MakesFirst THEN 0 ELSE i, dirs[s][i].files["report"]>>

Reported(s, i) == dirs[s][i].files["report"] # "none"
Whole(s, i, fs) == \A f \in fs : dirs[s][i].files[f] = "whole"

RegisteredInputs == source = "registered"

PreflightVerified(p) == RegisteredInputs /\ Reported("preflight", p)

(* verify_assignment_evidence: the report, bound to the preflight, and the archive. *)
AssignmentVerified(a, p) ==
    /\ RegisteredInputs
    /\ Reported("split", a) /\ Reported("preflight", p)
    /\ dirs["split"][a].refs["preflight"] = Ref("preflight", p)
    /\ Whole("split", a, {"assignments"})

(* verify_preprocessing_artifacts. *)
PreprocessingVerified(d) ==
    Reported("preprocess", d) /\ Whole("preprocess", d, {"state", "config", "arrays"})

BoundTo(s, m, d) == dirs[s][m].refs["preprocess"] = Ref("preprocess", d)

(* Mutant: the comparison is not tied to the preprocessing. *)
LogisticVerifiedAnyData(l, d) ==
    Reported("logistic", l) /\ Whole("logistic", l, {"config", "model"})

(* load_verified_logistic_comparison. *)
LogisticVerified(l, d) ==
    /\ Reported("logistic", l) /\ Whole("logistic", l, {"config", "model"})
    /\ BoundTo("logistic", l, d)

(* verify_saved_model, for either baseline. *)
SavedModelVerified(s, m, d) ==
    Reported(s, m) /\ Whole(s, m, {"config", "model"}) /\ BoundTo(s, m, d)

Pinned(s, i) == pins # None /\ pins[s] = i /\ Whole(s, i, FilesOf(s))

AutoencoderInputsVerified(d) == PreprocessingVerified(d) /\ Pinned("preprocess", d)

(* verify_february_inputs. *)
FebruaryVerified(v, d, m) ==
    /\ Pinned("february", v) /\ BoundTo("february", v, d)
    /\ dirs["february"][v].refs["forest"][1] = m

(* The forest is the one registered by its model file alone. *)
ForestPinned(m) == pins # None /\ pins["forest"] = m /\ Whole("forest", m, {"model"})

PreparedVerified(q) == Reported("prepare", q) /\ Whole("prepare", q, {"arrays", "report", "manifest"})

(* require_supported_network_compatibility: no CIC representation is reviewed as *)
(* fit for a model of UNSW flows.                                                *)
CompatibleSources == {"unsw"}

Verified(s, ins) ==
    CASE s = "preflight" -> RegisteredInputs
      [] s = "split" -> PreflightVerified(ins["preflight"])
      [] s = "preprocess" -> AssignmentVerified(ins["split"], ins["preflight"])
      [] s = "logistic" -> PreprocessingVerified(ins["preprocess"])
      [] s = "forest" -> /\ PreprocessingVerified(ins["preprocess"])
                         /\ LogisticVerified(ins["logistic"], ins["preprocess"])
      [] s = "february" ->
            /\ PreprocessingVerified(ins["preprocess"])
            /\ AssignmentVerified(ins["split"], ins["preflight"])
            /\ dirs["preprocess"][ins["preprocess"]].refs["split"] = Ref("split", ins["split"])
            /\ \A m \in {"logistic", "forest"} : SavedModelVerified(m, ins[m], ins["preprocess"])
      [] s = "autoencoder" ->
            /\ AutoencoderInputsVerified(ins["preprocess"])
            /\ SavedModelVerified("forest", ins["forest"], ins["preprocess"])
            /\ ForestPinned(ins["forest"])
      [] s = "prepare" -> /\ AutoencoderInputsVerified(ins["preprocess"])
                          /\ AssignmentVerified(ins["split"], ins["preflight"])
      [] s = "rate" ->
            /\ PreparedVerified(ins["prepare"])
            /\ AutoencoderInputsVerified(ins["preprocess"])
            /\ SavedModelVerified("forest", ins["forest"], ins["preprocess"])
            /\ ForestPinned(ins["forest"])
      [] s = "cic" ->
            /\ PreprocessingVerified(ins["preprocess"])
            /\ \A m \in {"logistic", "forest"} : SavedModelVerified(m, ins[m], ins["preprocess"])
            /\ "cic" \in CompatibleSources

-----------------------------------------------------------------------------
(* The flows behind a file. *)
AssignedRows(a, name) == {r \in Rows(flows) : dirs["split"][a].held[r] = name}

(* Mutant: the running statistics take in every development flow. *)
FitRowsDevelopment(s, ins) ==
    CASE s = "preprocess" ->
            AssignedRows(ins["split"], "train") \cup AssignedRows(ins["split"], "validation")
      [] s \in {"logistic", "forest", "autoencoder", "rate"} ->
            dirs["preprocess"][ins["preprocess"]].fit
      [] s = "february" -> dirs["forest"][ins["forest"]].fit
      [] OTHER -> {}

(* _flush_partition_batch: only TRAIN reaches the running statistics; the models *)
(* are fitted on the arrays of TRAIN.                                            *)
FitRows(s, ins) ==
    CASE s = "preprocess" -> AssignedRows(ins["split"], "train")
      [] s \in {"logistic", "forest", "autoencoder", "rate"} ->
            dirs["preprocess"][ins["preprocess"]].fit
      [] s = "february" -> dirs["forest"][ins["forest"]].fit
      [] OTHER -> {}

(* The flows a run scores or keeps to score: the assignment itself for a split. *)
HeldRows(s, ins) ==
    CASE s = "split" -> Assignment(flows)
      [] s = "preprocess" -> AssignedRows(ins["split"], "validation")
      [] s \in {"logistic", "forest", "rate"} -> dirs["preprocess"][ins["preprocess"]].held
      [] s = "february" -> AssignedRows(ins["split"], "test")
      [] s = "autoencoder" -> dirs["february"][ins["february"]].held
      [] OTHER -> {}

FitFile == [preprocess |-> "state", logistic |-> "model", forest |-> "model",
            february |-> "config", autoencoder |-> "model", rate |-> "model"]
HeldFile == [split |-> "assignments", preprocess |-> "arrays", logistic |-> "report",
             forest |-> "report", february |-> "arrays", autoencoder |-> "manifest",
             rate |-> "report"]

-----------------------------------------------------------------------------
(* The commands run. *)
OnlyProc(w, record) ==
    /\ proc' = [proc EXCEPT ![w] = record]
    /\ UNCHANGED <<flows, source, pins, served>>

Seconds == {s \in Stages : dirs[s][2].made}

(* Run id 2 is for a stage whose run 1 exists; commands of different stages   *)
(* write to different directories, so only rivals run at the same time.       *)
Startable(s, i) ==
    /\ i = 2 => s \in Repeated /\ dirs[s][1].made /\ Cardinality(Seconds \ {s}) < MaxSecond
    /\ \A v \in Workers : proc[v] # Idle => proc[v].stage = s /\ s \in Contended

Running(s, i, ins, pc) ==
    [pc |-> pc, stage |-> s, id |-> i, ins |-> ins, refs |-> [q \in DOMAIN ins |-> Ref(q, ins[q])],
     next |-> 1, state |-> "none"]

(* A command whose inputs are refused ends with nothing done. *)
Begin(w, s, i, ins) ==
    /\ s \notin MakesFirst
    /\ Verified(s, ins)
    /\ OnlyProc(w, Running(s, i, ins, "verified"))
    /\ UNCHANGED <<dirs, faults>>

Directory(w) == dirs[proc[w].stage][proc[w].id]
InDirectory(w, run) == dirs' = [dirs EXCEPT ![proc[w].stage][proc[w].id] = run]

NewRun(s, ins, refs) == [NoRun(s) EXCEPT !.made = TRUE, !.ins = ins, !.refs = refs]

(* run_directory.mkdir() succeeds for one command; the other ends. *)
MakeDirectory(w) ==
    /\ proc[w].pc = "verified"
    /\ \/ /\ ~Directory(w).made
          /\ InDirectory(w, NewRun(proc[w].stage, proc[w].ins, proc[w].refs))
          /\ OnlyProc(w, [proc[w] EXCEPT !.pc = "writing",
                 !.state = IF proc[w].stage = "february"
                           THEN dirs["preprocess"][proc[w].ins["preprocess"]].files["state"]
                           ELSE "none"])
       \/ /\ Directory(w).made
          /\ OnlyProc(w, Idle) /\ UNCHANGED dirs
    /\ UNCHANGED faults

(* preflight and split: the directory, then the inputs. *)
MakeFirst(w, s, i, ins) ==
    /\ s \in MakesFirst
    /\ ~dirs[s][i].made
    /\ dirs' = [dirs EXCEPT ![s][i] = NewRun(s, ins, [q \in DOMAIN ins |-> Ref(q, ins[q])])]
    /\ OnlyProc(w, Running(s, i, ins, IF Verified(s, ins) THEN "writing" ELSE "failing"))
    /\ UNCHANGED faults

NextFile(w) == Run[proc[w].stage].files[proc[w].next]

(* What must hold for a file to be written: the assignment is acceptable; the  *)
(* preprocessor did not change under an evaluation; February is as pinned      *)
(* before the autoencoder is sealed.                                           *)
Ready(w) ==
    LET s == proc[w].stage
        ins == proc[w].ins
    IN /\ s = "split" => Acceptable(Assignment(flows))
       /\ s = "february" /\ NextFile(w) = "arrays" =>
              dirs["preprocess"][ins["preprocess"]].files["state"] = proc[w].state
       /\ s = "autoencoder" /\ NextFile(w) = "manifest" =>
              FebruaryVerified(ins["february"], ins["preprocess"], ins["forest"])

Writing(w) == proc[w].pc = "writing" /\ proc[w].next <= Len(Run[proc[w].stage].files)

WriteFile(w) ==
    LET s == proc[w].stage
        f == NextFile(w)
        d == Directory(w)
        has(table) == s \in DOMAIN table /\ table[s] = f
    IN /\ Writing(w) /\ Ready(w)
       /\ InDirectory(w, [d EXCEPT !.files[f] = "whole",
              !.fit = IF has(FitFile) THEN FitRows(s, proc[w].ins) ELSE @,
              !.held = IF has(HeldFile) THEN HeldRows(s, proc[w].ins) ELSE @,
              !.refs = IF s = "autoencoder" /\ f = "manifest"
                       THEN [@ EXCEPT !["february"] = Ref("february", proc[w].ins["february"])]
                       ELSE @,
              !.reports = IF f = "report" THEN @ + 1 ELSE @])
       /\ OnlyProc(w, [proc[w] EXCEPT !.next = @ + 1])
       /\ UNCHANGED faults

Return(w) ==
    /\ proc[w].pc = "writing" /\ proc[w].next > Len(Run[proc[w].stage].files)
    /\ OnlyProc(w, Idle) /\ UNCHANGED <<dirs, faults>>

(* An exception: of the data (~Ready), or of its own accord (budget, disk, reload). *)
Fails(w) ==
    /\ proc[w].pc = "writing"
    /\ Writing(w) \/ proc[w].stage \in PostChecked
    /\ \/ /\ Writing(w) /\ ~Ready(w) /\ UNCHANGED faults
       \/ /\ faults.mishaps < MaxMishaps
          /\ faults' = [faults EXCEPT !.mishaps = @ + 1]
    /\ OnlyProc(w, [proc[w] EXCEPT !.pc = "failing", !.next =
                        IF proc[w].stage \in MakesFirst THEN 1 ELSE @])
    /\ UNCHANGED dirs

(* The handler removes the published files one by one ... *)
Unlink(w) ==
    /\ proc[w].pc = "failing" /\ proc[w].stage \in MakesFirst
    /\ proc[w].next <= Len(Removes[proc[w].stage])
    /\ InDirectory(w, [Directory(w) EXCEPT !.files[Removes[proc[w].stage][proc[w].next]] = "none"])
    /\ OnlyProc(w, [proc[w] EXCEPT !.next = @ + 1])
    /\ UNCHANGED faults

(* ... and writes the failure file.  A forest that was dumped may have failed its *)
(* exact reload.                                                                  *)
FailureWritten(w) ==
    /\ proc[w].pc = "failing"
    /\ proc[w].stage \in MakesFirst => proc[w].next > Len(Removes[proc[w].stage])
    /\ \E code \in {"failed"} \cup
            (IF proc[w].stage = "forest" /\ Directory(w).files["model"] # "none"
             THEN {"reload_mismatch"} ELSE {}) :
          InDirectory(w, [Directory(w) EXCEPT !.failure = code])
    /\ OnlyProc(w, Idle)
    /\ UNCHANGED faults

Crash(w) ==
    /\ proc[w] # Idle /\ faults.mishaps < MaxMishaps
    /\ faults' = [faults EXCEPT !.mishaps = @ + 1]
    /\ OnlyProc(w, Idle) /\ UNCHANGED dirs

-----------------------------------------------------------------------------
(* finalize_fitted_random_forest_run: a forest that only failed its exact reload *)
(* is reported after all, without a new fit.  Its model file has no digest yet:  *)
(* it need only be there and load.                                               *)
FinalizeBegins(w, i, ins) ==
    /\ proc[w] = Idle
    /\ \A v \in Workers : proc[v] # Idle => proc[v].stage = "forest"
    /\ dirs["forest"][i].failure = "reload_mismatch" /\ ~Reported("forest", i)
    /\ Verified("forest", ins)
    /\ dirs["forest"][i].files["config"] = "whole" /\ BoundTo("forest", i, ins["preprocess"])
    /\ dirs["forest"][i].files["model"] # "none"
    /\ OnlyProc(w, Running("forest", i, ins, "finalizing"))
    /\ UNCHANGED <<dirs, faults>>

(* The failure file is renamed; a second finalizer finds none and dies. *)
FailureRenamed(w) ==
    /\ proc[w].pc = "finalizing"
    /\ \/ /\ Directory(w).failure = "reload_mismatch"
          /\ InDirectory(w, [Directory(w) EXCEPT !.failure = "renamed"])
          /\ OnlyProc(w, [proc[w] EXCEPT !.pc = "writing", !.next = Len(ForestFiles)])
       \/ /\ Directory(w).failure # "reload_mismatch"
          /\ OnlyProc(w, Idle) /\ UNCHANGED dirs
    /\ UNCHANGED faults

-----------------------------------------------------------------------------
(* A commit freezes the digests of finished runs into the code. *)
FrozenStages == {"preprocess", "logistic", "forest", "february"}

(* Unfrozen is not a choice of runs. *)
ASSUME PinsAreNotNone ==
    None \notin [FrozenStages -> RunIds] \cup [FrozenStages \cup {"autoencoder"} -> RunIds]

Pin(choice) ==
    /\ pins = None
    /\ \A s \in FrozenStages : Whole(s, choice[s], FilesOf(s))
    /\ pins' = choice
    /\ UNCHANGED <<flows, source, dirs, proc, served, faults>>

(* _FrozenNetworkPredictor: all nine files, read once, before anything is loaded. *)
PredictorLoaded(d, l, m) ==
    /\ served = None
    /\ Pinned("preprocess", d) /\ Pinned("logistic", l) /\ Pinned("forest", m)
    /\ BoundTo("logistic", l, d) /\ BoundTo("forest", m, d)
    /\ served' = [preprocess |-> d, logistic |-> l, forest |-> m, detector |-> 0]
    /\ UNCHANGED <<flows, source, dirs, proc, pins, faults>>

(* V2_TRUSTED_BUNDLE: a later commit freezes a finished autoencoder. *)
BundleTrusted(i) ==
    /\ pins # None /\ "autoencoder" \notin DOMAIN pins
    /\ Whole("autoencoder", i, FilesOf("autoencoder"))
    /\ pins' = [s \in DOMAIN pins \cup {"autoencoder"} |-> IF s = "autoencoder" THEN i ELSE pins[s]]
    /\ UNCHANGED <<flows, source, dirs, proc, served, faults>>

SourceProvenanceVerified(i) == Whole("autoencoder", i, ToSet(AutoencoderSources))

(* The five digests, and the preprocessing its configuration names. *)
BundleVerified(i) ==
    /\ pins["autoencoder"] = i
    /\ Whole("autoencoder", i, ToSet(AutoencoderFitted \o AutoencoderSealed))
    /\ dirs["autoencoder"][i].refs["preprocess"] = <<pins["preprocess"], "whole">>

(* _load_verified_autoencoder_detector, beside the predictor. *)
DetectorLoaded(i) ==
    /\ served # None /\ served.detector = 0
    /\ "autoencoder" \in DOMAIN pins
    /\ BundleVerified(i) /\ SourceProvenanceVerified(i)
    /\ served' = [served EXCEPT !.detector = i]
    /\ UNCHANGED <<flows, source, dirs, proc, pins, faults>>

(* Something else writes to a file of a run that has its report. *)
Alter(s, i, f) ==
    /\ faults.alterations < MaxAlterations /\ s \in Alterable /\ Reported(s, i)
    /\ dirs[s][i].files[f] = "whole"
    /\ dirs' = [dirs EXCEPT ![s][i].files[f] = "altered"]
    /\ faults' = [faults EXCEPT !.alterations = @ + 1]
    /\ UNCHANGED <<flows, source, proc, pins, served>>

AlterSource ==
    /\ faults.alterations < MaxAlterations /\ source = "registered"
    /\ source' = "altered"
    /\ faults' = [faults EXCEPT !.alterations = @ + 1]
    /\ UNCHANGED <<flows, dirs, proc, pins, served>>

InputChoices(s) == [Run[s].inputs -> RunIds]

Next ==
    \/ \E w \in Workers :
          \/ \E s \in Stages, i \in RunIds :
                /\ proc[w] = Idle /\ Startable(s, i)
                /\ \E ins \in InputChoices(s) : Begin(w, s, i, ins) \/ MakeFirst(w, s, i, ins)
          \/ proc[w] # Idle /\ (\/ MakeDirectory(w) \/ WriteFile(w) \/ Return(w) \/ Fails(w)
                                \/ Unlink(w) \/ FailureWritten(w) \/ FailureRenamed(w))
          \/ Crash(w)
          \/ \E i \in RunIds, ins \in InputChoices("forest") : FinalizeBegins(w, i, ins)
    \/ \E choice \in [FrozenStages -> RunIds] : Pin(choice)
    \/ \E d, l, m \in RunIds : PredictorLoaded(d, l, m)
    \/ \E i \in RunIds : BundleTrusted(i) \/ DetectorLoaded(i)
    \/ \E s \in Stages : \E i \in RunIds, f \in FilesOf(s) : Alter(s, i, f)
    \/ AlterSource

Spec == Init /\ [][Next]_pipelineVars

-----------------------------------------------------------------------------
(* Every flow goes where the transitive closure of "same source row or           *)
(* overlapping with the same endpoints" sends it, the group named by its         *)
(* smallest ordinal: what the sweep and the union-find of                        *)
(* unsw_development_split compute.                                               *)
AssignmentAsPromised ==
    \A i \in RunIds : dirs["split"][i].files["assignments"] # "none" =>
        dirs["split"][i].held = PromisedAssignment(flows)

(* No flow that had a part in a fit is linked, through any chain of flows, to a  *)
(* flow the run scores: TRAIN against VALIDATION for the baselines, both against *)
(* February for the autoencoder whose threshold VALIDATION calibrates.           *)
HeldOut ==
    LET components == Components(flows)
    IN \A s \in DOMAIN FitFile, i \in RunIds :
          LET d == dirs[s][i]
              calibration == IF s = "autoencoder" /\ d.held # {}
                             THEN dirs["preprocess"][d.ins["preprocess"]].held ELSE {}
          IN d.held # {} =>
                \A c \in components : c \cap d.held = {} \/ c \cap (d.fit \cup calibration) = {}

(* Whatever a finished run was built on was itself built on the same data: two   *)
(* ways to an ancestor name one digest.  The same for the predictor that serves  *)
(* and for the detector loaded beside it.                                        *)
OneLineage ==
    /\ \A s \in {"forest", "february", "autoencoder"}, i \in RunIds :
          Reported(s, i) =>
              LET d == dirs[s][i]
              IN \A m \in Run[s].inputs : "preprocess" \in Run[m].inputs =>
                    dirs[m][d.ins[m]].refs["preprocess"] = d.refs["preprocess"]
    /\ served # None =>
          LET built(m, i) == dirs[m][i].refs["preprocess"] = <<served.preprocess, "whole">>
          IN /\ \A m \in {"logistic", "forest"} : built(m, served[m])
             /\ served.detector # 0 => built("autoencoder", served.detector)

(* A directory is reported at most once, by one command, however many race for   *)
(* its name or finalize it.                                                      *)
ReportedOnce == \A s \in Stages, i \in RunIds : dirs[s][i].reports <= 1
=============================================================================
