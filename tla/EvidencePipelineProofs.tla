----------------------- MODULE EvidencePipelineProofs -----------------------
(* Theorems about the offline pipeline, its audit and its feedback ledger, for   *)
(* every table of flows, any number of commands, auditors and recorders that run *)
(* at the same time, and any number of mishaps and alterations.                  *)
(*                                                                               *)
(* Commands share no lock: what keeps them apart is that a directory is made     *)
(* once (WritersTrue).  What a command verified may be altered while it runs,    *)
(* but the digests it took at the start stay in its report (LineageTrue), and    *)
(* the flows behind a file are fixed with the file (DataTrue).                   *)
EXTENDS FeedbackLedger, FiniteSetTheorems, SequenceTheorems, TLAPS

-----------------------------------------------------------------------------
(* What the commands are. *)
LEMMA StagesAre ==
    Stages = {"preflight", "split", "preprocess", "logistic", "forest", "february",
              "autoencoder", "prepare", "rate", "cic"}
  BY DEF Stages, Run

LEMMA InputsAre ==
    /\ Run["preflight"].inputs = {} /\ Run["split"].inputs = {"preflight"}
    /\ Run["preprocess"].inputs = {"split", "preflight"}
    /\ Run["logistic"].inputs = {"preprocess"}
    /\ Run["forest"].inputs = {"preprocess", "logistic"}
    /\ Run["february"].inputs = {"preprocess", "split", "preflight", "logistic", "forest"}
    /\ Run["autoencoder"].inputs = {"preprocess", "forest", "february"}
    /\ Run["prepare"].inputs = {"preprocess", "split", "preflight"}
    /\ Run["rate"].inputs = {"prepare", "preprocess", "forest"}
    /\ Run["cic"].inputs = {"preprocess", "logistic", "forest"}
  BY DEF Run, Command, PreflightInputs, SplitInputs, PreprocessInputs, LogisticInputs,
         ForestInputs, FebruaryInputs, AutoencoderInputs, PrepareInputs, RateInputs, CicInputs

AutoencoderFiles == <<"provenance", "config", "model", "threshold", "manifest", "report">>
RateFiles == <<"candidate", "config", "model", "threshold", "manifest", "report">>

LEMMA OneAndThree ==
    ASSUME NEW S, NEW a \in S, NEW b \in S, NEW c \in S, NEW d \in S
    PROVE  <<a>> \o <<b, c, d>> = <<a, b, c, d>>
  <1>1. PICK s, t, u : s = <<a>> /\ t = <<b, c, d>> /\ u = <<a, b, c, d>>
    OBVIOUS
  <1>2. s \in Seq(S) /\ Len(s) = 1 /\ s[1] = a
    BY <1>1
  <1>3. t \in Seq(S) /\ Len(t) = 3 /\ t[1] = b /\ t[2] = c /\ t[3] = d
    BY <1>1
  <1>4. u \in Seq(S) /\ Len(u) = 4 /\ u[1] = a /\ u[2] = b /\ u[3] = c /\ u[4] = d
    BY <1>1
  <1>5. /\ s \o t \in Seq(S) /\ Len(s \o t) = Len(s) + Len(t)
        /\ \A i \in 1 .. Len(s) + Len(t) :
              (s \o t)[i] = IF i <= Len(s) THEN s[i] ELSE t[i - Len(s)]
    BY ONLY <1>2, <1>3, ConcatProperties
  <1>6. Len(s \o t) = 4 /\ \A i \in 1 .. 4 : (s \o t)[i] = IF i <= 1 THEN s[i] ELSE t[i - 1]
    BY ONLY <1>2, <1>3, <1>5
  <1>7. \A i \in 1 .. 4 : (s \o t)[i] = u[i]
    <2>1. (s \o t)[1] = a
      BY ONLY <1>2, <1>3, <1>6
    <2>2. (s \o t)[2] = b
      BY ONLY <1>2, <1>3, <1>6
    <2>3. (s \o t)[3] = c
      BY ONLY <1>2, <1>3, <1>6
    <2>4. (s \o t)[4] = d
      BY ONLY <1>2, <1>3, <1>6
    <2>5. ASSUME NEW i \in 1 .. 4 PROVE i = 1 \/ i = 2 \/ i = 3 \/ i = 4
      OBVIOUS
    <2> QED BY ONLY <1>4, <2>5, <2>1, <2>2, <2>3, <2>4
  <1>8. s \o t = u
    BY ONLY <1>4, <1>5, <1>6, <1>7, SeqEqual
  <1> QED BY <1>1, <1>8

LEMMA FourAndTwo ==
    ASSUME NEW S, NEW a \in S, NEW b \in S, NEW c \in S, NEW d \in S, NEW e \in S, NEW f \in S
    PROVE  <<a, b, c, d>> \o <<e, f>> = <<a, b, c, d, e, f>>
  <1>1. PICK s, t, u : s = <<a, b, c, d>> /\ t = <<e, f>> /\ u = <<a, b, c, d, e, f>>
    OBVIOUS
  <1>2. s \in Seq(S) /\ Len(s) = 4 /\ s[1] = a /\ s[2] = b /\ s[3] = c /\ s[4] = d
    BY <1>1
  <1>3. t \in Seq(S) /\ Len(t) = 2 /\ t[1] = e /\ t[2] = f
    BY <1>1
  <1>4. /\ u \in Seq(S) /\ Len(u) = 6
        /\ u[1] = a /\ u[2] = b /\ u[3] = c /\ u[4] = d /\ u[5] = e /\ u[6] = f
    BY <1>1
  <1>5. /\ s \o t \in Seq(S) /\ Len(s \o t) = Len(s) + Len(t)
        /\ \A i \in 1 .. Len(s) + Len(t) :
              (s \o t)[i] = IF i <= Len(s) THEN s[i] ELSE t[i - Len(s)]
    BY ONLY <1>2, <1>3, ConcatProperties
  <1>6. Len(s \o t) = 6 /\ \A i \in 1 .. 6 : (s \o t)[i] = IF i <= 4 THEN s[i] ELSE t[i - 4]
    BY ONLY <1>2, <1>3, <1>5
  <1>7. \A i \in 1 .. 6 : (s \o t)[i] = u[i]
    <2>1. (s \o t)[1] = a
      BY ONLY <1>2, <1>3, <1>6
    <2>2. (s \o t)[2] = b
      BY ONLY <1>2, <1>3, <1>6
    <2>3. (s \o t)[3] = c
      BY ONLY <1>2, <1>3, <1>6
    <2>4. (s \o t)[4] = d
      BY ONLY <1>2, <1>3, <1>6
    <2>5. (s \o t)[5] = e
      BY ONLY <1>2, <1>3, <1>6
    <2>6. (s \o t)[6] = f
      BY ONLY <1>2, <1>3, <1>6
    <2>7. ASSUME NEW i \in 1 .. 6 PROVE i = 1 \/ i = 2 \/ i = 3 \/ i = 4 \/ i = 5 \/ i = 6
      OBVIOUS
    <2> QED BY ONLY <1>4, <2>7, <2>1, <2>2, <2>3, <2>4, <2>5, <2>6
  <1>8. s \o t = u
    BY ONLY <1>4, <1>5, <1>6, <1>7, SeqEqual
  <1> QED BY <1>1, <1>8

LEMMA JoinedFiles ==
    /\ AutoencoderSources \o AutoencoderFitted \o AutoencoderSealed = AutoencoderFiles
    /\ RateFitted \o RateSealed = RateFiles
  <1>0. PICK S : /\ "provenance" \in S /\ "candidate" \in S /\ "config" \in S /\ "model" \in S
                 /\ "threshold" \in S /\ "manifest" \in S /\ "report" \in S
    <2> WITNESS {"provenance", "candidate", "config", "model", "threshold", "manifest", "report"}
    <2> QED OBVIOUS
  <1>1. <<"provenance">> \o <<"config", "model", "threshold">> =
            <<"provenance", "config", "model", "threshold">>
    BY <1>0, OneAndThree
  <1>2. <<"provenance", "config", "model", "threshold">> \o <<"manifest", "report">> = AutoencoderFiles
    BY <1>0, FourAndTwo DEF AutoencoderFiles
  <1>3. <<"candidate", "config", "model", "threshold">> \o <<"manifest", "report">> = RateFiles
    BY <1>0, FourAndTwo DEF RateFiles
  <1> QED BY <1>1, <1>2, <1>3
             DEF AutoencoderSources, AutoencoderFitted, AutoencoderSealed, RateFitted, RateSealed

LEMMA FilesAre ==
    /\ Run["preflight"].files = PreflightFiles /\ Run["split"].files = SplitFiles
    /\ Run["preprocess"].files = PreprocessFiles /\ Run["logistic"].files = LogisticFiles
    /\ Run["forest"].files = ForestFiles /\ Run["february"].files = FebruaryFiles
    /\ Run["autoencoder"].files = AutoencoderFiles /\ Run["prepare"].files = PrepareFiles
    /\ Run["rate"].files = RateFiles /\ Run["cic"].files = CicFiles
  BY JoinedFiles DEF Run, Command

(* Every command writes one report. *)
ReportPlace ==
    [preflight |-> 2, split |-> 2, preprocess |-> 4, logistic |-> 3, forest |-> 3,
     february |-> 3, autoencoder |-> 6, prepare |-> 2, rate |-> 6, cic |-> 3]

LEMMA TwoFiles ==
    ASSUME NEW fs \in {PreflightFiles, SplitFiles}
    PROVE  Len(fs) = 2 /\ \A k \in 1 .. 2 : fs[k] = "report" <=> k = 2
  BY DEF PreflightFiles, SplitFiles

LEMMA ThreeFiles ==
    ASSUME NEW fs \in {LogisticFiles, ForestFiles, FebruaryFiles, CicFiles}
    PROVE  Len(fs) = 3 /\ \A k \in 1 .. 3 : fs[k] = "report" <=> k = 3
  <1>1. LogisticFiles = ForestFiles /\ FebruaryFiles = CicFiles
    BY DEF LogisticFiles, ForestFiles, FebruaryFiles, CicFiles
  <1>2. Len(ForestFiles) = 3 /\ \A k \in 1 .. 3 : ForestFiles[k] = "report" <=> k = 3
    BY DEF ForestFiles
  <1>3. Len(CicFiles) = 3 /\ \A k \in 1 .. 3 : CicFiles[k] = "report" <=> k = 3
    BY DEF CicFiles
  <1> QED BY <1>1, <1>2, <1>3

LEMMA OtherFiles ==
    /\ Len(PreprocessFiles) = 4 /\ \A k \in 1 .. 4 : PreprocessFiles[k] = "report" <=> k = 4
    /\ Len(PrepareFiles) = 3 /\ \A k \in 1 .. 3 : PrepareFiles[k] = "report" <=> k = 2
    /\ Len(AutoencoderFiles) = 6 /\ \A k \in 1 .. 6 : AutoencoderFiles[k] = "report" <=> k = 6
    /\ Len(RateFiles) = 6 /\ \A k \in 1 .. 6 : RateFiles[k] = "report" <=> k = 6
  <1>1. Len(PreprocessFiles) = 4 /\ \A k \in 1 .. 4 : PreprocessFiles[k] = "report" <=> k = 4
    BY DEF PreprocessFiles
  <1>2. Len(PrepareFiles) = 3 /\ \A k \in 1 .. 3 : PrepareFiles[k] = "report" <=> k = 2
    BY DEF PrepareFiles
  <1>3. Len(AutoencoderFiles) = 6 /\ \A k \in 1 .. 6 : AutoencoderFiles[k] = "report" <=> k = 6
    BY DEF AutoencoderFiles
  <1>4. Len(RateFiles) = 6 /\ \A k \in 1 .. 6 : RateFiles[k] = "report" <=> k = 6
    BY DEF RateFiles
  <1> QED BY ONLY <1>1, <1>2, <1>3, <1>4

LEMMA OneReport ==
    ASSUME NEW s \in Stages
    PROVE  /\ ReportPlace[s] \in 1 .. Len(Run[s].files) /\ Len(Run[s].files) \in Nat
           /\ \A k \in 1 .. Len(Run[s].files) :
                 Run[s].files[k] = "report" <=> k = ReportPlace[s]
  <1>1. CASE s \in {"preflight", "split"}
    <2>1. PICK fs \in {PreflightFiles, SplitFiles} : Run[s].files = fs /\ ReportPlace[s] = 2
      BY <1>1, FilesAre DEF ReportPlace
    <2>2. Len(fs) = 2 /\ \A k \in 1 .. 2 : fs[k] = "report" <=> k = 2
      BY TwoFiles
    <2> QED BY ONLY <2>1, <2>2
  <1>2. CASE s \in {"logistic", "forest", "february", "cic"}
    <2>1. PICK fs \in {LogisticFiles, ForestFiles, FebruaryFiles, CicFiles} :
             Run[s].files = fs /\ ReportPlace[s] = 3
      BY <1>2, FilesAre DEF ReportPlace
    <2>2. Len(fs) = 3 /\ \A k \in 1 .. 3 : fs[k] = "report" <=> k = 3
      BY ThreeFiles
    <2> QED BY ONLY <2>1, <2>2
  <1>3. CASE s = "preprocess"
    <2>1. Run[s].files = PreprocessFiles /\ ReportPlace[s] = 4
      BY <1>3, FilesAre DEF ReportPlace
    <2> QED BY ONLY <2>1, OtherFiles
  <1>4. CASE s = "prepare"
    <2>1. Run[s].files = PrepareFiles /\ ReportPlace[s] = 2
      BY <1>4, FilesAre DEF ReportPlace
    <2> QED BY ONLY <2>1, OtherFiles
  <1>5. CASE s = "autoencoder"
    <2>1. Run[s].files = AutoencoderFiles /\ ReportPlace[s] = 6
      BY <1>5, FilesAre DEF ReportPlace
    <2> QED BY ONLY <2>1, OtherFiles
  <1>6. CASE s = "rate"
    <2>1. Run[s].files = RateFiles /\ ReportPlace[s] = 6
      BY <1>6, FilesAre DEF ReportPlace
    <2> QED BY ONLY <2>1, OtherFiles
  <1> QED BY <1>1, <1>2, <1>3, <1>4, <1>5, <1>6, StagesAre

LEMMA SomeFiles ==
    /\ \A s \in Stages : "report" \in FilesOf(s)
    /\ \A s \in {"logistic", "forest", "autoencoder", "rate"} : "model" \in FilesOf(s)
    /\ "manifest" \in FilesOf("autoencoder") /\ "assignments" \in FilesOf("split")
    /\ AutoencoderFiles[5] = "manifest" /\ AutoencoderFiles[6] = "report"
    /\ Len(AutoencoderFiles) = 6 /\ Len(ForestFiles) = 3
  <1>1. ASSUME NEW s \in Stages, NEW k \in 1 .. Len(Run[s].files) PROVE Run[s].files[k] \in FilesOf(s)
    BY DEF FilesOf, ToSet
  <1>2. \A s \in Stages : "report" \in FilesOf(s)
    BY <1>1, OneReport
  <1>3. /\ 2 \in 1 .. Len(LogisticFiles) /\ LogisticFiles[2] = "model"
        /\ 2 \in 1 .. Len(ForestFiles) /\ ForestFiles[2] = "model" /\ Len(ForestFiles) = 3
        /\ 1 \in 1 .. Len(SplitFiles) /\ SplitFiles[1] = "assignments"
    BY DEF LogisticFiles, ForestFiles, SplitFiles
  <1>4. /\ 3 \in 1 .. Len(AutoencoderFiles) /\ AutoencoderFiles[3] = "model"
        /\ 5 \in 1 .. Len(AutoencoderFiles) /\ AutoencoderFiles[5] = "manifest"
        /\ AutoencoderFiles[6] = "report" /\ Len(AutoencoderFiles) = 6
    BY DEF AutoencoderFiles
  <1>5. 3 \in 1 .. Len(RateFiles) /\ RateFiles[3] = "model"
    BY DEF RateFiles
  <1> QED BY <1>1, <1>2, <1>3, <1>4, <1>5, FilesAre, StagesAre

-----------------------------------------------------------------------------
(* Types of a run directory and of a running command. *)
RunFields == {"made", "files", "failure", "ins", "refs", "fit", "held", "reports"}
FileStates == {"none", "whole", "altered"}
DirectoryTypes(s, d) ==
    /\ DOMAIN d = RunFields
    /\ d.made \in BOOLEAN /\ d.reports \in Nat /\ d.files \in [FilesOf(s) -> FileStates]

CommandFields == {"pc", "stage", "id", "ins", "refs", "next", "state"}
CommandTypes(p) ==
    /\ DOMAIN p = CommandFields
    /\ p.pc \in {"verified", "writing", "failing", "finalizing"}
    /\ p.stage \in Stages /\ p.id \in RunIds /\ p.next \in Nat \ {0}
    /\ p.pc = "verified" => p.stage \notin MakesFirst /\ p.next = 1
    /\ p.pc = "finalizing" => p.stage = "forest"

PipelineTypes ==
    /\ DOMAIN dirs = Stages
    /\ \A s \in Stages : /\ DOMAIN dirs[s] = RunIds
                         /\ \A i \in RunIds : DirectoryTypes(s, dirs[s][i])
    /\ DOMAIN proc = Workers
    /\ \A w \in Workers : proc[w] # Idle => CommandTypes(proc[w])

(* What a directory says of its own report. *)
DirectoryTrue(s, d) ==
    /\ ~d.made => d = NoRun(s)
    /\ d.reports <= 1
    /\ d.reports = 0 => d.files["report"] = "none"
    /\ d.failure = "reload_mismatch" => s = "forest" /\ d.reports = 0
    /\ s = "autoencoder" /\ d.files["report"] # "none" => d.files["manifest"] # "none"

(* A command that writes made its directory; while its report is ahead of it,    *)
(* nobody has reported there.  A forest that is failing has no report either, so *)
(* that it may be finalized.                                                     *)
AtWork(p) == p.pc \in {"writing", "failing"}
WriterTrue(p, d) ==
    AtWork(p) =>
        /\ d.made /\ d.failure # "reload_mismatch"
        /\ p.pc = "writing" /\ p.next <= ReportPlace[p.stage] => d.reports = 0
        /\ p.pc = "failing" /\ p.stage = "forest" => d.reports = 0
        /\ p.stage = "autoencoder" => d.ins = p.ins
        /\ p.stage = "autoencoder" /\ p.pc = "writing" /\ p.next > 5 => d.files["manifest"] # "none"

(* Nobody writes where another does. *)
Apart(p, q) == AtWork(p) /\ AtWork(q) => p.stage # q.stage \/ p.id # q.id

WritersTrue ==
    /\ \A s \in Stages, i \in RunIds : DirectoryTrue(s, dirs[s][i])
    /\ \A w \in Workers : AtWork(proc[w]) => WriterTrue(proc[w], dirs[proc[w].stage][proc[w].id])
    /\ \A v, w \in Workers : v # w => Apart(proc[v], proc[w])

-----------------------------------------------------------------------------
(* What a step does: one command turns, one directory changes. *)
Turns(w, q) == DOMAIN proc' = Workers /\ \A v \in Workers : proc'[v] = IF v = w THEN q ELSE proc[v]
Becomes(s, i, e) ==
    /\ DOMAIN dirs' = Stages
    /\ \A t \in Stages : /\ DOMAIN dirs'[t] = RunIds
                         /\ \A j \in RunIds : dirs'[t][j] = IF t = s /\ j = i THEN e ELSE dirs[t][j]

LEMMA TurnsOf ==
    ASSUME PipelineTypes, NEW w \in Workers, NEW q, proc' = [proc EXCEPT ![w] = q]
    PROVE  Turns(w, q)
  BY DEF PipelineTypes, Turns

LEMMA BecomesOf ==
    ASSUME PipelineTypes, NEW s \in Stages, NEW i \in RunIds, NEW e,
           dirs' = [dirs EXCEPT ![s][i] = e]
    PROVE  Becomes(s, i, e)
  BY DEF PipelineTypes, Becomes

LEMMA BecomesSame ==
    ASSUME PipelineTypes, NEW s, NEW i, dirs' = dirs
    PROVE  Becomes(s, i, dirs[s][i])
  BY DEF PipelineTypes, Becomes

LEMMA IdleIsNotAtWork == ~AtWork(Idle) /\ Idle.pc = "idle"
  BY DEF AtWork, Idle

(* A step of a command that has the directory to itself. *)
LEMMA WritersKeep ==
    ASSUME PipelineTypes, WritersTrue,
           NEW w \in Workers, NEW q, NEW s \in Stages, NEW i \in RunIds, NEW e,
           Turns(w, q), Becomes(s, i, e),
           q # Idle => CommandTypes(q), DirectoryTypes(s, e), DirectoryTrue(s, e),
           AtWork(q) => q.stage = s /\ q.id = i /\ WriterTrue(q, e),
           \/ e = dirs[s][i] /\ ~AtWork(q)
           \/ \A v \in Workers \ {w} : AtWork(proc[v]) => proc[v].stage # s \/ proc[v].id # i
    PROVE  PipelineTypes' /\ WritersTrue'
  <1>1. PipelineTypes'
    BY DEF PipelineTypes, Turns, Becomes
  <1>2. ASSUME NEW t \in Stages, NEW j \in RunIds PROVE DirectoryTrue(t, dirs'[t][j])
    BY DEF WritersTrue, Becomes
  <1>3. ASSUME NEW v \in Workers, AtWork(proc'[v]) PROVE WriterTrue(proc'[v], dirs'[proc'[v].stage][proc'[v].id])
    <2>1. CASE v = w
      BY <1>3, <2>1 DEF Turns, Becomes
    <2>2. CASE v # w
      <3>1. proc'[v] = proc[v] /\ proc[v] # Idle /\ WriterTrue(proc[v], dirs[proc[v].stage][proc[v].id])
        BY <1>3, <2>2, IdleIsNotAtWork DEF Turns, WritersTrue
      <3>2. proc[v].stage \in Stages /\ proc[v].id \in RunIds
        BY <3>1 DEF PipelineTypes, CommandTypes
      <3>3. dirs'[proc[v].stage][proc[v].id] = dirs[proc[v].stage][proc[v].id]
        BY <1>3, <2>2, <3>1, <3>2 DEF Becomes
      <3> QED BY <3>1, <3>3
    <2> QED BY <2>1, <2>2
  <1>4. ASSUME NEW u \in Workers, NEW v \in Workers, u # v PROVE Apart(proc'[u], proc'[v])
    BY <1>4 DEF Turns, WritersTrue, Apart
  <1> QED BY <1>1, <1>2, <1>3, <1>4 DEF WritersTrue

(* Something else writes to a file that is there. *)
LEMMA WritersKeepAltered ==
    ASSUME PipelineTypes, WritersTrue, proc' = proc,
           NEW s \in Stages, NEW i \in RunIds, NEW f \in FilesOf(s), NEW x \in FileStates,
           Becomes(s, i, [dirs[s][i] EXCEPT !.files[f] = x]),
           dirs[s][i].made, x # "none", f = "report" => dirs[s][i].files[f] # "none"
    PROVE  PipelineTypes' /\ WritersTrue'
  <1> DEFINE d == dirs[s][i]
             e == [d EXCEPT !.files[f] = x]
  <1>1. DirectoryTypes(s, d) /\ DirectoryTrue(s, d)
    BY DEF PipelineTypes, WritersTrue
  <1>2. /\ DOMAIN e = RunFields /\ e.made = d.made /\ e.reports = d.reports /\ e.failure = d.failure
        /\ e.ins = d.ins /\ e.files = [d.files EXCEPT ![f] = x]
    BY <1>1 DEF DirectoryTypes, RunFields
  <1>3. /\ DirectoryTypes(s, e)
        /\ \A g \in FilesOf(s) : e.files[g] = IF g = f THEN x ELSE d.files[g]
    <2>1. DirectoryTypes(s, d) /\ x \in FileStates
      BY <1>1
    <2>2. \A g \in FilesOf(s) : e.files[g] = IF g = f THEN x ELSE d.files[g]
      BY ONLY <1>2, <2>1 DEF DirectoryTypes
    <2>3. e.files \in [FilesOf(s) -> FileStates]
      BY ONLY <1>2, <2>1 DEF DirectoryTypes
    <2>4. DirectoryTypes(s, e)
      BY ONLY <1>2, <2>1, <2>3 DEF DirectoryTypes
    <2> QED BY ONLY <2>2, <2>4
  <1>4. "report" \in FilesOf(s) /\ (s = "autoencoder" => "manifest" \in FilesOf(s))
    BY SomeFiles
  <1>5. DirectoryTrue(s, e)
    BY <1>1, <1>2, <1>3, <1>4 DEF DirectoryTrue
  <1>6. \A p : p.stage = s /\ WriterTrue(p, d) => WriterTrue(p, e)
    BY <1>2, <1>3, <1>4 DEF WriterTrue
  <1> HIDE DEF e
  <1>7. PipelineTypes'
    BY <1>3 DEF PipelineTypes, Becomes, e
  <1>8. \A t \in Stages, j \in RunIds : DirectoryTrue(t, dirs'[t][j])
    BY <1>5 DEF WritersTrue, Becomes, e
  <1>9. ASSUME NEW v \in Workers, AtWork(proc[v]) PROVE WriterTrue(proc[v], dirs'[proc[v].stage][proc[v].id])
    <2>1. proc[v].stage \in Stages /\ proc[v].id \in RunIds
      BY <1>9, IdleIsNotAtWork DEF PipelineTypes, CommandTypes
    <2>2. WriterTrue(proc[v], dirs[proc[v].stage][proc[v].id])
      BY <1>9 DEF WritersTrue
    <2> QED BY <1>6, <2>1, <2>2 DEF Becomes, e
  <1> QED BY <1>7, <1>8, <1>9 DEF WritersTrue

-----------------------------------------------------------------------------
(* What a run was built on.  A digest it took of a preprocessing report is that  *)
(* of the whole report, or of an altered one, which stays altered; every model   *)
(* among its inputs names the same digest.                                       *)
RefTrue(ref, d) ==
    \/ ref = <<d, "whole">>
    \/ ref = <<d, "altered">> /\ dirs["preprocess"][d].files["report"] = "altered"

Bound(s, ins, refs) ==
    /\ ins \in [Run[s].inputs -> RunIds] /\ DOMAIN refs = Run[s].inputs
    /\ "preprocess" \in Run[s].inputs =>
          /\ dirs["preprocess"][ins["preprocess"]].made
          /\ RefTrue(refs["preprocess"], ins["preprocess"])
    /\ \A m \in {"logistic", "forest"} \cap Run[s].inputs :
          dirs[m][ins[m]].made /\ dirs[m][ins[m]].refs["preprocess"] = refs["preprocess"]
    /\ s = "autoencoder" =>
          pins # None /\ ins["preprocess"] = pins["preprocess"]
          /\ refs["preprocess"] = <<pins["preprocess"], "whole">>
    /\ "split" \in Run[s].inputs =>
          dirs["split"][ins["split"]].made /\ dirs["split"][ins["split"]].held = Assignment(flows)

(* The February run an autoencoder was sealed beside is of its preprocessing. *)
FebruaryAgrees(d) ==
    LET v == dirs["february"][d.ins["february"]]
    IN v.made /\ v.refs["preprocess"] = d.refs["preprocess"]

DirectoryLine(s, d) ==
    d.made => /\ Bound(s, d.ins, d.refs)
              /\ s = "autoencoder" /\ d.files["manifest"] # "none" => FebruaryAgrees(d)

LineageTrue ==
    /\ \A s \in Stages, i \in RunIds : DirectoryLine(s, dirs[s][i])
    /\ \A w \in Workers : proc[w] # Idle => Bound(proc[w].stage, proc[w].ins, proc[w].refs)

(* What the code was frozen to is there, and February was scored on the whole   *)
(* preprocessing if it was scored on the frozen one.                             *)
PinsTrue ==
    pins # None =>
        /\ FrozenStages \subseteq DOMAIN pins /\ DOMAIN pins \subseteq FrozenStages \cup {"autoencoder"}
        /\ \A s \in DOMAIN pins : pins[s] \in RunIds /\ dirs[s][pins[s]].made
        /\ dirs["february"][pins["february"]].refs["preprocess"] # <<pins["preprocess"], "altered">>

OfServed(m, i) ==
    i \in RunIds /\ dirs[m][i].made /\ dirs[m][i].refs["preprocess"] = <<served.preprocess, "whole">>
ServedTrue ==
    served # None =>
        /\ DOMAIN served = {"preprocess", "logistic", "forest", "detector"}
        /\ pins # None /\ served.preprocess = pins["preprocess"]
        /\ OfServed("logistic", served.logistic) /\ OfServed("forest", served.forest)
        /\ served.detector # 0 => OfServed("autoencoder", served.detector)

(* The flows behind a file: the assignment, and its partitions. *)
Part(name) == {r \in Rows(flows) : Assignment(flows)[r] = name}
DirectoryData(s, d) ==
    /\ d.fit \subseteq Part("train")
    /\ s \in {"preprocess", "logistic", "forest", "rate"} => d.held \subseteq Part("validation")
    /\ s \in {"february", "autoencoder"} => d.held \subseteq Part("test")
    /\ s = "split" /\ d.files["assignments"] # "none" => d.held = Assignment(flows)
DataTrue == \A s \in Stages, i \in RunIds : DirectoryData(s, dirs[s][i])

(* The inductive invariant of the pipeline. *)
PipelineInv ==
    PipelineTypes /\ WritersTrue /\ LineageTrue /\ PinsTrue /\ ServedTrue /\ DataTrue

-----------------------------------------------------------------------------
(* What no step takes from a directory that was made. *)
Kept(s, d, e) ==
    d.made =>
        /\ e.made /\ e.ins = d.ins /\ e.refs["preprocess"] = d.refs["preprocess"]
        /\ s = "preprocess" /\ d.files["report"] = "altered" => e.files["report"] = "altered"
        /\ s = "split" /\ d.held = Assignment(flows) => e.held = Assignment(flows)
AllKept == \A s \in Stages, i \in RunIds : Kept(s, dirs[s][i], dirs'[s][i])
PinsKept ==
    pins # None =>
        /\ pins' # None /\ DOMAIN pins \subseteq DOMAIN pins'
        /\ \A s \in DOMAIN pins : pins'[s] = pins[s]

LEMMA StagesIn ==
    /\ {"preflight", "split", "preprocess", "logistic", "forest", "february", "autoencoder"} \subseteq Stages
    /\ \A s \in Stages : Run[s].inputs \subseteq Stages
    /\ FrozenStages \subseteq Stages
  BY StagesAre, InputsAre DEF FrozenStages

LEMMA StillBound ==
    ASSUME AllKept, PinsKept, PinsTrue, flows' = flows,
           NEW s \in Stages, NEW ins, NEW refs, Bound(s, ins, refs)
    PROVE  Bound(s, ins, refs)'
  <1>1. \A q \in Run[s].inputs : q \in Stages /\ ins[q] \in RunIds
    BY StagesIn DEF Bound
  <1>2. ASSUME "preprocess" \in Run[s].inputs
        PROVE  /\ dirs'["preprocess"][ins["preprocess"]].made
               /\ RefTrue(refs["preprocess"], ins["preprocess"])'
    <2>1. Kept("preprocess", dirs["preprocess"][ins["preprocess"]], dirs'["preprocess"][ins["preprocess"]])
      BY <1>1, <1>2 DEF AllKept
    <2> QED BY <1>2, <2>1 DEF Bound, Kept, RefTrue
  <1>3. ASSUME NEW m \in {"logistic", "forest"} \cap Run[s].inputs
        PROVE  dirs'[m][ins[m]].made /\ dirs'[m][ins[m]].refs["preprocess"] = refs["preprocess"]
    BY <1>1 DEF Bound, AllKept, Kept
  <1>4. ASSUME s = "autoencoder"
        PROVE  /\ pins' # None /\ ins["preprocess"] = pins'["preprocess"]
               /\ refs["preprocess"] = <<pins'["preprocess"], "whole">>
    BY <1>4 DEF Bound, PinsKept, PinsTrue, FrozenStages
  <1>5. ASSUME "split" \in Run[s].inputs
        PROVE  dirs'["split"][ins["split"]].made /\ dirs'["split"][ins["split"]].held = Assignment(flows)
    <2>1. Kept("split", dirs["split"][ins["split"]], dirs'["split"][ins["split"]])
      BY <1>1, <1>5 DEF AllKept
    <2> QED BY <1>5, <2>1 DEF Bound, Kept
  <1> QED BY <1>2, <1>3, <1>4, <1>5 DEF Bound

LEMMA StillServed ==
    ASSUME AllKept, PinsKept, PinsTrue, ServedTrue, served' = served
    PROVE  ServedTrue'
  <1> SUFFICES ASSUME served # None PROVE ServedTrue'
    BY DEF ServedTrue
  <1>1. ASSUME NEW m \in Stages, NEW i, OfServed(m, i) PROVE OfServed(m, i)'
    BY <1>1 DEF OfServed, AllKept, Kept
  <1>2. "logistic" \in Stages /\ "forest" \in Stages /\ "autoencoder" \in Stages
    BY StagesIn
  <1>3. pins' # None /\ pins'["preprocess"] = pins["preprocess"]
    BY DEF ServedTrue, PinsKept, PinsTrue, FrozenStages
  <1> QED BY <1>1, <1>2, <1>3 DEF ServedTrue

LEMMA StillPinned ==
    ASSUME AllKept, PinsTrue, pins' = pins
    PROVE  PinsTrue' /\ PinsKept
  <1>1. \A s \in DOMAIN pins : pins # None => s \in Stages
    BY StagesIn DEF PinsTrue
  <1> QED BY <1>1 DEF PinsTrue, AllKept, Kept, FrozenStages, PinsKept

(* A step that changes one directory and takes nothing from it. *)
LEMMA LineageKeeps ==
    ASSUME PipelineInv, NEW s \in Stages, NEW i \in RunIds, NEW e, Becomes(s, i, e),
           Kept(s, dirs[s][i], e), DirectoryLine(s, e), DirectoryData(s, e),
           UNCHANGED <<flows, pins, served>>,
           \A v \in Workers : proc'[v] # Idle =>
               /\ proc'[v].stage \in Stages
               /\ proc'[v] = proc[v] \/ Bound(proc'[v].stage, proc'[v].ins, proc'[v].refs)
    PROVE  LineageTrue' /\ PinsTrue' /\ ServedTrue' /\ DataTrue'
  <1>1. AllKept
    BY DEF AllKept, Becomes, Kept
  <1>2. PinsTrue' /\ PinsKept /\ ServedTrue'
    BY <1>1, StillPinned, StillServed DEF PipelineInv
  <1>3. ASSUME NEW t \in Stages, NEW j \in RunIds PROVE DirectoryLine(t, dirs[t][j])'
    <2>1. PICK d : d = dirs'[t][j]
      OBVIOUS
    <2>2. DirectoryLine(t, d)
      BY <2>1 DEF Becomes, PipelineInv, LineageTrue
    <2>3. ASSUME d.made PROVE Bound(t, d.ins, d.refs)'
      BY <1>1, <1>2, <2>2, <2>3, StillBound DEF DirectoryLine, PipelineInv
    <2>4. ASSUME d.made, t = "autoencoder", d.files["manifest"] # "none" PROVE FebruaryAgrees(d)'
      <3>1. FebruaryAgrees(d) /\ d.ins["february"] \in RunIds /\ "february" \in Stages
        <4>1. FebruaryAgrees(d) /\ Bound(t, d.ins, d.refs)
          BY <2>2, <2>4 DEF DirectoryLine
        <4>2. "february" \in Run["autoencoder"].inputs /\ "february" \in Stages
          BY InputsAre, StagesIn
        <4> QED BY ONLY <2>4, <4>1, <4>2 DEF Bound
      <3>2. Kept("february", dirs["february"][d.ins["february"]], dirs'["february"][d.ins["february"]])
        BY ONLY <1>1, <3>1 DEF AllKept
      <3> QED BY ONLY <3>1, <3>2 DEF FebruaryAgrees, Kept
    <2> QED BY <2>1, <2>3, <2>4 DEF DirectoryLine
  <1>4. ASSUME NEW v \in Workers, proc'[v] # Idle
        PROVE  Bound(proc[v].stage, proc[v].ins, proc[v].refs)'
    <2>1. PICK p : p = proc'[v]
      OBVIOUS
    <2>2. p.stage \in Stages /\ Bound(p.stage, p.ins, p.refs)
      BY <1>4, <2>1 DEF PipelineInv, LineageTrue
    <2>3. Bound(p.stage, p.ins, p.refs)'
      BY <1>1, <1>2, <2>2, StillBound DEF PipelineInv
    <2> QED BY <2>1, <2>3
  <1>5. DataTrue'
    BY DEF PipelineInv, DataTrue, Becomes, DirectoryData, Part
  <1> QED BY <1>2, <1>3, <1>4, <1>5 DEF LineageTrue

-----------------------------------------------------------------------------
(* The steps of the commands. *)
ModelKept(s, d, e) ==
    s \in {"forest", "autoencoder"} /\ d.files["model"] = "whole" => e.files["model"] = "whole"
ModelsKept == \A s \in Stages, i \in RunIds : ModelKept(s, dirs[s][i], dirs'[s][i])
StepGood == PipelineInv' /\ AllKept /\ ModelsKept /\ PinsKept

LEMMA CommandKeeps ==
    ASSUME PipelineInv, NEW w \in Workers, NEW q, NEW s \in Stages, NEW i \in RunIds, NEW e,
           Turns(w, q), Becomes(s, i, e),
           q # Idle => CommandTypes(q) /\ Bound(q.stage, q.ins, q.refs),
           DirectoryTypes(s, e), DirectoryTrue(s, e),
           AtWork(q) => q.stage = s /\ q.id = i /\ WriterTrue(q, e),
           \/ e = dirs[s][i] /\ ~AtWork(q)
           \/ \A v \in Workers \ {w} : AtWork(proc[v]) => proc[v].stage # s \/ proc[v].id # i,
           Kept(s, dirs[s][i], e), DirectoryLine(s, e), DirectoryData(s, e),
           ModelKept(s, dirs[s][i], e), UNCHANGED <<flows, pins, served>>
    PROVE  StepGood
  <1>1. PipelineTypes' /\ WritersTrue'
    BY WritersKeep DEF PipelineInv
  <1>2. \A v \in Workers : proc'[v] # Idle =>
               /\ proc'[v].stage \in Stages
               /\ proc'[v] = proc[v] \/ Bound(proc'[v].stage, proc'[v].ins, proc'[v].refs)
    BY DEF Turns, PipelineInv, PipelineTypes, CommandTypes
  <1>3. LineageTrue' /\ PinsTrue' /\ ServedTrue' /\ DataTrue'
    BY <1>2, LineageKeeps
  <1>4. AllKept /\ ModelsKept
    BY DEF AllKept, ModelsKept, Becomes, Kept, ModelKept
  <1>5. PinsKept
    BY DEF PinsKept
  <1> QED BY <1>1, <1>3, <1>4, <1>5 DEF StepGood, PipelineInv

(* A step of a command that leaves the directories alone. *)
LEMMA TurnKeeps ==
    ASSUME PipelineInv, NEW w \in Workers, NEW q, Turns(w, q), dirs' = dirs,
           q # Idle => CommandTypes(q) /\ Bound(q.stage, q.ins, q.refs),
           AtWork(q) => /\ AtWork(proc[w]) /\ q.stage = proc[w].stage /\ q.id = proc[w].id
                        /\ WriterTrue(q, dirs[q.stage][q.id]),
           UNCHANGED <<flows, pins, served>>
    PROVE  StepGood
  <1>1. PICK s \in Stages, i \in RunIds : AtWork(q) => q.stage = s /\ q.id = i
    <2>1. AtWork(q) => q.stage \in Stages /\ q.id \in RunIds
      BY IdleIsNotAtWork DEF CommandTypes
    <2>2. "split" \in Stages /\ 1 \in RunIds
      BY StagesIn DEF RunIds
    <2> QED BY <2>1, <2>2
  <1>2. Becomes(s, i, dirs[s][i])
    BY BecomesSame DEF PipelineInv
  <1>3. /\ DirectoryTypes(s, dirs[s][i]) /\ DirectoryTrue(s, dirs[s][i])
        /\ DirectoryLine(s, dirs[s][i]) /\ DirectoryData(s, dirs[s][i])
        /\ Kept(s, dirs[s][i], dirs[s][i]) /\ ModelKept(s, dirs[s][i], dirs[s][i])
    BY DEF PipelineInv, PipelineTypes, WritersTrue, LineageTrue, DataTrue, Kept, ModelKept
  <1>4. AtWork(q) =>
           \A v \in Workers \ {w} : AtWork(proc[v]) => proc[v].stage # s \/ proc[v].id # i
    BY <1>1 DEF PipelineInv, WritersTrue, Apart
  <1> QED BY <1>1, <1>2, <1>3, <1>4, CommandKeeps

(* A directory whose run stays what it was. *)
Like(s, d, e) ==
    /\ e.made = d.made /\ e.ins = d.ins /\ e.refs = d.refs /\ e.fit = d.fit /\ e.held = d.held
    /\ s = "preprocess" /\ d.files["report"] = "altered" => e.files["report"] = "altered"
    /\ s = "autoencoder" /\ e.files["manifest"] # "none" => d.files["manifest"] # "none"
    /\ s = "split" /\ e.files["assignments"] # "none" => d.files["assignments"] # "none"

LEMMA LikeIsKept ==
    ASSUME PipelineInv, NEW s \in Stages, NEW i \in RunIds, NEW e, Like(s, dirs[s][i], e)
    PROVE  Kept(s, dirs[s][i], e) /\ DirectoryLine(s, e) /\ DirectoryData(s, e)
  <1>1. DirectoryLine(s, dirs[s][i]) /\ DirectoryData(s, dirs[s][i])
    BY DEF PipelineInv, LineageTrue, DataTrue
  <1> QED BY <1>1 DEF Like, Kept, DirectoryLine, DirectoryData, FebruaryAgrees

(* What a verification establishes. *)
LEMMA ReportedIsMade ==
    ASSUME PipelineInv, NEW s \in Stages, NEW i \in RunIds, NEW f \in FilesOf(s),
           dirs[s][i].files[f] # "none"
    PROVE  dirs[s][i].made
  <1>1. ~dirs[s][i].made => dirs[s][i] = NoRun(s)
    BY DEF PipelineInv, WritersTrue, DirectoryTrue
  <1>2. NoRun(s).files[f] = "none"
    BY DEF NoRun
  <1> QED BY <1>1, <1>2

LEMMA PreprocessRef ==
    ASSUME PipelineInv, NEW d \in RunIds, PreprocessingVerified(d)
    PROVE  /\ dirs["preprocess"][d].made /\ RefTrue(Ref("preprocess", d), d)
           /\ Ref("preprocess", d) = <<d, dirs["preprocess"][d].files["report"]>>
  <1>1. "preprocess" \in Stages /\ "report" \in FilesOf("preprocess")
    BY StagesIn, SomeFiles
  <1>2. dirs["preprocess"][d].files["report"] \in {"whole", "altered"}
    BY <1>1 DEF PreprocessingVerified, Reported, PipelineInv, PipelineTypes, DirectoryTypes, FileStates
  <1>3. dirs["preprocess"][d].made
    BY <1>1, <1>2, ReportedIsMade
  <1> QED BY <1>2, <1>3 DEF RefTrue, Ref, MakesFirst

LEMMA ModelBound ==
    ASSUME PipelineInv, NEW m \in {"logistic", "forest"}, NEW i \in RunIds, NEW d \in RunIds,
           Reported(m, i), BoundTo(m, i, d)
    PROVE  dirs[m][i].made /\ dirs[m][i].refs["preprocess"] = Ref("preprocess", d)
  <1>1. m \in Stages /\ "report" \in FilesOf(m)
    BY StagesIn, SomeFiles
  <1> QED BY <1>1, ReportedIsMade DEF Reported, BoundTo

LEMMA SplitBound ==
    ASSUME PipelineInv, NEW a \in RunIds, NEW p \in RunIds, AssignmentVerified(a, p)
    PROVE  dirs["split"][a].made /\ dirs["split"][a].held = Assignment(flows)
  <1>1. "split" \in Stages /\ "assignments" \in FilesOf("split")
    BY StagesIn, SomeFiles
  <1>2. dirs["split"][a].files["assignments"] = "whole"
    BY DEF AssignmentVerified, Whole
  <1>3. dirs["split"][a].made
    BY <1>1, <1>2, ReportedIsMade
  <1> QED BY <1>1, <1>2, <1>3 DEF PipelineInv, DataTrue, DirectoryData

LEMMA VerifiedIsBound ==
    ASSUME PipelineInv, NEW s \in Stages, NEW ins \in InputChoices(s),
           s \in MakesFirst \/ Verified(s, ins)
    PROVE  Bound(s, ins, [q \in DOMAIN ins |-> Ref(q, ins[q])])
  <1> DEFINE refs == [q \in DOMAIN ins |-> Ref(q, ins[q])]
  <1>1. ins \in [Run[s].inputs -> RunIds] /\ DOMAIN refs = Run[s].inputs
    BY DEF InputChoices
  <1>2. CASE s \in MakesFirst
    <2>1. "preprocess" \notin Run[s].inputs /\ "split" \notin Run[s].inputs /\ s # "autoencoder"
          /\ {"logistic", "forest"} \cap Run[s].inputs = {}
      BY <1>2, InputsAre DEF MakesFirst
    <2> QED BY <1>1, <2>1 DEF Bound
  <1>3. CASE s = "preprocess"
    <2>1. AssignmentVerified(ins["split"], ins["preflight"]) /\ Run[s].inputs = {"split", "preflight"}
      BY <1>3, InputsAre DEF Verified, MakesFirst
    <2>2. dirs["split"][ins["split"]].made /\ dirs["split"][ins["split"]].held = Assignment(flows)
      BY <1>1, <2>1, SplitBound
    <2> QED BY <1>1, <1>3, <2>1, <2>2 DEF Bound
  <1>4. CASE s \notin MakesFirst /\ s # "preprocess"
    <2>1. "preprocess" \in Run[s].inputs /\ Verified(s, ins)
      BY <1>4, StagesAre, InputsAre DEF MakesFirst
    <2>2. ins["preprocess"] \in RunIds /\ refs["preprocess"] = Ref("preprocess", ins["preprocess"])
      BY <1>1, <2>1
    <2>3. PreprocessingVerified(ins["preprocess"])
      BY <1>4, <2>1, StagesAre DEF Verified, MakesFirst, AutoencoderInputsVerified
    <2>4. /\ dirs["preprocess"][ins["preprocess"]].made
          /\ RefTrue(refs["preprocess"], ins["preprocess"])
          /\ refs["preprocess"] = <<ins["preprocess"], dirs["preprocess"][ins["preprocess"]].files["report"]>>
      BY <2>2, <2>3, PreprocessRef
    <2>5. ASSUME NEW m \in {"logistic", "forest"} \cap Run[s].inputs
          PROVE  dirs[m][ins[m]].made /\ dirs[m][ins[m]].refs["preprocess"] = refs["preprocess"]
      <3>1. ins[m] \in RunIds
        BY <1>1
      <3>2. Reported(m, ins[m]) /\ BoundTo(m, ins[m], ins["preprocess"])
        BY <1>4, <2>1, <2>5, StagesAre, InputsAre
           DEF Verified, MakesFirst, LogisticVerified, SavedModelVerified
      <3> QED BY <2>2, <3>1, <3>2, ModelBound
    <2>6. ASSUME s = "autoencoder"
          PROVE  /\ pins # None /\ ins["preprocess"] = pins["preprocess"]
                 /\ refs["preprocess"] = <<pins["preprocess"], "whole">>
      <3>1. Pinned("preprocess", ins["preprocess"])
        BY <2>1, <2>6 DEF Verified, AutoencoderInputsVerified
      <3>2. "report" \in FilesOf("preprocess")
        BY SomeFiles, StagesIn
      <3> QED BY <2>4, <3>1, <3>2 DEF Pinned, Whole
    <2>7. ASSUME "split" \in Run[s].inputs
          PROVE  dirs["split"][ins["split"]].made /\ dirs["split"][ins["split"]].held = Assignment(flows)
      <3>1. s \in {"february", "prepare"}
        BY <1>4, <2>7, StagesAre, InputsAre
      <3>2. AssignmentVerified(ins["split"], ins["preflight"])
        BY <2>1, <3>1 DEF Verified
      <3>3. ins["split"] \in RunIds /\ ins["preflight"] \in RunIds
        BY <1>1, <3>1, InputsAre
      <3> QED BY <3>2, <3>3, SplitBound
    <2> QED BY <1>1, <2>4, <2>5, <2>6, <2>7 DEF Bound
  <1> QED BY <1>2, <1>3, <1>4

-----------------------------------------------------------------------------
(* The command that runs, and its directory. *)
LEMMA Mine ==
    ASSUME PipelineInv, NEW w \in Workers, proc[w] # Idle
    PROVE  /\ CommandTypes(proc[w]) /\ proc[w].stage \in Stages /\ proc[w].id \in RunIds
           /\ Bound(proc[w].stage, proc[w].ins, proc[w].refs)
           /\ DirectoryTypes(proc[w].stage, Directory(w)) /\ DirectoryTrue(proc[w].stage, Directory(w))
           /\ DirectoryLine(proc[w].stage, Directory(w)) /\ DirectoryData(proc[w].stage, Directory(w))
           /\ AtWork(proc[w]) =>
                 /\ WriterTrue(proc[w], Directory(w))
                 /\ \A v \in Workers \ {w} :
                       AtWork(proc[v]) => proc[v].stage # proc[w].stage \/ proc[v].id # proc[w].id
  <1>1. CommandTypes(proc[w]) /\ proc[w].stage \in Stages /\ proc[w].id \in RunIds
    BY DEF PipelineInv, PipelineTypes, CommandTypes
  <1>2. \A v \in Workers : v # w => Apart(proc[v], proc[w])
    BY DEF PipelineInv, WritersTrue
  <1> QED BY <1>1, <1>2
          DEF PipelineInv, PipelineTypes, WritersTrue, LineageTrue, DataTrue, Directory, Apart

(* Nobody writes in a directory that is not there, or that may be finalized. *)
LEMMA Nobody ==
    ASSUME PipelineInv, NEW s \in Stages, NEW i \in RunIds,
           ~dirs[s][i].made \/ dirs[s][i].failure = "reload_mismatch"
    PROVE  \A v \in Workers : AtWork(proc[v]) => proc[v].stage # s \/ proc[v].id # i
  BY DEF PipelineInv, WritersTrue, WriterTrue

LEMMA TypesOfNew ==
    ASSUME NEW s \in Stages, NEW ins, NEW refs
    PROVE  LET e == NewRun(s, ins, refs)
           IN /\ DirectoryTypes(s, e) /\ e.made /\ e.ins = ins /\ e.refs = refs
              /\ e.fit = {} /\ e.held = {} /\ e.reports = 0 /\ e.failure = "none"
              /\ \A f \in FilesOf(s) : e.files[f] = "none"
  BY DEF NewRun, NoRun, DirectoryTypes, RunFields, FileStates

LEMMA NewIsGood ==
    ASSUME PipelineInv, NEW s \in Stages, NEW i \in RunIds, NEW ins, NEW refs,
           ~dirs[s][i].made, Bound(s, ins, refs)
    PROVE  LET e == NewRun(s, ins, refs)
           IN /\ DirectoryTypes(s, e) /\ DirectoryTrue(s, e) /\ Kept(s, dirs[s][i], e)
              /\ DirectoryLine(s, e) /\ DirectoryData(s, e) /\ ModelKept(s, dirs[s][i], e)
  <1> DEFINE e == NewRun(s, ins, refs)
  <1>1. /\ DirectoryTypes(s, e) /\ e.made /\ e.ins = ins /\ e.refs = refs
        /\ e.fit = {} /\ e.held = {} /\ e.reports = 0 /\ e.failure = "none"
        /\ \A f \in FilesOf(s) : e.files[f] = "none"
    BY TypesOfNew
  <1> HIDE DEF e
  <1>2. /\ e.files["report"] = "none"
        /\ s = "autoencoder" => e.files["manifest"] = "none"
        /\ s = "split" => e.files["assignments"] = "none"
    BY <1>1, SomeFiles
  <1>3. DirectoryTrue(s, e) /\ DirectoryLine(s, e) /\ DirectoryData(s, e)
    BY <1>1, <1>2 DEF DirectoryTrue, DirectoryLine, DirectoryData
  <1>4. Kept(s, dirs[s][i], e)
    BY DEF Kept
  <1>5. ModelKept(s, dirs[s][i], e)
    <2>1. s \in {"forest", "autoencoder"} => dirs[s][i].files["model"] = "none"
      BY SomeFiles, ReportedIsMade
    <2> QED BY <2>1 DEF ModelKept
  <1> QED BY <1>1, <1>3, <1>4, <1>5 DEF e

LEMMA BeginGood ==
    ASSUME PipelineInv, NEW w \in Workers, NEW s \in Stages, NEW i \in RunIds,
           NEW ins \in InputChoices(s), Begin(w, s, i, ins)
    PROVE  StepGood
  <1> DEFINE q == Running(s, i, ins, "verified")
  <1>1. Turns(w, q) /\ dirs' = dirs /\ UNCHANGED <<flows, pins, served>>
    BY TurnsOf DEF Begin, OnlyProc, PipelineInv
  <1>2. Bound(s, ins, q.refs)
    BY VerifiedIsBound DEF Begin, Running
  <1>3. CommandTypes(q) /\ q.stage = s /\ q.ins = ins /\ ~AtWork(q)
    BY DEF Begin, Running, CommandTypes, CommandFields, AtWork
  <1> HIDE DEF q
  <1> QED BY <1>1, <1>2, <1>3, TurnKeeps

LEMMA MakeFirstGood ==
    ASSUME PipelineInv, NEW w \in Workers, NEW s \in Stages, NEW i \in RunIds,
           NEW ins \in InputChoices(s), MakeFirst(w, s, i, ins)
    PROVE  StepGood
  <1> DEFINE refs == [t \in DOMAIN ins |-> Ref(t, ins[t])]
             e == NewRun(s, ins, refs)
  <1>1. PICK pc \in {"writing", "failing"} : proc' = [proc EXCEPT ![w] = Running(s, i, ins, pc)]
    BY DEF MakeFirst, OnlyProc
  <1> DEFINE q == Running(s, i, ins, pc)
  <1>2. s \in MakesFirst /\ ~dirs[s][i].made /\ s # "autoencoder" /\ s # "forest"
    BY DEF MakeFirst, MakesFirst
  <1>3. Turns(w, q) /\ Becomes(s, i, e) /\ UNCHANGED <<flows, pins, served>>
    BY <1>1, TurnsOf, BecomesOf DEF MakeFirst, OnlyProc, PipelineInv
  <1>4. Bound(s, ins, refs)
    BY <1>2, VerifiedIsBound
  <1>5. CommandTypes(q) /\ q.stage = s /\ q.id = i /\ q.ins = ins /\ q.refs = refs /\ q.pc = pc
    BY <1>2 DEF Running, CommandTypes, CommandFields
  <1>6. /\ DirectoryTypes(s, e) /\ DirectoryTrue(s, e) /\ Kept(s, dirs[s][i], e)
        /\ DirectoryLine(s, e) /\ DirectoryData(s, e) /\ ModelKept(s, dirs[s][i], e)
        /\ e.made /\ e.reports = 0 /\ e.failure = "none"
    BY <1>2, <1>4, NewIsGood, TypesOfNew
  <1> HIDE DEF q, e
  <1>7. WriterTrue(q, e)
    BY <1>2, <1>5, <1>6 DEF WriterTrue
  <1>8. \A v \in Workers : AtWork(proc[v]) => proc[v].stage # s \/ proc[v].id # i
    BY <1>2, Nobody
  <1> HIDE DEF refs
  <1> QED BY <1>3, <1>4, <1>5, <1>6, <1>7, <1>8, CommandKeeps

LEMMA MakeDirectoryGood ==
    ASSUME PipelineInv, NEW w \in Workers, proc[w] # Idle, MakeDirectory(w)
    PROVE  StepGood
  <1> PICK p, s, i : p = proc[w] /\ s = proc[w].stage /\ i = proc[w].id
    OBVIOUS
  <1>0. /\ CommandTypes(p) /\ s \in Stages /\ i \in RunIds /\ Bound(s, p.ins, p.refs)
        /\ s = p.stage /\ i = p.id /\ p.pc = "verified" /\ p.next = 1
    BY Mine DEF MakeDirectory, CommandTypes
  <1>1. CASE ~Directory(w).made
    <2> DEFINE e == NewRun(s, p.ins, p.refs)
    <2>1. PICK st : proc' = [proc EXCEPT ![w] = [p EXCEPT !.pc = "writing", !.state = st]]
      BY <1>1 DEF MakeDirectory, OnlyProc
    <2> DEFINE q == [p EXCEPT !.pc = "writing", !.state = st]
    <2>2. Turns(w, q) /\ Becomes(s, i, e) /\ UNCHANGED <<flows, pins, served>>
      BY <1>0, <1>1, <2>1, TurnsOf, BecomesOf DEF MakeDirectory, OnlyProc, InDirectory, PipelineInv
    <2>3. CommandTypes(q) /\ q.stage = s /\ q.id = i /\ q.ins = p.ins /\ q.refs = p.refs
          /\ q.pc = "writing" /\ q.next = 1
      BY <1>0 DEF CommandTypes, CommandFields
    <2>4. /\ DirectoryTypes(s, e) /\ DirectoryTrue(s, e) /\ Kept(s, dirs[s][i], e)
          /\ DirectoryLine(s, e) /\ DirectoryData(s, e) /\ ModelKept(s, dirs[s][i], e)
          /\ e.made /\ e.reports = 0 /\ e.failure = "none" /\ e.ins = p.ins
      BY <1>0, <1>1, NewIsGood, TypesOfNew DEF Directory
    <2> HIDE DEF q, e
    <2>5. WriterTrue(q, e)
      BY <1>0, <2>3, <2>4 DEF WriterTrue
    <2>6. \A v \in Workers : AtWork(proc[v]) => proc[v].stage # s \/ proc[v].id # i
      BY <1>0, <1>1, Nobody DEF Directory
    <2> QED BY <1>0, <2>2, <2>3, <2>4, <2>5, <2>6, CommandKeeps
  <1>2. CASE Directory(w).made
    <2>1. Turns(w, Idle) /\ dirs' = dirs /\ UNCHANGED <<flows, pins, served>>
      BY <1>2, TurnsOf DEF MakeDirectory, OnlyProc, PipelineInv
    <2> QED BY <2>1, TurnKeeps, IdleIsNotAtWork
  <1> QED BY <1>1, <1>2

(* A command that ends. *)
LEMMA EndGood ==
    ASSUME PipelineInv, NEW w \in Workers, OnlyProc(w, Idle), dirs' = dirs
    PROVE  StepGood
  <1>1. Turns(w, Idle) /\ UNCHANGED <<flows, pins, served>>
    BY TurnsOf DEF OnlyProc, PipelineInv
  <1> QED BY <1>1, TurnKeeps, IdleIsNotAtWork

LEMMA FailsGood ==
    ASSUME PipelineInv, NEW w \in Workers, proc[w] # Idle, Fails(w)
    PROVE  StepGood
  <1> PICK p, s, i, d : p = proc[w] /\ s = proc[w].stage /\ i = proc[w].id /\ d = Directory(w)
    OBVIOUS
  <1>0. /\ CommandTypes(p) /\ s \in Stages /\ i \in RunIds /\ Bound(s, p.ins, p.refs)
        /\ s = p.stage /\ i = p.id /\ p.pc = "writing" /\ d = dirs[s][i]
        /\ AtWork(p) /\ WriterTrue(p, d)
    BY Mine DEF Fails, AtWork, Directory
  <1> DEFINE n == IF s \in MakesFirst THEN 1 ELSE p.next
             q == [p EXCEPT !.pc = "failing", !.next = n]
  <1>1. Turns(w, q) /\ dirs' = dirs /\ UNCHANGED <<flows, pins, served>>
    BY <1>0, TurnsOf DEF Fails, OnlyProc, PipelineInv
  <1>2. n \in Nat \ {0}
    BY <1>0 DEF CommandTypes
  <1>3. CommandTypes(q) /\ q.stage = s /\ q.id = i /\ q.ins = p.ins /\ q.refs = p.refs /\ q.pc = "failing"
    BY <1>0, <1>2 DEF CommandTypes, CommandFields
  <1>4. s = "forest" => d.reports = 0
    <2> SUFFICES ASSUME s = "forest" PROVE d.reports = 0
      OBVIOUS
    <2>1. p.next <= Len(Run[s].files)
      BY <1>0 DEF Fails, Writing, PostChecked
    <2>2. Len(Run[s].files) = 3 /\ ReportPlace[s] = 3
      BY FilesAre, SomeFiles DEF ReportPlace
    <2> QED BY <1>0, <2>1, <2>2 DEF WriterTrue
  <1> HIDE DEF q
  <1>5. WriterTrue(q, d)
    BY <1>0, <1>3, <1>4 DEF WriterTrue, AtWork
  <1> QED BY <1>0, <1>1, <1>3, <1>5, TurnKeeps

LEMMA UnlinkGood ==
    ASSUME PipelineInv, NEW w \in Workers, proc[w] # Idle, Unlink(w)
    PROVE  StepGood
  <1> PICK p, s, i, d : p = proc[w] /\ s = proc[w].stage /\ i = proc[w].id /\ d = Directory(w)
    OBVIOUS
  <1>0. /\ CommandTypes(p) /\ s \in Stages /\ i \in RunIds /\ Bound(s, p.ins, p.refs)
        /\ s = p.stage /\ i = p.id /\ p.pc = "failing" /\ d = dirs[s][i] /\ s \in MakesFirst
        /\ AtWork(p) /\ WriterTrue(p, d) /\ DirectoryTypes(s, d) /\ DirectoryTrue(s, d)
        /\ \A v \in Workers \ {w} : AtWork(proc[v]) => proc[v].stage # s \/ proc[v].id # i
    BY Mine DEF Unlink, AtWork, Directory
  <1> DEFINE q == [p EXCEPT !.next = @ + 1]
  <1>1. PICK f : dirs' = [dirs EXCEPT ![s][i] = [d EXCEPT !.files[f] = "none"]]
    BY <1>0 DEF Unlink, InDirectory
  <1> DEFINE e == [d EXCEPT !.files[f] = "none"]
  <1>2. Turns(w, q) /\ Becomes(s, i, e) /\ UNCHANGED <<flows, pins, served>>
    BY <1>0, <1>1, TurnsOf, BecomesOf DEF Unlink, OnlyProc, PipelineInv
  <1>3. CommandTypes(q) /\ q.stage = s /\ q.id = i /\ q.ins = p.ins /\ q.refs = p.refs /\ q.pc = "failing"
    BY <1>0 DEF CommandTypes, CommandFields
  <1>4. /\ DOMAIN e = RunFields /\ e.made = d.made /\ e.ins = d.ins /\ e.refs = d.refs
        /\ e.fit = d.fit /\ e.held = d.held /\ e.reports = d.reports /\ e.failure = d.failure
        /\ e.files = [d.files EXCEPT ![f] = "none"]
    BY <1>0 DEF DirectoryTypes, RunFields
  <1>5. /\ DirectoryTypes(s, e)
        /\ \A g \in FilesOf(s) : e.files[g] = d.files[g] \/ e.files[g] = "none"
    <2>1. DirectoryTypes(s, d)
      BY <1>0
    <2>2. \A g \in FilesOf(s) : e.files[g] = IF g = f THEN "none" ELSE d.files[g]
      BY ONLY <1>4, <2>1 DEF DirectoryTypes
    <2>3. e.files \in [FilesOf(s) -> FileStates]
      BY ONLY <1>4, <2>1 DEF DirectoryTypes, FileStates
    <2>4. DirectoryTypes(s, e)
      BY ONLY <1>4, <2>1, <2>3 DEF DirectoryTypes
    <2> QED BY ONLY <2>2, <2>4
  <1>6. s # "forest" /\ s # "autoencoder" /\ s # "preprocess" /\ "report" \in FilesOf(s)
        /\ (s = "split" => "assignments" \in FilesOf(s))
    BY <1>0, SomeFiles DEF MakesFirst
  <1> HIDE DEF q, e
  <1>7. DirectoryTrue(s, e) /\ WriterTrue(q, e) /\ Like(s, d, e) /\ ModelKept(s, d, e)
    BY <1>0, <1>3, <1>4, <1>5, <1>6 DEF DirectoryTrue, WriterTrue, Like, ModelKept
  <1>8. Kept(s, dirs[s][i], e) /\ DirectoryLine(s, e) /\ DirectoryData(s, e)
    BY <1>0, <1>7, LikeIsKept
  <1> QED BY <1>0, <1>2, <1>3, <1>5, <1>7, <1>8, CommandKeeps

LEMMA FailureWrittenGood ==
    ASSUME PipelineInv, NEW w \in Workers, proc[w] # Idle, FailureWritten(w)
    PROVE  StepGood
  <1> PICK p, s, i, d : p = proc[w] /\ s = proc[w].stage /\ i = proc[w].id /\ d = Directory(w)
    OBVIOUS
  <1>0. /\ CommandTypes(p) /\ s \in Stages /\ i \in RunIds
        /\ s = p.stage /\ i = p.id /\ p.pc = "failing" /\ d = dirs[s][i]
        /\ AtWork(p) /\ WriterTrue(p, d) /\ DirectoryTypes(s, d) /\ DirectoryTrue(s, d)
        /\ \A v \in Workers \ {w} : AtWork(proc[v]) => proc[v].stage # s \/ proc[v].id # i
    BY Mine DEF FailureWritten, AtWork, Directory
  <1>1. PICK code : /\ dirs' = [dirs EXCEPT ![s][i] = [d EXCEPT !.failure = code]]
                    /\ code = "reload_mismatch" => s = "forest"
    BY <1>0 DEF FailureWritten, InDirectory
  <1> DEFINE e == [d EXCEPT !.failure = code]
  <1>2. Turns(w, Idle) /\ Becomes(s, i, e) /\ UNCHANGED <<flows, pins, served>>
    BY <1>0, <1>1, TurnsOf, BecomesOf DEF FailureWritten, OnlyProc, PipelineInv
  <1>4. /\ DOMAIN e = RunFields /\ e.made = d.made /\ e.ins = d.ins /\ e.refs = d.refs
        /\ e.fit = d.fit /\ e.held = d.held /\ e.reports = d.reports /\ e.failure = code
        /\ e.files = d.files
    BY <1>0 DEF DirectoryTypes, RunFields
  <1> HIDE DEF e
  <1>5. DirectoryTypes(s, e) /\ Like(s, d, e) /\ ModelKept(s, d, e)
    BY <1>0, <1>4 DEF DirectoryTypes, Like, ModelKept
  <1>6. DirectoryTrue(s, e)
    BY <1>0, <1>1, <1>4 DEF DirectoryTrue, WriterTrue
  <1>8. Kept(s, dirs[s][i], e) /\ DirectoryLine(s, e) /\ DirectoryData(s, e)
    BY <1>0, <1>5, LikeIsKept
  <1> QED BY <1>0, <1>2, <1>5, <1>6, <1>8, CommandKeeps, IdleIsNotAtWork

LEMMA FinalizeGood ==
    ASSUME PipelineInv, NEW w \in Workers, NEW i \in RunIds,
           NEW ins \in InputChoices("forest"), FinalizeBegins(w, i, ins)
    PROVE  StepGood
  <1> DEFINE q == Running("forest", i, ins, "finalizing")
  <1>0. "forest" \in Stages
    BY StagesIn DEF FrozenStages
  <1>1. Turns(w, q) /\ dirs' = dirs /\ UNCHANGED <<flows, pins, served>>
    BY TurnsOf DEF FinalizeBegins, OnlyProc, PipelineInv
  <1>2. Bound("forest", ins, q.refs)
    BY <1>0, VerifiedIsBound DEF FinalizeBegins, Running
  <1>3. CommandTypes(q) /\ q.stage = "forest" /\ q.ins = ins /\ ~AtWork(q)
    BY <1>0 DEF Running, CommandTypes, CommandFields, AtWork
  <1> HIDE DEF q
  <1> QED BY <1>1, <1>2, <1>3, TurnKeeps

LEMMA FailureRenamedGood ==
    ASSUME PipelineInv, NEW w \in Workers, proc[w] # Idle, FailureRenamed(w)
    PROVE  StepGood
  <1> PICK p, s, i, d : p = proc[w] /\ s = proc[w].stage /\ i = proc[w].id /\ d = Directory(w)
    OBVIOUS
  <1>0. /\ CommandTypes(p) /\ s \in Stages /\ i \in RunIds /\ Bound(s, p.ins, p.refs)
        /\ s = p.stage /\ i = p.id /\ s = "forest" /\ d = dirs[s][i]
        /\ DirectoryTypes(s, d) /\ DirectoryTrue(s, d)
    BY Mine DEF FailureRenamed, CommandTypes, Directory
  <1>1. CASE d.failure # "reload_mismatch"
    <2>1. OnlyProc(w, Idle) /\ dirs' = dirs
      BY <1>1 DEF FailureRenamed
    <2> QED BY <2>1, EndGood
  <1>2. CASE d.failure = "reload_mismatch"
    <2> DEFINE e == [d EXCEPT !.failure = "renamed"]
               q == [p EXCEPT !.pc = "writing", !.next = 3]
    <2>1. Len(ForestFiles) = 3 /\ ReportPlace["forest"] = 3
      BY SomeFiles DEF ReportPlace
    <2>2. Turns(w, q) /\ Becomes(s, i, e) /\ UNCHANGED <<flows, pins, served>>
      BY <1>0, <1>2, <2>1, TurnsOf, BecomesOf DEF FailureRenamed, OnlyProc, InDirectory, PipelineInv
    <2>3. CommandTypes(q) /\ q.stage = s /\ q.id = i /\ q.ins = p.ins /\ q.refs = p.refs
          /\ q.pc = "writing" /\ q.next = 3
      <3>1. /\ DOMAIN q = DOMAIN p /\ q.stage = p.stage /\ q.id = p.id /\ q.ins = p.ins
            /\ q.refs = p.refs /\ q.pc = "writing" /\ q.next = 3
        BY <1>0 DEF CommandTypes, CommandFields
      <3> HIDE DEF q
      <3>2. CommandTypes(p) /\ s = p.stage /\ i = p.id
        BY <1>0
      <3>3. CommandTypes(q)
        BY ONLY <3>1, <3>2 DEF CommandTypes
      <3> QED BY ONLY <3>1, <3>2, <3>3
    <2>4. /\ DOMAIN e = RunFields /\ e.made = d.made /\ e.ins = d.ins /\ e.refs = d.refs
          /\ e.fit = d.fit /\ e.held = d.held /\ e.reports = d.reports /\ e.failure = "renamed"
          /\ e.files = d.files
      BY <1>0 DEF DirectoryTypes, RunFields
    <2>5. d.made /\ d.reports = 0
      <3>1. NoRun(s).failure = "none"
        BY DEF NoRun
      <3> QED BY <1>0, <1>2, <3>1 DEF DirectoryTrue
    <2> HIDE DEF q, e
    <2>6. DirectoryTypes(s, e) /\ Like(s, d, e) /\ ModelKept(s, d, e) /\ DirectoryTrue(s, e)
      BY <1>0, <2>4, <2>5 DEF DirectoryTypes, Like, ModelKept, DirectoryTrue
    <2>7. WriterTrue(q, e)
      BY <1>0, <2>3, <2>4, <2>5 DEF WriterTrue
    <2>8. \A v \in Workers : AtWork(proc[v]) => proc[v].stage # s \/ proc[v].id # i
      BY <1>0, <1>2, Nobody
    <2>9. Kept(s, dirs[s][i], e) /\ DirectoryLine(s, e) /\ DirectoryData(s, e)
      BY <1>0, <2>6, LikeIsKept
    <2> QED BY <1>0, <2>2, <2>3, <2>6, <2>7, <2>8, <2>9, CommandKeeps
  <1> QED BY <1>1, <1>2

-----------------------------------------------------------------------------
(* The flows a command fits and scores, while its inputs are what they were. *)
LEMMA FitsTraining ==
    ASSUME PipelineInv, NEW s \in DOMAIN FitFile, NEW ins, NEW refs, Bound(s, ins, refs)
    PROVE  FitRows(s, ins) \subseteq Part("train")
  <1>0. s \in {"preprocess", "logistic", "forest", "february", "autoencoder", "rate"}
    BY DEF FitFile
  <1>1. CASE s = "preprocess"
    <2>1. dirs["split"][ins["split"]].held = Assignment(flows)
      BY <1>1, InputsAre DEF Bound
    <2>2. FitRows(s, ins) = AssignedRows(ins["split"], "train")
      BY <1>1 DEF FitRows
    <2> QED BY <2>1, <2>2 DEF AssignedRows, Part
  <1>2. CASE s \in {"logistic", "forest", "autoencoder", "rate"}
    <2>1. ins["preprocess"] \in RunIds /\ "preprocess" \in Stages
      BY <1>2, InputsAre, StagesIn DEF Bound
    <2>2. FitRows(s, ins) = dirs["preprocess"][ins["preprocess"]].fit
      BY <1>2 DEF FitRows
    <2> QED BY <2>1, <2>2 DEF PipelineInv, DataTrue, DirectoryData
  <1>3. CASE s = "february"
    <2>1. ins["forest"] \in RunIds /\ "forest" \in Stages
      BY <1>3, InputsAre, StagesAre DEF Bound
    <2>2. FitRows(s, ins) = dirs["forest"][ins["forest"]].fit
      BY <1>3 DEF FitRows
    <2> QED BY <2>1, <2>2 DEF PipelineInv, DataTrue, DirectoryData
  <1> QED BY <1>0, <1>1, <1>2, <1>3

LEMMA HoldsTheRest ==
    ASSUME PipelineInv, NEW s \in DOMAIN HeldFile, NEW ins, NEW refs, Bound(s, ins, refs)
    PROVE  /\ s = "split" => HeldRows(s, ins) = Assignment(flows)
           /\ s \in {"preprocess", "logistic", "forest", "rate"} =>
                 HeldRows(s, ins) \subseteq Part("validation")
           /\ s \in {"february", "autoencoder"} => HeldRows(s, ins) \subseteq Part("test")
  <1>0. s \in {"split", "preprocess", "logistic", "forest", "february", "autoencoder", "rate"}
    BY DEF HeldFile
  <1>1. CASE s = "split"
    <2>1. HeldRows(s, ins) = Assignment(flows)
      BY <1>1 DEF HeldRows
    <2> QED BY <1>1, <2>1
  <1>2. CASE s = "preprocess"
    <2>1. dirs["split"][ins["split"]].held = Assignment(flows)
      BY <1>2, InputsAre DEF Bound
    <2>2. HeldRows(s, ins) = AssignedRows(ins["split"], "validation")
      BY <1>2 DEF HeldRows
    <2> QED BY <1>2, <2>1, <2>2 DEF AssignedRows, Part
  <1>3. CASE s \in {"logistic", "forest", "rate"}
    <2>1. ins["preprocess"] \in RunIds /\ "preprocess" \in Stages
      BY <1>3, InputsAre, StagesIn DEF Bound
    <2>2. HeldRows(s, ins) = dirs["preprocess"][ins["preprocess"]].held
      BY <1>3 DEF HeldRows
    <2>3. DirectoryData("preprocess", dirs["preprocess"][ins["preprocess"]])
      BY <2>1 DEF PipelineInv, DataTrue
    <2> QED BY <1>3, <2>2, <2>3 DEF DirectoryData
  <1>4. CASE s = "february"
    <2>1. dirs["split"][ins["split"]].held = Assignment(flows)
      BY <1>4, InputsAre DEF Bound
    <2>2. HeldRows(s, ins) = AssignedRows(ins["split"], "test")
      BY <1>4 DEF HeldRows
    <2> QED BY <1>4, <2>1, <2>2 DEF AssignedRows, Part
  <1>5. CASE s = "autoencoder"
    <2>1. ins["february"] \in RunIds /\ "february" \in Stages
      BY <1>5, InputsAre, StagesIn DEF Bound
    <2>2. HeldRows(s, ins) = dirs["february"][ins["february"]].held
      BY <1>5 DEF HeldRows
    <2>3. DirectoryData("february", dirs["february"][ins["february"]])
      BY <2>1 DEF PipelineInv, DataTrue
    <2> QED BY <1>5, <2>2, <2>3 DEF DirectoryData
  <1> QED BY <1>0, <1>1, <1>2, <1>3, <1>4, <1>5

(* The sealed autoencoder names a February run of its own preprocessing. *)
LEMMA SealedAgrees ==
    ASSUME PipelineInv, NEW ins, NEW refs, Bound("autoencoder", ins, refs),
           FebruaryVerified(ins["february"], ins["preprocess"], ins["forest"])
    PROVE  LET v == dirs["february"][ins["february"]]
           IN v.made /\ v.refs["preprocess"] = refs["preprocess"]
  <1> PICK v : v = dirs["february"][ins["february"]]
    OBVIOUS
  <1>1. /\ pins # None /\ ins["preprocess"] = pins["preprocess"]
        /\ refs["preprocess"] = <<pins["preprocess"], "whole">>
        /\ ins["february"] \in RunIds /\ ins["preprocess"] \in RunIds
    BY InputsAre DEF Bound
  <1>2. pins["february"] = ins["february"] /\ v.refs["preprocess"] = Ref("preprocess", ins["preprocess"])
    BY DEF FebruaryVerified, Pinned, BoundTo
  <1>3. v.made /\ v.refs["preprocess"] # <<pins["preprocess"], "altered">>
    BY <1>1, <1>2 DEF PipelineInv, PinsTrue, FrozenStages
  <1>4. PICK d \in RunIds : RefTrue(v.refs["preprocess"], d)
    <2>1. DirectoryLine("february", v) /\ "february" \in Stages
      BY <1>1, StagesIn DEF PipelineInv, LineageTrue
    <2>2. Bound("february", v.ins, v.refs)
      BY <1>3, <2>1 DEF DirectoryLine
    <2> QED BY <2>2, InputsAre DEF Bound
  <1>5. v.refs["preprocess"] \in {<<d, "whole">>, <<d, "altered">>}
    BY <1>4 DEF RefTrue
  <1>6. PICK x : v.refs["preprocess"] = <<pins["preprocess"], x>>
    BY <1>1, <1>2 DEF Ref, MakesFirst
  <1>7. v.refs["preprocess"] = <<pins["preprocess"], "whole">>
    BY <1>3, <1>5, <1>6
  <1> QED BY <1>1, <1>3, <1>7

(* The file a command writes next. *)
LEMMA WrittenFile ==
    ASSUME PipelineInv, NEW w \in Workers, proc[w] # Idle, Writing(w)
    PROVE  LET s == proc[w].stage
               n == proc[w].next
           IN /\ NextFile(w) \in FilesOf(s)
              /\ NextFile(w) = "report" <=> n = ReportPlace[s]
              /\ s = "autoencoder" => /\ NextFile(w) = "report" => n > 5
                                      /\ n = 5 => NextFile(w) = "manifest"
                                      /\ n > 5 => NextFile(w) = "report"
  <1> PICK p, s, n : p = proc[w] /\ s = p.stage /\ n = p.next
    OBVIOUS
  <1>1. CommandTypes(p) /\ s \in Stages
    BY Mine
  <1>2. n \in 1 .. Len(Run[s].files) /\ NextFile(w) = Run[s].files[n]
    BY <1>1, OneReport DEF Writing, CommandTypes, NextFile
  <1>3. NextFile(w) \in FilesOf(s)
    BY <1>2 DEF FilesOf, ToSet
  <1>4. NextFile(w) = "report" <=> n = ReportPlace[s]
    BY <1>1, <1>2, OneReport
  <1>5. ASSUME s = "autoencoder"
        PROVE  /\ NextFile(w) = "report" => n > 5
               /\ n = 5 => NextFile(w) = "manifest"
               /\ n > 5 => NextFile(w) = "report"
    <2>1. Run[s].files = AutoencoderFiles /\ ReportPlace[s] = 6
      BY <1>5, FilesAre DEF ReportPlace
    <2>2. n \in 1 .. 6
      BY <1>2, <2>1, SomeFiles
    <2>3. AutoencoderFiles[5] = "manifest" /\ NextFile(w) = AutoencoderFiles[n]
      BY <1>2, <2>1, SomeFiles
    <2> QED BY ONLY <1>4, <2>1, <2>2, <2>3
  <1> QED BY <1>3, <1>4, <1>5

(* A file is written. *)
LEMMA WriteFileGood ==
    ASSUME PipelineInv, NEW w \in Workers, proc[w] # Idle, WriteFile(w)
    PROVE  StepGood
  <1> PICK p, s, i, d, n, f : /\ p = proc[w] /\ s = proc[w].stage /\ i = proc[w].id
                              /\ d = Directory(w) /\ n = proc[w].next /\ f = NextFile(w)
    OBVIOUS
  <1>0. /\ CommandTypes(p) /\ s \in Stages /\ i \in RunIds /\ Bound(s, p.ins, p.refs)
        /\ s = p.stage /\ i = p.id /\ n = p.next /\ p.pc = "writing" /\ d = dirs[s][i]
        /\ AtWork(p) /\ WriterTrue(p, d) /\ DirectoryTypes(s, d) /\ DirectoryTrue(s, d)
        /\ DirectoryLine(s, d) /\ DirectoryData(s, d)
        /\ \A v \in Workers \ {w} : AtWork(proc[v]) => proc[v].stage # s \/ proc[v].id # i
    BY Mine DEF WriteFile, Writing, AtWork, Directory
  <1>1. /\ n \in Nat \ {0} /\ Writing(w) /\ Ready(w) /\ f \in FilesOf(s)
        /\ f = "report" <=> n = ReportPlace[s]
        /\ s = "autoencoder" => /\ f = "report" => n > 5
                                /\ n = 5 => f = "manifest"
                                /\ n > 5 => f = "report"
        /\ ReportPlace[s] \in Nat
    <2>1. Writing(w) /\ Ready(w)
      BY DEF WriteFile
    <2>2. n \in Nat \ {0}
      BY <1>0 DEF CommandTypes
    <2>3. ReportPlace[s] \in Nat
      <3>1. s \in Stages
        BY <1>0
      <3> QED BY ONLY <3>1, OneReport
    <2>4. /\ NextFile(w) \in FilesOf(s)
          /\ NextFile(w) = "report" <=> n = ReportPlace[s]
          /\ s = "autoencoder" => /\ NextFile(w) = "report" => n > 5
                                  /\ n = 5 => NextFile(w) = "manifest"
                                  /\ n > 5 => NextFile(w) = "report"
      <3>1. s = proc[w].stage /\ n = proc[w].next
        OBVIOUS
      <3> QED BY ONLY PipelineInv, proc[w] # Idle, <2>1, <3>1, WrittenFile
    <2>5. f = NextFile(w)
      OBVIOUS
    <2> QED BY ONLY <2>1, <2>2, <2>3, <2>4, <2>5
  <1> DEFINE q == [p EXCEPT !.next = n + 1]
  <1> DEFINE fit == IF s \in DOMAIN FitFile /\ FitFile[s] = f THEN FitRows(s, p.ins) ELSE d.fit
             held == IF s \in DOMAIN HeldFile /\ HeldFile[s] = f THEN HeldRows(s, p.ins) ELSE d.held
             refs == IF s = "autoencoder" /\ f = "manifest"
                     THEN [d.refs EXCEPT !["february"] = Ref("february", p.ins["february"])]
                     ELSE d.refs
             reports == IF f = "report" THEN d.reports + 1 ELSE d.reports
             e == [d EXCEPT !.files[f] = "whole", !.fit = fit, !.held = held,
                            !.refs = refs, !.reports = reports]
  <1>2. /\ fit = IF s \in DOMAIN FitFile /\ FitFile[s] = f THEN FitRows(s, p.ins) ELSE d.fit
        /\ held = IF s \in DOMAIN HeldFile /\ HeldFile[s] = f THEN HeldRows(s, p.ins) ELSE d.held
        /\ refs = IF s = "autoencoder" /\ f = "manifest"
                  THEN [d.refs EXCEPT !["february"] = Ref("february", p.ins["february"])]
                  ELSE d.refs
        /\ reports = IF f = "report" THEN d.reports + 1 ELSE d.reports
    OBVIOUS
  <1>21. dirs' = [dirs EXCEPT ![s][i] = e]
    BY <1>0 DEF WriteFile, InDirectory
  <1> HIDE DEF fit, held, refs, reports
  <1>3. Turns(w, q) /\ Becomes(s, i, e) /\ UNCHANGED <<flows, pins, served>>
    BY <1>0, <1>21, TurnsOf, BecomesOf DEF WriteFile, OnlyProc, PipelineInv
  <1>4. /\ DOMAIN q = DOMAIN p /\ q.stage = s /\ q.id = i /\ q.ins = p.ins
        /\ q.refs = p.refs /\ q.pc = "writing" /\ q.next = n + 1
    BY <1>0 DEF CommandTypes, CommandFields
  <1>5. /\ DOMAIN e = RunFields /\ e.made = d.made /\ e.ins = d.ins /\ e.refs = refs
        /\ e.fit = fit /\ e.held = held /\ e.reports = reports /\ e.failure = d.failure
        /\ e.files = [d.files EXCEPT ![f] = "whole"]
    BY <1>0 DEF DirectoryTypes, RunFields
  <1> HIDE DEF q, e
  <1>6. CommandTypes(q)
    <2>1. CommandTypes(p) /\ s = p.stage /\ i = p.id
      BY <1>0
    <2>2. n + 1 \in Nat \ {0}
      BY <1>1
    <2> QED BY ONLY <1>4, <2>1, <2>2 DEF CommandTypes
  <1>7. /\ d.files \in [FilesOf(s) -> FileStates] /\ d.reports \in Nat
        /\ \A g \in FilesOf(s) : e.files[g] = IF g = f THEN "whole" ELSE d.files[g]
        /\ e.files \in [FilesOf(s) -> FileStates] /\ e.made \in BOOLEAN
    BY <1>0, <1>1, <1>5 DEF DirectoryTypes, FileStates
  <1>8. f = "report" => d.reports = 0
    <2> SUFFICES ASSUME f = "report" PROVE d.reports = 0
      OBVIOUS
    <2>1. WriterTrue(p, d) /\ AtWork(p) /\ p.pc = "writing"
      BY <1>0
    <2>2. p.next \in Nat /\ p.next = ReportPlace[p.stage]
      BY <1>0, <1>1
    <2>3. p.next <= ReportPlace[p.stage]
      BY ONLY <2>2
    <2> QED BY ONLY <2>1, <2>3 DEF WriterTrue
  <1>9. reports \in {0, 1}
    <2>0. d.reports \in Nat /\ d.reports <= 1
      BY <1>0 DEF DirectoryTrue, DirectoryTypes
    <2>1. d.reports \in {0, 1}
      BY ONLY <2>0
    <2>2. reports = IF f = "report" THEN d.reports + 1 ELSE d.reports
      BY <1>2
    <2> QED BY ONLY <1>8, <2>1, <2>2
  <1>10. DirectoryTypes(s, e)
    BY <1>5, <1>7, <1>9 DEF DirectoryTypes
  <1>11. "report" \in FilesOf(s) /\ (s = "autoencoder" => "manifest" \in FilesOf(s) /\ "model" \in FilesOf(s))
         /\ (s = "forest" => "model" \in FilesOf(s)) /\ (s = "split" => "assignments" \in FilesOf(s))
    BY <1>0, SomeFiles
  <1>12. DirectoryTrue(s, e)
    <2>1. d.made /\ d.failure # "reload_mismatch"
      BY <1>0 DEF WriterTrue
    <2>2. e.reports = 0 => e.files["report"] = "none"
      <3>1. reports = IF f = "report" THEN d.reports + 1 ELSE d.reports
        BY <1>2
      <3>2. d.reports = 0 => d.files["report"] = "none"
        BY <1>0 DEF DirectoryTrue
      <3>3. e.reports = 0 => f # "report" /\ d.reports = 0
        BY <1>5, <1>7, <1>8, <3>1
      <3> QED BY <1>7, <1>11, <3>2, <3>3
    <2>3. s = "autoencoder" /\ e.files["report"] # "none" => e.files["manifest"] # "none"
      <3>1. s = "autoencoder" /\ f = "report" => d.files["manifest"] # "none"
        BY <1>0, <1>1 DEF WriterTrue
      <3> QED BY <1>0, <1>7, <1>11, <3>1 DEF DirectoryTrue
    <2> QED BY <1>5, <1>9, <2>1, <2>2, <2>3 DEF DirectoryTrue
  <1>13. WriterTrue(q, e)
    <2>1. d.made /\ d.failure # "reload_mismatch" /\ (s = "autoencoder" => d.ins = p.ins)
      BY <1>0 DEF WriterTrue
    <2>2. n + 1 <= ReportPlace[s] => reports = 0
      <3>1. n + 1 <= ReportPlace[s] => n <= ReportPlace[s] /\ n # ReportPlace[s]
        BY <1>1
      <3>2. n <= ReportPlace[s] => d.reports = 0
        BY <1>0 DEF WriterTrue
      <3> QED BY <1>1, <1>2, <3>1, <3>2
    <2>3. s = "autoencoder" /\ n + 1 > 5 => e.files["manifest"] # "none"
      <3>1. s = "autoencoder" /\ n > 5 => d.files["manifest"] # "none"
        BY <1>0 DEF WriterTrue
      <3>2. s = "autoencoder" /\ n = 5 => f = "manifest"
        BY <1>1
      <3>3. n + 1 > 5 => n > 5 \/ n = 5
        BY <1>1
      <3> QED BY <1>7, <1>11, <3>1, <3>2, <3>3
    <2> QED BY <1>4, <1>5, <2>1, <2>2, <2>3 DEF WriterTrue
  <1>14. ModelKept(s, d, e)
    BY <1>7, <1>11 DEF ModelKept
  <1>15. /\ DOMAIN refs = DOMAIN d.refs /\ refs["preprocess"] = d.refs["preprocess"]
         /\ Bound(s, d.ins, refs) /\ d.made
    <2>1. d.made /\ Bound(s, d.ins, d.refs)
      BY <1>0 DEF WriterTrue, DirectoryLine
    <2>2. DOMAIN refs = DOMAIN d.refs /\ refs["preprocess"] = d.refs["preprocess"]
      BY <1>2
    <2> QED BY <2>1, <2>2 DEF Bound
  <1>16. DirectoryData(s, e)
    <2>1. fit \subseteq Part("train")
      BY <1>0, <1>2, FitsTraining DEF DirectoryData
    <2>2. held = d.held \/ (s \in DOMAIN HeldFile /\ held = HeldRows(s, p.ins))
      BY <1>2
    <2>3. /\ s \in {"preprocess", "logistic", "forest", "rate"} => held \subseteq Part("validation")
          /\ s \in {"february", "autoencoder"} => held \subseteq Part("test")
      BY <1>0, <2>2, HoldsTheRest DEF DirectoryData
    <2>4. s = "split" /\ e.files["assignments"] # "none" => held = Assignment(flows)
      <3>1. CASE s = "split" /\ f = "assignments"
        <4>1. s \in DOMAIN HeldFile /\ HeldFile[s] = f
          BY <3>1 DEF HeldFile
        <4> QED BY <1>0, <1>2, <3>1, <4>1, HoldsTheRest
      <3>2. CASE s = "split" /\ f # "assignments"
        <4>1. held = d.held
          BY <1>2, <3>2 DEF HeldFile
        <4> QED BY <1>0, <1>7, <1>11, <3>2, <4>1 DEF DirectoryData
      <3> QED BY <3>1, <3>2
    <2> QED BY <1>5, <2>1, <2>3, <2>4 DEF DirectoryData
  <1>17. Kept(s, d, e)
    <2>1. s = "preprocess" /\ d.files["report"] = "altered" => e.files["report"] = "altered"
      BY <1>0, <1>7, <1>8, <1>11 DEF DirectoryTrue
    <2>2. s = "split" /\ d.held = Assignment(flows) => held = Assignment(flows)
      <3>1. held = d.held \/ (s \in DOMAIN HeldFile /\ held = HeldRows(s, p.ins))
        BY <1>2
      <3> QED BY <1>0, <3>1, HoldsTheRest
    <2> QED BY <1>5, <1>15, <2>1, <2>2 DEF Kept
  <1>18. DirectoryLine(s, e)
    <2>1. ASSUME s = "autoencoder", e.files["manifest"] # "none" PROVE FebruaryAgrees(e)
      <3>1. CASE f = "manifest"
        <4>1. FebruaryVerified(p.ins["february"], p.ins["preprocess"], p.ins["forest"])
          BY <1>1, <2>1, <3>1 DEF Ready
        <4>2. d.ins = p.ins
          BY <1>0, <2>1 DEF WriterTrue
        <4> QED BY <1>5, <1>15, <2>1, <4>1, <4>2, SealedAgrees DEF FebruaryAgrees
      <3>2. CASE f # "manifest"
        <4>1. d.files["manifest"] # "none"
          BY <1>7, <1>11, <2>1, <3>2
        <4> QED BY <1>0, <1>5, <1>15, <2>1, <4>1 DEF DirectoryLine, FebruaryAgrees
      <3> QED BY <3>1, <3>2
    <2> QED BY <1>5, <1>15, <2>1 DEF DirectoryLine
  <1>19. Kept(s, dirs[s][i], e) /\ ModelKept(s, dirs[s][i], e)
    BY <1>0, <1>14, <1>17
  <1>20. /\ CommandTypes(q) /\ Bound(q.stage, q.ins, q.refs)
         /\ q.stage = s /\ q.id = i /\ WriterTrue(q, e)
    BY <1>0, <1>4, <1>6, <1>13
  <1> QED BY <1>0, <1>3, <1>10, <1>12, <1>16, <1>18, <1>19, <1>20, CommandKeeps

-----------------------------------------------------------------------------
(* The steps of nobody: a commit, a server that loads, a file that is altered. *)
Grows == PipelineInv' /\ AllKept /\ PinsKept

LEMMA PinnedStep ==
    ASSUME PipelineInv, UNCHANGED <<flows, dirs, proc>>, PinsKept, PinsTrue', ServedTrue'
    PROVE  StepGood
  <1>1. PipelineTypes'
    BY DEF PipelineInv, PipelineTypes
  <1>2. WritersTrue'
    BY DEF PipelineInv, WritersTrue
  <1>3. AllKept /\ ModelsKept
    BY DEF AllKept, Kept, ModelsKept, ModelKept
  <1>4. ASSUME NEW t \in Stages, NEW j \in RunIds PROVE DirectoryLine(t, dirs[t][j])'
    <2>1. PICK d : d = dirs[t][j] /\ d = dirs'[t][j]
      OBVIOUS
    <2>2. DirectoryLine(t, d)
      BY <2>1 DEF PipelineInv, LineageTrue
    <2>3. ASSUME d.made PROVE Bound(t, d.ins, d.refs)'
      BY <1>3, <2>2, <2>3, StillBound DEF DirectoryLine, PipelineInv
    <2>4. ASSUME d.made, t = "autoencoder", d.files["manifest"] # "none" PROVE FebruaryAgrees(d)'
      BY <2>2, <2>4 DEF DirectoryLine, FebruaryAgrees
    <2> QED BY <2>1, <2>3, <2>4 DEF DirectoryLine
  <1>5. ASSUME NEW v \in Workers, proc'[v] # Idle
        PROVE  Bound(proc[v].stage, proc[v].ins, proc[v].refs)'
    <2>1. PICK p : p = proc'[v] /\ p = proc[v]
      OBVIOUS
    <2>2. p.stage \in Stages /\ Bound(p.stage, p.ins, p.refs)
      BY <1>5, <2>1 DEF PipelineInv, PipelineTypes, CommandTypes, LineageTrue
    <2>3. Bound(p.stage, p.ins, p.refs)'
      BY <1>3, <2>2, StillBound DEF PipelineInv
    <2> QED BY <2>1, <2>3
  <1>6. DataTrue'
    BY DEF PipelineInv, DataTrue, DirectoryData, Part
  <1> QED BY <1>1, <1>2, <1>3, <1>4, <1>5, <1>6 DEF StepGood, PipelineInv, LineageTrue

LEMMA PinnedIsMade ==
    ASSUME PipelineInv, NEW s \in Stages, NEW i \in RunIds, Whole(s, i, FilesOf(s))
    PROVE  dirs[s][i].made /\ dirs[s][i].files["report"] = "whole"
  <1>1. "report" \in FilesOf(s)
    BY SomeFiles
  <1> QED BY <1>1, ReportedIsMade DEF Whole

LEMMA AutoencoderIsMade ==
    ASSUME PipelineInv, NEW i \in RunIds, SourceProvenanceVerified(i)
    PROVE  dirs["autoencoder"][i].made
  <1>1. "provenance" \in FilesOf("autoencoder")
    <2>1. 1 \in 1 .. Len(AutoencoderFiles) /\ AutoencoderFiles[1] = "provenance"
      BY DEF AutoencoderFiles
    <2> QED BY <2>1, FilesAre DEF FilesOf, ToSet
  <1>2. "provenance" \in ToSet(AutoencoderSources)
    BY DEF AutoencoderSources, ToSet
  <1>3. dirs["autoencoder"][i].files["provenance"] = "whole"
    BY <1>2 DEF SourceProvenanceVerified, Whole
  <1> QED BY <1>1, <1>3, ReportedIsMade, StagesIn

LEMMA PinGood ==
    ASSUME PipelineInv, NEW choice \in [FrozenStages -> RunIds], Pin(choice)
    PROVE  StepGood
  <1>1. pins = None /\ pins' = choice /\ UNCHANGED <<flows, dirs, proc, served>>
    BY DEF Pin
  <1>2. \A s \in FrozenStages : /\ choice[s] \in RunIds /\ dirs[s][choice[s]].made
                                /\ dirs[s][choice[s]].files["report"] = "whole"
    BY PinnedIsMade, StagesIn DEF Pin
  <1>3. dirs["february"][choice["february"]].refs["preprocess"] # <<choice["preprocess"], "altered">>
    <2>1. PICK v : v = dirs["february"][choice["february"]]
      OBVIOUS
    <2>2. v.made /\ dirs["preprocess"][choice["preprocess"]].files["report"] = "whole"
          /\ choice["february"] \in RunIds /\ "february" \in Stages
      BY <1>2, <2>1, StagesIn DEF FrozenStages
    <2>3. Bound("february", v.ins, v.refs)
      BY <2>1, <2>2 DEF PipelineInv, LineageTrue, DirectoryLine
    <2>4. RefTrue(v.refs["preprocess"], v.ins["preprocess"])
      BY <2>3, InputsAre DEF Bound
    <2>5. PICK ref, d : ref = v.refs["preprocess"] /\ d = v.ins["preprocess"]
      OBVIOUS
    <2>6. ASSUME ref = <<choice["preprocess"], "altered">> PROVE FALSE
      <3>1. ref # <<d, "whole">>
        BY <2>6
      <3>2. ref = <<d, "altered">> /\ dirs["preprocess"][d].files["report"] = "altered"
        BY <2>4, <2>5, <3>1 DEF RefTrue
      <3>3. d = choice["preprocess"]
        BY <2>6, <3>2
      <3> QED BY <2>2, <3>2, <3>3
    <2> QED BY <2>1, <2>5, <2>6
  <1>4. PinsKept /\ PinsTrue'
    BY <1>1, <1>2, <1>3, PinsAreNotNone DEF PinsKept, PinsTrue
  <1>5. ServedTrue'
    BY <1>1 DEF PipelineInv, ServedTrue
  <1> QED BY <1>1, <1>4, <1>5, PinnedStep

LEMMA BundleTrustedGood ==
    ASSUME PipelineInv, NEW i \in RunIds, BundleTrusted(i)
    PROVE  StepGood
  <1>1. UNCHANGED <<flows, dirs, proc, served>> /\ pins # None /\ "autoencoder" \notin DOMAIN pins
    BY DEF BundleTrusted
  <1>2. /\ DOMAIN pins' = DOMAIN pins \cup {"autoencoder"}
        /\ pins'["autoencoder"] = i
        /\ \A s \in DOMAIN pins : pins'[s] = pins[s]
    BY <1>1 DEF BundleTrusted
  <1>3. dirs["autoencoder"][i].made
    BY PinnedIsMade, StagesIn DEF BundleTrusted
  <1>4. PinsTrue
    BY DEF PipelineInv
  <1>8. pins' # None
    <2>1. DOMAIN pins = FrozenStages /\ \A s \in FrozenStages : pins[s] \in RunIds
      BY <1>1, <1>4 DEF PinsTrue
    <2>2. pins' \in [FrozenStages \cup {"autoencoder"} -> RunIds]
      BY <1>1, <2>1 DEF BundleTrusted
    <2> QED BY <2>2, PinsAreNotNone
  <1>5. PinsKept /\ PinsTrue'
    BY <1>1, <1>2, <1>3, <1>4, <1>8 DEF PinsKept, PinsTrue, FrozenStages
  <1>6. AllKept
    BY <1>1 DEF AllKept, Kept
  <1>7. ServedTrue'
    BY <1>1, <1>4, <1>5, <1>6, StillServed DEF PipelineInv
  <1> QED BY <1>1, <1>5, <1>7, PinnedStep

LEMMA PredictorLoadedGood ==
    ASSUME PipelineInv, NEW d \in RunIds, NEW l \in RunIds, NEW m \in RunIds,
           PredictorLoaded(d, l, m)
    PROVE  StepGood
  <1>1. UNCHANGED <<flows, dirs, proc, pins>>
    BY DEF PredictorLoaded
  <1>2. PinsTrue' /\ PinsKept
    BY <1>1 DEF PipelineInv, PinsTrue, PinsKept
  <1>3. dirs["preprocess"][d].files["report"] = "whole" /\ pins # None /\ pins["preprocess"] = d
    BY PinnedIsMade, StagesIn DEF PredictorLoaded, Pinned
  <1>4. Ref("preprocess", d) = <<d, "whole">>
    BY <1>3 DEF Ref, MakesFirst
  <1>5. dirs["logistic"][l].made /\ dirs["forest"][m].made
    BY PinnedIsMade, StagesIn DEF PredictorLoaded, Pinned
  <1>6. /\ dirs["logistic"][l].refs["preprocess"] = <<d, "whole">>
        /\ dirs["forest"][m].refs["preprocess"] = <<d, "whole">>
    BY <1>4 DEF PredictorLoaded, BoundTo
  <1>7. served' = [preprocess |-> d, logistic |-> l, forest |-> m, detector |-> 0]
    BY DEF PredictorLoaded
  <1>8. ServedTrue'
    BY <1>1, <1>3, <1>5, <1>6, <1>7 DEF ServedTrue, OfServed
  <1> QED BY <1>1, <1>2, <1>8, PinnedStep

LEMMA DetectorLoadedGood ==
    ASSUME PipelineInv, NEW i \in RunIds, DetectorLoaded(i)
    PROVE  StepGood
  <1>1. /\ UNCHANGED <<flows, dirs, proc, pins>> /\ served # None
        /\ served' = [served EXCEPT !.detector = i]
    BY DEF DetectorLoaded
  <1>2. PinsTrue' /\ PinsKept
    BY <1>1 DEF PipelineInv, PinsTrue, PinsKept
  <1>3. dirs["autoencoder"][i].made
    BY AutoencoderIsMade DEF DetectorLoaded
  <1>4. dirs["autoencoder"][i].refs["preprocess"] = <<pins["preprocess"], "whole">>
    BY DEF DetectorLoaded, BundleVerified
  <1>5. /\ DOMAIN served = {"preprocess", "logistic", "forest", "detector"}
        /\ pins # None /\ served.preprocess = pins["preprocess"]
        /\ OfServed("logistic", served.logistic) /\ OfServed("forest", served.forest)
    BY <1>1 DEF PipelineInv, ServedTrue
  <1>6. /\ DOMAIN served' = {"preprocess", "logistic", "forest", "detector"}
        /\ served'.preprocess = served.preprocess /\ served'.logistic = served.logistic
        /\ served'.forest = served.forest /\ served'.detector = i
    BY <1>1, <1>5
  <1>7. ServedTrue'
    BY <1>1, <1>3, <1>4, <1>5, <1>6 DEF ServedTrue, OfServed
  <1> QED BY <1>1, <1>2, <1>7, PinnedStep

(* Files of a run that is there get another content. *)
LEMMA AlteredGood ==
    ASSUME PipelineInv, NEW s \in Stages, NEW i \in RunIds, NEW f \in FilesOf(s),
           NEW x \in FileStates, dirs' = [dirs EXCEPT ![s][i].files[f] = x],
           UNCHANGED <<flows, proc, pins, served>>,
           dirs[s][i].made, x # "none",
           f \in {"report", "manifest", "assignments"} => dirs[s][i].files[f] # "none",
           f = "report" => x = "altered"
    PROVE  Grows
  <1> PICK d : d = dirs[s][i]
    OBVIOUS
  <1> DEFINE e == [d EXCEPT !.files[f] = x]
  <1>1. DirectoryTypes(s, d)
    BY DEF PipelineInv, PipelineTypes
  <1>2. Becomes(s, i, e)
    <2>1. dirs' = [dirs EXCEPT ![s][i] = e]
      BY DEF PipelineInv, PipelineTypes
    <2> QED BY <2>1, BecomesOf DEF PipelineInv
  <1>3. /\ e.made = d.made /\ e.ins = d.ins /\ e.refs = d.refs /\ e.fit = d.fit /\ e.held = d.held
        /\ \A g \in FilesOf(s) : e.files[g] = IF g = f THEN x ELSE d.files[g]
    BY <1>1 DEF DirectoryTypes, RunFields
  <1>4. Becomes(s, i, [dirs[s][i] EXCEPT !.files[f] = x])
    BY <1>2
  <1> HIDE DEF e
  <1>5. Like(s, d, e)
    <2>1. "report" \in FilesOf(s) /\ (s = "autoencoder" => "manifest" \in FilesOf(s))
          /\ (s = "split" => "assignments" \in FilesOf(s))
      BY SomeFiles
    <2> QED BY <1>3, <2>1 DEF Like
  <1>6. PipelineTypes' /\ WritersTrue'
    BY <1>4, WritersKeepAltered DEF PipelineInv
  <1>7. Kept(s, dirs[s][i], e) /\ DirectoryLine(s, e) /\ DirectoryData(s, e)
    BY <1>5, LikeIsKept
  <1>8. \A v \in Workers : proc'[v] # Idle => proc'[v].stage \in Stages /\ proc'[v] = proc[v]
    BY DEF PipelineInv, PipelineTypes, CommandTypes
  <1>9. LineageTrue' /\ PinsTrue' /\ ServedTrue' /\ DataTrue'
    BY <1>2, <1>7, <1>8, LineageKeeps
  <1>10. AllKept /\ PinsKept
    BY <1>2, <1>7 DEF AllKept, Becomes, Kept, PinsKept
  <1> QED BY <1>6, <1>9, <1>10 DEF Grows, PipelineInv

LEMMA AlterGood ==
    ASSUME PipelineInv, NEW s \in Stages, NEW i \in RunIds, NEW f \in FilesOf(s), Alter(s, i, f)
    PROVE  Grows
  <1>1. dirs[s][i].files[f] = "whole" /\ UNCHANGED <<flows, proc, pins, served>>
        /\ dirs' = [dirs EXCEPT ![s][i].files[f] = "altered"]
    BY DEF Alter
  <1>2. dirs[s][i].made /\ "altered" \in FileStates
    BY <1>1, ReportedIsMade DEF FileStates
  <1> QED BY <1>1, <1>2, AlteredGood

-----------------------------------------------------------------------------
(* Every step of the pipeline. *)
FaultTypes == faults \in [mishaps : Nat, alterations : Nat]

(* A whole model of a forest or an autoencoder stays whole, unless a file was altered. *)
ModelsStay == ModelsKept \/ faults'.alterations > faults.alterations

LEMMA CommandGood ==
    ASSUME PipelineInv, NEW w \in Workers, proc[w] # Idle,
           \/ MakeDirectory(w) \/ WriteFile(w) \/ Return(w) \/ Fails(w)
           \/ Unlink(w) \/ FailureWritten(w) \/ FailureRenamed(w) \/ Crash(w)
    PROVE  StepGood
  <1>1. ASSUME Return(w) \/ Crash(w) PROVE StepGood
    <2>1. OnlyProc(w, Idle) /\ dirs' = dirs
      BY <1>1 DEF Return, Crash
    <2> QED BY <2>1, EndGood
  <1> QED BY <1>1, MakeDirectoryGood, WriteFileGood, FailsGood, UnlinkGood, FailureWrittenGood,
             FailureRenamedGood

LEMMA AlterSourceGood ==
    ASSUME PipelineInv, AlterSource
    PROVE  StepGood
  <1>1. UNCHANGED <<flows, dirs, proc, pins, served>>
    BY DEF AlterSource
  <1>2. PinsKept /\ PinsTrue' /\ ServedTrue'
    BY <1>1 DEF PipelineInv, PinsKept, PinsTrue, ServedTrue, OfServed
  <1> QED BY <1>1, <1>2, PinnedStep

LEMMA StepIsOne ==
    ASSUME PipelineInv, Next
    PROVE  StepGood \/ \E s \in Stages : \E i \in RunIds, f \in FilesOf(s) : Alter(s, i, f)
  <1>1. CASE \E w \in Workers, s \in Stages, i \in RunIds : \E ins \in InputChoices(s) :
                Begin(w, s, i, ins) \/ MakeFirst(w, s, i, ins)
    BY <1>1, BeginGood, MakeFirstGood
  <1>2. CASE \E w \in Workers : /\ proc[w] # Idle
                                /\ \/ MakeDirectory(w) \/ WriteFile(w) \/ Return(w) \/ Fails(w)
                                   \/ Unlink(w) \/ FailureWritten(w) \/ FailureRenamed(w)
    BY <1>2, CommandGood
  <1>3. CASE \E w \in Workers : Crash(w)
    <2>1. PICK w \in Workers : Crash(w)
      BY <1>3
    <2>2. proc[w] # Idle
      BY <2>1 DEF Crash
    <2> QED BY <2>1, <2>2, CommandGood
  <1>4. CASE \E w \in Workers, i \in RunIds, ins \in InputChoices("forest") : FinalizeBegins(w, i, ins)
    BY <1>4, FinalizeGood
  <1>5. CASE \E choice \in [FrozenStages -> RunIds] : Pin(choice)
    BY <1>5, PinGood
  <1>6. CASE \E d, l, m \in RunIds : PredictorLoaded(d, l, m)
    BY <1>6, PredictorLoadedGood
  <1>7. CASE \E i \in RunIds : BundleTrusted(i) \/ DetectorLoaded(i)
    BY <1>7, BundleTrustedGood, DetectorLoadedGood
  <1>8. CASE AlterSource
    BY <1>8, AlterSourceGood
  <1>9. CASE \E s \in Stages : \E i \in RunIds, f \in FilesOf(s) : Alter(s, i, f)
    BY <1>9
  <1> QED BY <1>1, <1>2, <1>3, <1>4, <1>5, <1>6, <1>7, <1>8, <1>9 DEF Next

LEMMA NextGrows ==
    ASSUME PipelineInv, Next
    PROVE  Grows
  BY StepIsOne, AlterGood DEF StepGood, Grows

(* Mishaps and alterations are counted. *)
LEMMA FaultsGrow ==
    ASSUME FaultTypes, Next
    PROVE  /\ FaultTypes' /\ faults'.mishaps >= faults.mishaps
           /\ faults'.alterations >= faults.alterations
  <1> DEFINE counted == \/ faults' = faults
                        \/ faults' = [faults EXCEPT !.mishaps = @ + 1]
                        \/ faults' = [faults EXCEPT !.alterations = @ + 1]
  <1>1. counted
    <2>1. ASSUME NEW w \in Workers,
                 \/ MakeDirectory(w) \/ WriteFile(w) \/ Return(w) \/ Unlink(w)
                 \/ FailureWritten(w) \/ FailureRenamed(w)
                 \/ \E i \in RunIds, ins \in InputChoices("forest") : FinalizeBegins(w, i, ins)
          PROVE  faults' = faults
      BY <2>1 DEF MakeDirectory, WriteFile, Return, Unlink, FailureWritten, FailureRenamed, FinalizeBegins
    <2>2. ASSUME NEW w \in Workers, NEW s, NEW i, NEW ins, Begin(w, s, i, ins) \/ MakeFirst(w, s, i, ins)
          PROVE  faults' = faults
      BY <2>2 DEF Begin, MakeFirst
    <2>3. ASSUME NEW w \in Workers, Fails(w) \/ Crash(w) PROVE counted
      BY <2>3 DEF Fails, Crash
    <2>4. ASSUME NEW s, NEW i, NEW f, Alter(s, i, f) PROVE counted
      BY <2>4 DEF Alter
    <2>5. ASSUME \/ \E choice \in [FrozenStages -> RunIds] : Pin(choice)
                 \/ \E d, l, m \in RunIds : PredictorLoaded(d, l, m)
                 \/ \E i \in RunIds : BundleTrusted(i) \/ DetectorLoaded(i)
          PROVE  faults' = faults
      BY <2>5 DEF Pin, PredictorLoaded, BundleTrusted, DetectorLoaded
    <2>6. ASSUME AlterSource PROVE counted
      BY <2>6 DEF AlterSource
    <2> HIDE DEF counted
    <2>7. faults' = faults => counted
      BY DEF counted
    <2> QED BY <2>1, <2>2, <2>3, <2>4, <2>5, <2>6, <2>7 DEF Next
  <1> QED BY <1>1 DEF FaultTypes

LEMMA ModelsStayWhole ==
    ASSUME PipelineInv, FaultTypes, Next
    PROVE  ModelsStay
  <1>1. CASE StepGood
    BY <1>1 DEF StepGood, ModelsStay
  <1>2. CASE \E s \in Stages : \E i \in RunIds, f \in FilesOf(s) : Alter(s, i, f)
    <2>1. faults' = [faults EXCEPT !.alterations = @ + 1]
      BY <1>2 DEF Alter
    <2> QED BY <2>1 DEF FaultTypes, ModelsStay
  <1> QED BY <1>1, <1>2, StepIsOne

(* The state a pipeline starts in. *)
LEMMA PipelineStarts ==
    ASSUME Init
    PROVE  PipelineInv /\ FaultTypes
  <1>1. /\ dirs = [s \in Stages |-> [i \in RunIds |-> NoRun(s)]]
        /\ proc = [w \in Workers |-> Idle] /\ pins = None /\ served = None
        /\ faults = [mishaps |-> 0, alterations |-> 0]
    BY DEF Init
  <1>2. ASSUME NEW s \in Stages
        PROVE  /\ DirectoryTypes(s, NoRun(s)) /\ DirectoryTrue(s, NoRun(s))
               /\ DirectoryLine(s, NoRun(s)) /\ DirectoryData(s, NoRun(s))
    <2> DEFINE d == NoRun(s)
    <2>1. /\ DOMAIN d = RunFields /\ d.made = FALSE /\ d.reports = 0 /\ d.failure = "none"
          /\ d.files = [f \in FilesOf(s) |-> "none"] /\ d.fit = {} /\ d.held = {}
      BY DEF NoRun, RunFields
    <2>2. /\ d.files["report"] = "none"
          /\ s = "autoencoder" => d.files["manifest"] = "none"
          /\ s = "split" => d.files["assignments"] = "none"
          /\ d.files \in [FilesOf(s) -> FileStates]
      BY <2>1, SomeFiles DEF FileStates
    <2>3. ~d.made => d = NoRun(s)
      OBVIOUS
    <2>4. DirectoryTypes(s, d)
      BY DEF NoRun, DirectoryTypes, RunFields, FileStates
    <2> HIDE DEF d
    <2>5. DirectoryTrue(s, d)
      BY <2>1, <2>2, <2>3 DEF DirectoryTrue
    <2>6. DirectoryLine(s, d)
      BY <2>1 DEF DirectoryLine
    <2>7. DirectoryData(s, d)
      BY <2>1, <2>2 DEF DirectoryData
    <2> QED BY <2>4, <2>5, <2>6, <2>7 DEF d
  <1>3. PipelineTypes
    BY <1>1, <1>2 DEF PipelineTypes
  <1>4. WritersTrue
    BY <1>1, <1>2, IdleIsNotAtWork DEF WritersTrue, Apart
  <1>5. LineageTrue /\ DataTrue
    BY <1>1, <1>2 DEF LineageTrue, DataTrue
  <1>6. PinsTrue /\ ServedTrue
    BY <1>1 DEF PinsTrue, ServedTrue
  <1> QED BY <1>1, <1>3, <1>4, <1>5, <1>6 DEF PipelineInv, FaultTypes

-----------------------------------------------------------------------------
(* What an audit may publish: its forest and its autoencoder are of the one      *)
(* preprocessing it names, and their directories are there.                      *)
ReportLine(report) ==
    /\ report \in AuditReports
    /\ \A m \in {"forest", "autoencoder"} :
          /\ dirs[m][report[m]].made
          /\ dirs[m][report[m]].refs["preprocess"] = <<report.preprocess, "whole">>

(* Whoever publishes left a recovery file; an output there is was published once. *)
AuditInv ==
    /\ DOMAIN audit = {"recovery", "output", "published", "runs"} /\ DOMAIN audit.runs = Auditors
    /\ \A a \in Auditors : audit.runs[a] # Idle =>
          /\ audit.runs[a].pc \in {"calculated", "publishing"} /\ ReportLine(audit.runs[a].report)
          /\ audit.runs[a].pc = "publishing" => audit.recovery # None
    /\ audit.recovery # None => audit.recovery \in RecoveryFiles /\ ReportLine(audit.recovery.report)
    /\ audit.output # None => ReportLine(audit.output) /\ audit.recovery # None
    /\ audit.published \in {0, 1} /\ (audit.output = None => audit.published = 0)

LEMMA StillLine ==
    ASSUME AllKept, NEW report, ReportLine(report)
    PROVE  ReportLine(report)'
  <1>1. \A m \in {"forest", "autoencoder"} : m \in Stages /\ report[m] \in RunIds
    BY StagesIn DEF ReportLine, AuditReports, FrozenStages
  <1>2. ASSUME NEW m \in {"forest", "autoencoder"}
        PROVE  /\ dirs'[m][report[m]].made
               /\ dirs'[m][report[m]].refs["preprocess"] = <<report.preprocess, "whole">>
    <2>1. dirs[m][report[m]].made /\ dirs[m][report[m]].refs["preprocess"] = <<report.preprocess, "whole">>
      BY DEF ReportLine
    <2>2. Kept(m, dirs[m][report[m]], dirs'[m][report[m]])
      BY <1>1 DEF AllKept
    <2> QED BY ONLY <2>1, <2>2 DEF Kept
  <1> QED BY <1>2 DEF ReportLine

LEMMA AuditKept ==
    ASSUME AuditInv, AllKept, audit' = audit
    PROVE  AuditInv'
  BY StillLine DEF AuditInv

(* A step of an auditor. *)
LEMMA AuditTurns ==
    ASSUME AuditInv, dirs' = dirs, NEW a \in Auditors, NEW run,
           audit' = [audit EXCEPT !.runs[a] = run],
           run # Idle => /\ run.pc \in {"calculated", "publishing"} /\ ReportLine(run.report)
                         /\ run.pc = "publishing" => audit.recovery # None
    PROVE  AuditInv'
  <1>1. /\ DOMAIN audit' = DOMAIN audit /\ audit'.recovery = audit.recovery
        /\ audit'.output = audit.output /\ audit'.published = audit.published
        /\ audit'.runs = [audit.runs EXCEPT ![a] = run]
    BY DEF AuditInv
  <1>2. \A report : ReportLine(report)' <=> ReportLine(report)
    BY DEF ReportLine
  <1> QED BY <1>1, <1>2 DEF AuditInv

LEMMA CalculatedKeeps ==
    ASSUME PipelineInv, AuditInv, NEW a \in Auditors, NEW d \in RunIds, NEW m \in RunIds, NEW i \in RunIds,
           AuditCalculated(a, d, m, i)
    PROVE  AuditInv'
  <1> DEFINE report == [preprocess |-> d, forest |-> m, autoencoder |-> i]
             run == [pc |-> "calculated", report |-> report]
  <1>1. pins["preprocess"] = d /\ dirs["preprocess"][d].files["report"] = "whole"
    BY PinnedIsMade, StagesIn DEF AuditCalculated, JanuaryInputsVerified
  <1>2. dirs["autoencoder"][i].made /\ dirs["autoencoder"][i].refs["preprocess"] = <<d, "whole">>
    BY <1>1, AutoencoderIsMade DEF AuditCalculated, BundleVerified
  <1>3. dirs["forest"][m].made /\ dirs["forest"][m].refs["preprocess"] = <<d, "whole">>
    BY <1>1, ModelBound DEF AuditCalculated, SavedModelVerified, Ref, MakesFirst
  <1>4. ReportLine(report)
    BY <1>2, <1>3 DEF ReportLine, AuditReports
  <1>5. dirs' = dirs /\ audit' = [audit EXCEPT !.runs[a] = run]
    BY DEF AuditCalculated, RunIs, pipelineVars
  <1>6. run.pc = "calculated" /\ run.report = report
    OBVIOUS
  <1> HIDE DEF run, report
  <1> QED BY <1>4, <1>5, <1>6, AuditTurns

LEMMA RecoveryLoadedKeeps ==
    ASSUME AuditInv, NEW a \in Auditors, RecoveryLoaded(a)
    PROVE  AuditInv'
  <1> DEFINE run == [pc |-> "calculated", report |-> audit.recovery.report]
  <1>1. ReportLine(audit.recovery.report)
    BY DEF RecoveryLoaded, AuditInv
  <1>2. dirs' = dirs /\ audit' = [audit EXCEPT !.runs[a] = run]
    BY DEF RecoveryLoaded, RunIs, pipelineVars
  <1>3. run.pc = "calculated" /\ run.report = audit.recovery.report
    OBVIOUS
  <1> HIDE DEF run
  <1> QED BY <1>1, <1>2, <1>3, AuditTurns

LEMMA RecoveryWrittenKeeps ==
    ASSUME AuditInv, NEW a \in Auditors, RecoveryWritten(a)
    PROVE  AuditInv'
  <1>1. CASE audit.output # None
    <2>1. dirs' = dirs /\ audit' = [audit EXCEPT !.runs[a] = Idle]
      BY <1>1 DEF RecoveryWritten, pipelineVars
    <2> QED BY <2>1, AuditTurns
  <1>2. CASE audit.output = None
    <2> PICK report : report = audit.runs[a].report
      OBVIOUS
    <2>1. ReportLine(report) /\ report \in AuditReports
      BY IdleIsNotAtWork DEF RecoveryWritten, AuditInv, ReportLine
    <2>2. [report |-> report, whole |-> TRUE] \in RecoveryFiles
      BY <2>1 DEF RecoveryFiles
    <2>5. [report |-> report, whole |-> TRUE] # None
      BY <2>2, NoReportIsNone
    <2>3. /\ DOMAIN audit' = DOMAIN audit /\ audit'.recovery = [report |-> report, whole |-> TRUE]
          /\ audit'.output = None /\ audit'.published = audit.published
          /\ audit'.runs = [audit.runs EXCEPT ![a] = [pc |-> "publishing", report |-> report]]
          /\ dirs' = dirs
      BY <1>2 DEF RecoveryWritten, AuditInv, RunIs, pipelineVars
    <2>4. \A rep : ReportLine(rep)' <=> ReportLine(rep)
      BY <2>3 DEF ReportLine
    <2> QED BY <1>2, <2>1, <2>2, <2>3, <2>4, <2>5 DEF AuditInv
  <1> QED BY <1>1, <1>2

LEMMA AuditPublishedKeeps ==
    ASSUME AuditInv, NEW a \in Auditors, AuditPublished(a)
    PROVE  AuditInv'
  <1>1. CASE audit.output # None
    <2>1. dirs' = dirs /\ audit' = [audit EXCEPT !.runs[a] = Idle]
      BY <1>1 DEF AuditPublished, pipelineVars
    <2> QED BY <2>1, AuditTurns
  <1>2. CASE audit.output = None
    <2> PICK report : report = audit.runs[a].report
      OBVIOUS
    <2>1. ReportLine(report) /\ audit.recovery # None /\ audit.published = 0
      BY <1>2, IdleIsNotAtWork DEF AuditPublished, AuditInv
    <2>2. /\ DOMAIN audit' = DOMAIN audit /\ audit'.recovery = audit.recovery
          /\ audit'.output = report /\ audit'.published = 1
          /\ audit'.runs = [audit.runs EXCEPT ![a] = Idle] /\ dirs' = dirs
      BY <1>2, <2>1 DEF AuditPublished, AuditInv, pipelineVars
    <2>3. \A rep : ReportLine(rep)' <=> ReportLine(rep)
      BY <2>2 DEF ReportLine
    <2>4. report # None
      BY <2>1, NoReportIsNone DEF ReportLine
    <2> QED BY <2>1, <2>2, <2>3, <2>4 DEF AuditInv
  <1> QED BY <1>1, <1>2

LEMMA AlterRecoveryKeeps ==
    ASSUME AuditInv, AlterRecovery
    PROVE  AuditInv'
  <1> PICK rec : rec = audit.recovery
    OBVIOUS
  <1>1. rec # None /\ rec \in RecoveryFiles /\ ReportLine(rec.report)
    BY DEF AlterRecovery, AuditInv
  <1>2. /\ DOMAIN audit' = DOMAIN audit /\ audit'.recovery = [rec EXCEPT !.whole = FALSE]
        /\ audit'.output = audit.output /\ audit'.published = audit.published
        /\ audit'.runs = audit.runs /\ dirs' = dirs
    BY DEF AlterRecovery, AuditInv
  <1>3. /\ [rec EXCEPT !.whole = FALSE] \in RecoveryFiles
        /\ [rec EXCEPT !.whole = FALSE].report = rec.report
    BY <1>1 DEF RecoveryFiles
  <1>4. [rec EXCEPT !.whole = FALSE] # None
    BY <1>3, NoReportIsNone
  <1>5. \A rep : ReportLine(rep)' <=> ReportLine(rep)
    BY <1>2 DEF ReportLine
  <1> QED BY <1>1, <1>2, <1>3, <1>4, <1>5 DEF AuditInv

(* Every step of the audited pipeline. *)
AuditGood ==
    /\ Grows /\ AuditInv' /\ FaultTypes' /\ ModelsStay
    /\ faults'.mishaps >= faults.mishaps /\ faults'.alterations >= faults.alterations

LEMMA SameIsGood ==
    ASSUME PipelineInv, UNCHANGED <<flows, dirs, proc, pins, served>>
    PROVE  Grows /\ ModelsKept
  <1>1. PinsKept /\ PinsTrue' /\ ServedTrue'
    BY DEF PipelineInv, PinsKept, PinsTrue, ServedTrue, OfServed
  <1> QED BY <1>1, PinnedStep DEF StepGood, Grows

LEMMA AuditStep ==
    ASSUME PipelineInv, FaultTypes, AuditInv, AuditNext
    PROVE  AuditGood
  <1>1. CASE UNCHANGED audit /\ Next
    <2>1. Grows /\ ModelsStay
      BY <1>1, NextGrows, ModelsStayWhole
    <2>2. AuditInv'
      BY <1>1, <2>1, AuditKept DEF Grows
    <2> QED BY <1>1, <2>1, <2>2, FaultsGrow DEF AuditGood
  <1>2. ASSUME NEW a \in Auditors,
               \/ \E d, m, i \in RunIds : AuditCalculated(a, d, m, i)
               \/ RecoveryLoaded(a) \/ RecoveryWritten(a) \/ AuditPublished(a)
        PROVE  AuditGood
    <2>1. UNCHANGED pipelineVars
      BY <1>2 DEF AuditCalculated, RecoveryLoaded, RecoveryWritten, AuditPublished
    <2>2. Grows /\ ModelsStay /\ FaultTypes' /\ faults' = faults
      BY <2>1, SameIsGood DEF pipelineVars, FaultTypes, ModelsStay
    <2>3. AuditInv'
      BY <1>2, CalculatedKeeps, RecoveryLoadedKeeps, RecoveryWrittenKeeps, AuditPublishedKeeps
    <2> QED BY <2>2, <2>3 DEF AuditGood, FaultTypes
  <1>3. ASSUME NEW a \in Auditors, AuditDies(a) PROVE AuditGood
    <2>1. Grows /\ ModelsStay
      BY <1>3, SameIsGood DEF AuditDies, ModelsStay
    <2>2. AuditInv'
      <3>1. dirs' = dirs /\ audit' = [audit EXCEPT !.runs[a] = Idle]
        BY <1>3 DEF AuditDies
      <3> QED BY <3>1, AuditTurns
    <2>3. faults' = [faults EXCEPT !.mishaps = @ + 1]
      BY <1>3 DEF AuditDies
    <2> QED BY <2>1, <2>2, <2>3 DEF AuditGood, FaultTypes
  <1>4. CASE AlterRecovery
    <2>1. Grows /\ ModelsStay
      BY <1>4, SameIsGood DEF AlterRecovery, ModelsStay
    <2>2. AuditInv'
      BY <1>4, AlterRecoveryKeeps
    <2>3. faults' = [faults EXCEPT !.alterations = @ + 1]
      BY <1>4 DEF AlterRecovery
    <2> QED BY <2>1, <2>2, <2>3 DEF AuditGood, FaultTypes
  <1> QED BY <1>1, <1>2, <1>3, <1>4 DEF AuditNext

-----------------------------------------------------------------------------
(* The feedback ledger.  What a recorder has done, by the place it is at. *)
Opened == {"opened", "forest_seen", "insert", "stored", "forest_again", "created"}
ForestSeen == Opened \ {"opened"}
BothSeen == ForestSeen \ {"forest_seen"}
RowStored == {"stored", "forest_again", "created"}
Recording == [pc : Opened \cup {"connect", "create", "schema"}, outcome : Outcomes, drift : Nat]

(* A recorder that stored the row is the only one, and nothing was answered yet. *)
RecorderTrue(run) ==
    run # Idle =>
        /\ run \in Recording
        /\ run.pc \in Opened => feedback.file = "ledger"
        /\ run.pc \in RowStored => feedback.row = run.outcome /\ feedback.created = {}
        /\ run.pc \in ForestSeen =>
              run.drift <= Changes /\ (Changes = run.drift => FrozenModel("forest"))
        /\ run.pc \in BothSeen => (Changes = run.drift => FrozenModel("autoencoder"))

LedgerTrue ==
    /\ feedback.row \in Outcomes \cup {None}
    /\ feedback.row # None => feedback.file = "ledger"
    /\ feedback.created = {} \/ (feedback.row # None
                                 /\ \E r \in Recorders : feedback.created = {<<r, feedback.row>>})
    /\ feedback.existing \subseteq {feedback.row} /\ (feedback.row = None => feedback.existing = {})

Abandoned ==
    feedback.file = "empty" => faults.mishaps > 0 \/ \E r \in Recorders : feedback.runs[r].pc = "create"

(* Frozen models are there for whoever looked for the ledger. *)
FrozenThere == pins # None /\ "autoencoder" \in DOMAIN pins

FeedbackInv ==
    /\ DOMAIN feedback = {"file", "row", "created", "existing", "drift", "runs"}
    /\ feedback.drift \in Nat /\ DOMAIN feedback.runs = Recorders
    /\ \A r \in Recorders : RecorderTrue(feedback.runs[r])
    /\ \A q, r \in Recorders : q # r /\ feedback.runs[q].pc \in RowStored => feedback.runs[r].pc \notin RowStored
    /\ LedgerTrue /\ Abandoned
    /\ feedback # NoFeedback => FrozenThere

LEMMA IdleStoresNothing == Idle.pc = "idle" /\ Idle.pc \notin Opened /\ Idle.pc \notin RowStored
  BY DEF Idle, Opened, RowStored

(* A step that grows the pipeline leaves what recorders saw as it was, or counts. *)
ChangesGrow ==
    /\ Changes \in Nat /\ Changes' \in Nat /\ Changes' >= Changes
    /\ Changes' = Changes => ModelsKept

LEMMA SeenStays ==
    ASSUME PinsTrue, FrozenThere, PinsKept, ChangesGrow, NEW s \in {"forest", "autoencoder"},
           NEW n \in Nat, n <= Changes, Changes = n => FrozenModel(s), Changes' = n
    PROVE  FrozenModel(s)'
  <1>1. Changes = n /\ ModelsKept /\ FrozenModel(s)
    BY DEF ChangesGrow
  <1>2. s \in DOMAIN pins /\ pins[s] \in RunIds /\ s \in Stages /\ pins'[s] = pins[s]
    BY StagesIn DEF PinsTrue, PinsKept, FrozenThere, FrozenStages
  <1> QED BY <1>1, <1>2 DEF ModelsKept, ModelKept, FrozenModel

LEMMA RecorderStays ==
    ASSUME PinsTrue, FrozenThere, PinsKept, ChangesGrow, NEW run, RecorderTrue(run),
           run.pc \in Opened => feedback'.file = "ledger",
           run.pc \in RowStored => feedback'.row = feedback.row /\ feedback'.created = feedback.created
    PROVE  RecorderTrue(run)'
  <1> SUFFICES ASSUME run # Idle PROVE RecorderTrue(run)'
    BY DEF RecorderTrue
  <1>1. run \in Recording /\ run.drift \in Nat
    BY DEF RecorderTrue, Recording
  <1>2. run.pc \in RowStored => feedback'.row = run.outcome /\ feedback'.created = {}
    BY DEF RecorderTrue
  <1>3. ASSUME run.pc \in ForestSeen
        PROVE  run.drift <= Changes' /\ (Changes' = run.drift => FrozenModel("forest")')
    <2>1. run.drift <= Changes /\ (Changes = run.drift => FrozenModel("forest"))
      BY <1>3 DEF RecorderTrue
    <2>2. run.drift <= Changes'
      BY <1>1, <2>1 DEF ChangesGrow
    <2> QED BY <1>1, <2>1, <2>2, SeenStays
  <1>4. ASSUME run.pc \in BothSeen
        PROVE  Changes' = run.drift => FrozenModel("autoencoder")'
    <2>1. run.drift <= Changes /\ (Changes = run.drift => FrozenModel("autoencoder"))
      BY <1>4 DEF RecorderTrue, BothSeen
    <2> QED BY <1>1, <2>1, SeenStays
  <1> QED BY <1>1, <1>2, <1>3, <1>4 DEF RecorderTrue

(* Everybody else goes on while feedback stays. *)
LEMMA FeedbackKept ==
    ASSUME PinsTrue, FeedbackInv, PinsKept, ChangesGrow, feedback' = feedback,
           faults.mishaps \in Nat, faults'.mishaps \in Nat, faults'.mishaps >= faults.mishaps
    PROVE  FeedbackInv'
  <1>1. LedgerTrue'
    BY DEF FeedbackInv, LedgerTrue
  <1>2. Abandoned'
    BY DEF FeedbackInv, Abandoned
  <1>3. feedback' # NoFeedback => FrozenThere'
    BY DEF FeedbackInv, FrozenThere, PinsKept
  <1>4. ASSUME NEW r \in Recorders PROVE RecorderTrue(feedback.runs[r])'
    <2> PICK run : run = feedback.runs[r]
      OBVIOUS
    <2>1. RecorderTrue(run)
      BY DEF FeedbackInv
    <2>2. CASE run = Idle
      BY <2>2 DEF RecorderTrue
    <2>3. CASE run # Idle
      <3>1. feedback # NoFeedback
        BY <2>3 DEF NoFeedback
      <3>2. FrozenThere
        BY <3>1 DEF FeedbackInv
      <3>3. run.pc \in Opened => feedback'.file = "ledger"
        BY <2>1, <2>3 DEF RecorderTrue
      <3>4. RecorderTrue(run)'
        BY <2>1, <3>2, <3>3, RecorderStays
      <3> QED BY <3>4
    <2> QED BY <2>2, <2>3
  <1> QED BY <1>1, <1>2, <1>3, <1>4 DEF FeedbackInv

-----------------------------------------------------------------------------
(* The steps of a recorder. *)
LEMMA ThereWhileRunning ==
    ASSUME FeedbackInv, NEW r \in Recorders, feedback.runs[r] # Idle
    PROVE  FrozenThere
  <1>1. feedback # NoFeedback
    BY DEF NoFeedback
  <1> QED BY <1>1 DEF FeedbackInv

LEMMA RecorderTurns ==
    ASSUME FeedbackInv, PinsTrue, FrozenThere, FaultTypes, FaultTypes', UNCHANGED <<dirs, pins>>,
           faults'.alterations = faults.alterations, NEW r \in Recorders, NEW run,
           DOMAIN feedback' = DOMAIN feedback, feedback'.drift = feedback.drift,
           feedback'.runs = [feedback.runs EXCEPT ![r] = run],
           feedback.file = "ledger" => feedback'.file = "ledger",
           \A q \in Recorders \ {r} : feedback.runs[q].pc \in RowStored =>
               feedback'.row = feedback.row /\ feedback'.created = feedback.created,
           RecorderTrue(run)',
           run.pc \in RowStored => \A q \in Recorders \ {r} : feedback.runs[q].pc \notin RowStored,
           LedgerTrue', Abandoned'
    PROVE  FeedbackInv'
  <1>1. feedback.drift \in Nat
    BY DEF FeedbackInv
  <1>2. ChangesGrow
    <2>1. faults.alterations \in Nat
      BY DEF FaultTypes
    <2>2. ModelsKept
      BY DEF ModelsKept, ModelKept
    <2> QED BY <1>1, <2>1, <2>2 DEF ChangesGrow, Changes
  <1>3. PinsKept /\ FrozenThere'
    BY DEF PinsKept, FrozenThere
  <1>4. DOMAIN feedback.runs = Recorders /\ DOMAIN feedback'.runs = Recorders
    BY DEF FeedbackInv
  <1>5. ASSUME NEW q \in Recorders PROVE RecorderTrue(feedback.runs[q])'
    <2>1. CASE q = r
      BY <1>4, <2>1
    <2>2. CASE q # r
      <3> PICK other : other = feedback.runs[q]
        OBVIOUS
      <3>1. feedback'.runs[q] = other
        BY <1>4, <2>2
      <3>2. RecorderTrue(other)
        BY DEF FeedbackInv
      <3>3. other.pc \in Opened => feedback'.file = "ledger"
        BY <3>2, IdleStoresNothing DEF RecorderTrue
      <3>4. other.pc \in RowStored => feedback'.row = feedback.row /\ feedback'.created = feedback.created
        BY <2>2
      <3>5. RecorderTrue(other)'
        BY <1>2, <1>3, <3>2, <3>3, <3>4, RecorderStays
      <3> QED BY <3>1, <3>5
    <2> QED BY <2>1, <2>2
  <1>6. \A p, q \in Recorders :
            p # q /\ feedback'.runs[p].pc \in RowStored => feedback'.runs[q].pc \notin RowStored
    BY <1>4 DEF FeedbackInv
  <1>7. \A q \in Recorders : RecorderTrue(feedback.runs[q])'
    BY <1>5
  <1> QED BY <1>1, <1>3, <1>4, <1>6, <1>7 DEF FeedbackInv

(* A recorder that only moves on, or ends. *)
LEMMA RecorderMoves ==
    ASSUME FeedbackInv, PinsTrue, FrozenThere, FaultTypes, FaultTypes', UNCHANGED <<dirs, pins>>,
           faults'.alterations = faults.alterations, faults'.mishaps >= faults.mishaps,
           NEW r \in Recorders, NEW run, feedback' = InRun(r, run), RecorderTrue(run),
           run.pc \in RowStored => feedback.runs[r].pc \in RowStored,
           feedback.runs[r].pc = "create" => feedback.file # "empty" \/ faults'.mishaps > 0
    PROVE  FeedbackInv'
  <1>1. /\ DOMAIN feedback' = DOMAIN feedback /\ feedback'.drift = feedback.drift
        /\ feedback'.runs = [feedback.runs EXCEPT ![r] = run]
        /\ feedback'.file = feedback.file /\ feedback'.row = feedback.row
        /\ feedback'.created = feedback.created /\ feedback'.existing = feedback.existing
    BY DEF InRun, FeedbackInv
  <1>2. LedgerTrue'
    BY <1>1 DEF FeedbackInv, LedgerTrue
  <1>3. Abandoned'
    <2>1. ASSUME feedback.file = "empty", ~(faults'.mishaps > 0)
          PROVE  \E q \in Recorders : feedback'.runs[q].pc = "create"
      <3>1. ~(faults.mishaps > 0)
        BY <2>1 DEF FaultTypes
      <3>2. PICK q \in Recorders : feedback.runs[q].pc = "create"
        BY <2>1, <3>1 DEF FeedbackInv, Abandoned
      <3>3. q # r
        BY <2>1, <3>2
      <3>4. feedback'.runs[q] = feedback.runs[q]
        BY <1>1, <3>3 DEF FeedbackInv
      <3> QED BY <3>2, <3>4
    <2> QED BY <1>1, <2>1 DEF Abandoned
  <1>4. RecorderTrue(run)'
    <2>1. Changes' = Changes
      BY <1>1 DEF Changes
    <2>2. FrozenModel("forest")' = FrozenModel("forest") /\ FrozenModel("autoencoder")' = FrozenModel("autoencoder")
      BY DEF FrozenModel
    <2> QED BY <1>1, <2>1, <2>2 DEF RecorderTrue
  <1>5. run.pc \in RowStored => \A q \in Recorders \ {r} : feedback.runs[q].pc \notin RowStored
    BY DEF FeedbackInv
  <1> QED BY <1>1, <1>2, <1>3, <1>4, <1>5, RecorderTurns

LEMMA RecorderRaises ==
    ASSUME FeedbackInv, PinsTrue, FaultTypes, FaultTypes', UNCHANGED <<dirs, pins>>,
           faults'.alterations = faults.alterations, faults'.mishaps >= faults.mishaps,
           NEW r \in Recorders, feedback.runs[r] # Idle, feedback' = InRun(r, Idle),
           feedback.runs[r].pc = "create" => feedback.file # "empty" \/ faults'.mishaps > 0
    PROVE  FeedbackInv'
  <1>1. RecorderTrue(Idle) /\ FrozenThere
    BY ThereWhileRunning DEF RecorderTrue
  <1> QED BY <1>1, IdleStoresNothing, RecorderMoves

LEMMA LookedForKeeps ==
    ASSUME FeedbackInv, PinsTrue, FaultTypes, NEW r \in Recorders, NEW outcome \in Outcomes,
           LedgerLookedFor(r, outcome)
    PROVE  FeedbackInv'
  <1> DEFINE run == [pc |-> IF feedback.file = "none" THEN "connect" ELSE "schema",
                     outcome |-> outcome, drift |-> 0]
  <1>1. /\ FrozenThere /\ UNCHANGED <<dirs, pins, faults>> /\ feedback' = InRun(r, run)
        /\ feedback.runs[r] = Idle
    BY DEF LedgerLookedFor, FrozenThere, pipelineVars
  <1>2. run \in Recording /\ run.pc \in {"connect", "schema"}
    BY DEF Recording
  <1> HIDE DEF run
  <1>3. RecorderTrue(run) /\ run.pc \notin RowStored
    BY <1>2 DEF RecorderTrue, Opened, ForestSeen, BothSeen, RowStored
  <1>4. feedback.runs[r].pc # "create" /\ faults'.mishaps >= faults.mishaps /\ FaultTypes'
        /\ faults'.alterations = faults.alterations
    BY <1>1, IdleStoresNothing DEF FaultTypes
  <1> QED BY <1>1, <1>3, <1>4, RecorderMoves

LEMMA SchemaKeeps ==
    ASSUME FeedbackInv, PinsTrue, FaultTypes, NEW r \in Recorders, SchemaVerified(r)
    PROVE  FeedbackInv'
  <1> PICK run : run = feedback.runs[r]
    OBVIOUS
  <1>1. /\ run # Idle /\ run.pc = "schema" /\ run \in Recording /\ UNCHANGED <<dirs, pins, faults>>
        /\ FrozenThere /\ FaultTypes' /\ faults'.mishaps >= faults.mishaps
        /\ faults'.alterations = faults.alterations
    <2>1. run # Idle /\ run.pc = "schema" /\ UNCHANGED <<dirs, pins, faults>>
      BY IdleStoresNothing DEF SchemaVerified, Step, Raises, pipelineVars
    <2> QED BY <2>1, ThereWhileRunning DEF FeedbackInv, RecorderTrue, FaultTypes
  <1>2. CASE feedback.file = "ledger"
    <2> DEFINE next == [run EXCEPT !.pc = "opened"]
    <2>1. feedback' = InRun(r, next)
      BY <1>2 DEF SchemaVerified, Step, InRun, FeedbackInv
    <2>2. next \in Recording /\ next.pc = "opened"
      BY <1>1 DEF Recording, Opened
    <2> HIDE DEF next
    <2>3. RecorderTrue(next) /\ next.pc \notin RowStored
      BY <1>2, <2>2 DEF RecorderTrue, Opened, ForestSeen, BothSeen, RowStored
    <2> QED BY <1>1, <2>1, <2>3, RecorderMoves
  <1>3. CASE feedback.file # "ledger"
    <2>1. feedback' = InRun(r, Idle)
      BY <1>3 DEF SchemaVerified, Raises
    <2> QED BY <1>1, <2>1, RecorderRaises
  <1> QED BY <1>2, <1>3

LEMMA RunningIs ==
    ASSUME FeedbackInv, FaultTypes, NEW r \in Recorders, feedback.runs[r].pc # "idle"
    PROVE  /\ feedback.runs[r] # Idle /\ feedback.runs[r] \in Recording
           /\ RecorderTrue(feedback.runs[r]) /\ FrozenThere
  <1>1. feedback.runs[r] # Idle
    BY IdleStoresNothing
  <1> QED BY <1>1, ThereWhileRunning DEF FeedbackInv, RecorderTrue

LEMMA VerifiedKeeps ==
    ASSUME FeedbackInv, PinsTrue, FaultTypes, NEW r \in Recorders, FrozenModelVerified(r)
    PROVE  FeedbackInv'
  <1> PICK run : run = feedback.runs[r]
    OBVIOUS
  <1>0. run.pc \in {"opened", "forest_seen", "stored", "forest_again"}
    BY DEF FrozenModelVerified, Checked
  <1>1. /\ run # Idle /\ run \in Recording /\ UNCHANGED <<dirs, pins, faults>>
        /\ RecorderTrue(run) /\ FrozenThere /\ FaultTypes' /\ faults'.mishaps >= faults.mishaps
        /\ faults'.alterations = faults.alterations
    <2>1. UNCHANGED <<dirs, pins, faults>>
      BY DEF FrozenModelVerified, Raises, pipelineVars
    <2> QED BY <1>0, <2>1, RunningIs DEF FaultTypes
  <1>2. Changes \in Nat
    BY DEF Changes, FaultTypes, FeedbackInv
  <1>3. CASE FrozenModel(Checked[run.pc])
    <2> DEFINE seen == IF run.pc = "opened" THEN Changes ELSE run.drift
               next == [run EXCEPT !.pc = Passed[run.pc], !.drift = seen]
    <2>1. feedback' = InRun(r, next)
      BY <1>1, <1>3 DEF FrozenModelVerified, Recording
    <2>2. run.drift \in Nat /\ seen \in Nat
      BY <1>1, <1>2 DEF Recording
    <2>3. Passed[run.pc] \in {"forest_seen", "insert", "forest_again", "created"}
      BY <1>0 DEF Passed
    <2>4. /\ next \in Recording /\ next.pc = Passed[run.pc] /\ next.drift = seen
          /\ next.outcome = run.outcome
      BY <1>1, <2>2, <2>3 DEF Recording, Opened
    <2>5. seen <= Changes /\ (Changes = seen => FrozenModel("forest"))
      <3>1. CASE run.pc = "opened"
        BY <1>2, <1>3, <3>1 DEF Checked
      <3>2. CASE run.pc # "opened"
        BY <1>0, <1>1, <3>2 DEF RecorderTrue, ForestSeen, Opened
      <3> QED BY <3>1, <3>2
    <2>6. next.pc \in BothSeen => (Changes = seen => FrozenModel("autoencoder"))
      <3>1. CASE run.pc \in {"forest_seen", "forest_again"}
        BY <1>3, <3>1 DEF Checked
      <3>2. CASE run.pc = "stored"
        BY <1>1, <3>2 DEF RecorderTrue, BothSeen, ForestSeen, Opened
      <3>3. CASE run.pc = "opened"
        BY <2>4, <3>3 DEF Passed, BothSeen
      <3> QED BY <1>0, <3>1, <3>2, <3>3
    <2>7. next.pc \in RowStored => run.pc \in RowStored
      BY <1>0, <2>4 DEF Passed, RowStored
    <2>8. feedback.file = "ledger" /\ (run.pc \in RowStored => feedback.row = run.outcome /\ feedback.created = {})
      BY <1>0, <1>1 DEF RecorderTrue, Opened
    <2> HIDE DEF next, seen
    <2>9. RecorderTrue(next)
      BY <2>4, <2>5, <2>6, <2>7, <2>8 DEF RecorderTrue
    <2> QED BY <1>0, <1>1, <2>1, <2>7, <2>9, RecorderMoves
  <1>4. CASE ~FrozenModel(Checked[run.pc])
    <2>1. feedback' = InRun(r, Idle)
      BY <1>4 DEF FrozenModelVerified, Raises
    <2> QED BY <1>0, <1>1, <2>1, RecorderRaises
  <1> QED BY <1>3, <1>4

LEMMA ConnectedKeeps ==
    ASSUME FeedbackInv, PinsTrue, FaultTypes, NEW r \in Recorders, LedgerConnected(r)
    PROVE  FeedbackInv'
  <1> PICK run : run = feedback.runs[r]
    OBVIOUS
  <1> DEFINE next == [run EXCEPT !.pc = "create"]
  <1>1. /\ run # Idle /\ run \in Recording /\ UNCHANGED <<dirs, pins, faults>>
        /\ FrozenThere /\ FaultTypes' /\ run.pc = "connect"
    BY RunningIs DEF LedgerConnected, pipelineVars, FaultTypes
  <1>2. /\ DOMAIN feedback' = DOMAIN feedback /\ feedback'.drift = feedback.drift
        /\ feedback'.runs = [feedback.runs EXCEPT ![r] = next]
        /\ feedback'.file = IF feedback.file = "none" THEN "empty" ELSE feedback.file
        /\ feedback'.row = feedback.row /\ feedback'.created = feedback.created
        /\ feedback'.existing = feedback.existing
    BY DEF LedgerConnected, FeedbackInv
  <1>3. next \in Recording /\ next.pc = "create"
    BY <1>1 DEF Recording
  <1> HIDE DEF next
  <1>4. RecorderTrue(next)' /\ next.pc \notin RowStored
    BY <1>3 DEF RecorderTrue, Opened, ForestSeen, BothSeen, RowStored
  <1>5. LedgerTrue'
    BY <1>2 DEF FeedbackInv, LedgerTrue
  <1>6. Abandoned'
    BY <1>2, <1>3 DEF FeedbackInv, Abandoned
  <1> QED BY <1>1, <1>2, <1>4, <1>5, <1>6, RecorderTurns

LEMMA CreatedKeeps ==
    ASSUME FeedbackInv, PinsTrue, FaultTypes, NEW r \in Recorders, LedgerCreated(r)
    PROVE  FeedbackInv'
  <1> PICK run : run = feedback.runs[r]
    OBVIOUS
  <1>1. /\ run # Idle /\ run \in Recording /\ UNCHANGED <<dirs, pins, faults>>
        /\ FrozenThere /\ FaultTypes' /\ run.pc = "create" /\ faults'.mishaps >= faults.mishaps
    BY RunningIs DEF LedgerCreated, Raises, pipelineVars, FaultTypes
  <1>2. CASE feedback.file = "empty"
    <2> DEFINE next == [run EXCEPT !.pc = "opened"]
    <2>1. /\ DOMAIN feedback' = DOMAIN feedback /\ feedback'.drift = feedback.drift
          /\ feedback'.runs = [feedback.runs EXCEPT ![r] = next]
          /\ feedback'.file = "ledger"
          /\ feedback'.row = feedback.row /\ feedback'.created = feedback.created
          /\ feedback'.existing = feedback.existing
      BY <1>2 DEF LedgerCreated, FeedbackInv
    <2>2. next \in Recording /\ next.pc = "opened"
      BY <1>1 DEF Recording, Opened
    <2> HIDE DEF next
    <2>3. RecorderTrue(next)' /\ next.pc \notin RowStored
      BY <2>1, <2>2 DEF RecorderTrue, Opened, ForestSeen, BothSeen, RowStored
    <2>4. LedgerTrue' /\ Abandoned'
      BY <2>1 DEF FeedbackInv, LedgerTrue, Abandoned
    <2> QED BY <1>1, <2>1, <2>3, <2>4, RecorderTurns
  <1>3. CASE feedback.file # "empty"
    <2>1. feedback' = InRun(r, Idle)
      BY <1>3 DEF LedgerCreated, Raises
    <2> QED BY <1>1, <1>3, <2>1, RecorderRaises
  <1> QED BY <1>2, <1>3

LEMMA StoredKeeps ==
    ASSUME FeedbackInv, PinsTrue, FaultTypes, NEW r \in Recorders, FeedbackStored(r)
    PROVE  FeedbackInv'
  <1> PICK run, outcome : run = feedback.runs[r] /\ outcome = run.outcome
    OBVIOUS
  <1>1. /\ run # Idle /\ run \in Recording /\ UNCHANGED <<dirs, pins, faults>>
        /\ RecorderTrue(run) /\ FrozenThere /\ FaultTypes' /\ run.pc = "insert" /\ outcome \in Outcomes
    <2>1. run.pc = "insert" /\ UNCHANGED <<dirs, pins, faults>>
      BY DEF FeedbackStored, pipelineVars
    <2> QED BY <2>1, RunningIs DEF FaultTypes, Recording
  <1>2. /\ feedback.file = "ledger" /\ run.drift <= Changes
        /\ Changes = run.drift => FrozenModel("forest") /\ FrozenModel("autoencoder")
    BY <1>1 DEF RecorderTrue, Opened, ForestSeen, BothSeen
  <1>3. CASE feedback.row = None
    <2> DEFINE next == [run EXCEPT !.pc = "stored"]
    <2>1. /\ DOMAIN feedback' = DOMAIN feedback /\ feedback'.drift = feedback.drift
          /\ feedback'.runs = [feedback.runs EXCEPT ![r] = next]
          /\ feedback'.file = feedback.file /\ feedback'.row = outcome
          /\ feedback'.created = feedback.created /\ feedback'.existing = feedback.existing
      BY <1>3 DEF FeedbackStored, FeedbackInv
    <2>2. next \in Recording /\ next.pc = "stored" /\ next.outcome = outcome /\ next.drift = run.drift
      BY <1>1 DEF Recording, Opened
    <2>3. feedback.created = {} /\ feedback.existing = {} /\ outcome # None
      BY <1>1, <1>3, FeedbackConfiguration DEF FeedbackInv, LedgerTrue
    <2>4. \A q \in Recorders : feedback.runs[q].pc \notin RowStored
      <3>1. ASSUME NEW q \in Recorders, feedback.runs[q].pc \in RowStored PROVE FALSE
        <4>1. feedback.runs[q].pc # "idle"
          BY <3>1 DEF RowStored
        <4>2. feedback.runs[q] # Idle /\ RecorderTrue(feedback.runs[q]) /\ feedback.runs[q] \in Recording
          BY <4>1, RunningIs
        <4> QED BY <1>3, <3>1, <4>2, FeedbackConfiguration DEF RecorderTrue, Recording
      <3> QED BY <3>1
    <2> HIDE DEF next
    <2>5. Changes' = Changes
      BY <1>1, <2>1 DEF Changes
    <2>6. FrozenModel("forest")' = FrozenModel("forest") /\ FrozenModel("autoencoder")' = FrozenModel("autoencoder")
      BY <1>1 DEF FrozenModel
    <2>7. RecorderTrue(next)'
      BY <1>2, <2>1, <2>2, <2>3, <2>5, <2>6 DEF RecorderTrue
    <2>8. LedgerTrue' /\ Abandoned'
      BY <1>1, <1>2, <2>1, <2>3 DEF LedgerTrue, Abandoned
    <2> QED BY <1>1, <2>1, <2>4, <2>7, <2>8, RecorderTurns
  <1>4. CASE feedback.row # None
    <2> DEFINE told == IF feedback.row = outcome THEN feedback.existing \cup {outcome} ELSE feedback.existing
    <2>1. /\ DOMAIN feedback' = DOMAIN feedback /\ feedback'.drift = feedback.drift
          /\ feedback'.runs = [feedback.runs EXCEPT ![r] = Idle]
          /\ feedback'.file = feedback.file /\ feedback'.row = feedback.row
          /\ feedback'.created = feedback.created /\ feedback'.existing = told
      BY <1>4 DEF FeedbackStored, FeedbackInv, InRun
    <2>2. LedgerTrue'
      BY <1>4, <2>1 DEF FeedbackInv, LedgerTrue
    <2>3. Abandoned' /\ RecorderTrue(Idle)'
      BY <1>2, <2>1 DEF Abandoned, RecorderTrue
    <2> QED BY <1>1, <2>1, <2>2, <2>3, IdleStoresNothing, RecorderTurns
  <1> QED BY <1>3, <1>4

LEMMA AnsweredKeeps ==
    ASSUME FeedbackInv, PinsTrue, FaultTypes, NEW r \in Recorders, FeedbackAnswered(r)
    PROVE  FeedbackInv'
  <1> PICK run, outcome : run = feedback.runs[r] /\ outcome = run.outcome
    OBVIOUS
  <1>1. /\ run # Idle /\ run \in Recording /\ UNCHANGED <<dirs, pins, faults>>
        /\ RecorderTrue(run) /\ FrozenThere /\ FaultTypes' /\ run.pc = "created" /\ outcome \in Outcomes
    <2>1. run.pc = "created" /\ UNCHANGED <<dirs, pins, faults>>
      BY DEF FeedbackAnswered, pipelineVars
    <2> QED BY <2>1, RunningIs DEF FaultTypes, Recording
  <1>2. feedback.file = "ledger" /\ feedback.row = outcome /\ feedback.created = {} /\ outcome # None
    BY <1>1, FeedbackConfiguration DEF RecorderTrue, Opened, RowStored
  <1>3. /\ DOMAIN feedback' = DOMAIN feedback /\ feedback'.drift = feedback.drift
        /\ feedback'.runs = [feedback.runs EXCEPT ![r] = Idle]
        /\ feedback'.file = feedback.file /\ feedback'.row = feedback.row
        /\ feedback'.created = {<<r, outcome>>} /\ feedback'.existing = feedback.existing
    BY <1>2 DEF FeedbackAnswered, FeedbackInv, InRun
  <1>4. \A q \in Recorders \ {r} : feedback.runs[q].pc \notin RowStored
    BY <1>1 DEF FeedbackInv, RowStored
  <1>5. LedgerTrue' /\ Abandoned' /\ RecorderTrue(Idle)'
    BY <1>2, <1>3 DEF FeedbackInv, LedgerTrue, Abandoned, RecorderTrue
  <1> QED BY <1>1, <1>3, <1>4, <1>5, IdleStoresNothing, RecorderTurns

LEMMA DiesKeeps ==
    ASSUME FeedbackInv, PinsTrue, FaultTypes, NEW r \in Recorders, RecorderDies(r)
    PROVE  FeedbackInv' /\ FaultTypes' /\ faults'.mishaps >= faults.mishaps
           /\ faults'.alterations = faults.alterations
  <1>1. /\ UNCHANGED <<dirs, pins>> /\ feedback' = InRun(r, Idle) /\ feedback.runs[r] # Idle
        /\ faults' = [faults EXCEPT !.mishaps = @ + 1]
    BY DEF RecorderDies
  <1>2. FaultTypes' /\ faults'.mishaps > faults.mishaps /\ faults'.mishaps > 0
        /\ faults'.alterations = faults.alterations /\ faults'.mishaps >= faults.mishaps
    BY <1>1 DEF FaultTypes
  <1> QED BY <1>1, <1>2, RecorderRaises

LEMMA DriftsKeeps ==
    ASSUME PipelineInv, AuditInv, FeedbackInv, FaultTypes, NEW s \in {"forest", "autoencoder"},
           FrozenModelDrifts(s)
    PROVE  Grows /\ AuditInv' /\ FeedbackInv' /\ FaultTypes'
  <1>1. FrozenThere /\ PinsTrue /\ UNCHANGED <<flows, proc, pins, served, faults, audit>>
    BY DEF FrozenModelDrifts, FeedbackInv, PipelineInv
  <1>2. /\ s \in Stages /\ pins[s] \in RunIds /\ dirs[s][pins[s]].made /\ "model" \in FilesOf(s)
        /\ s \in DOMAIN pins
    BY <1>1, StagesIn, SomeFiles DEF FrozenThere, PinsTrue, FrozenStages
  <1>3. PICK x \in {"altered", "whole"} : dirs' = [dirs EXCEPT ![s][pins[s]].files["model"] = x]
    BY DEF FrozenModelDrifts
  <1>4. Grows
    BY <1>1, <1>2, <1>3, AlteredGood DEF FileStates
  <1>5. AuditInv'
    BY <1>1, <1>4, AuditKept DEF Grows
  <1>6. /\ DOMAIN feedback' = DOMAIN feedback /\ feedback'.drift = feedback.drift + 1
        /\ feedback'.runs = feedback.runs /\ feedback'.file = feedback.file
        /\ feedback'.row = feedback.row /\ feedback'.created = feedback.created
        /\ feedback'.existing = feedback.existing
    BY DEF FrozenModelDrifts, FeedbackInv
  <1>7. ChangesGrow /\ feedback'.drift \in Nat
    <2>1. feedback.drift \in Nat /\ faults.alterations \in Nat /\ faults'.alterations = faults.alterations
      BY <1>1 DEF FeedbackInv, FaultTypes
    <2> QED BY <1>6, <2>1 DEF ChangesGrow, Changes
  <1>8. PinsKept /\ FrozenThere'
    BY <1>1 DEF PinsKept, FrozenThere
  <1>9. ASSUME NEW r \in Recorders PROVE RecorderTrue(feedback.runs[r])'
    <2> PICK run : run = feedback.runs[r]
      OBVIOUS
    <2>1. RecorderTrue(run)
      BY DEF FeedbackInv
    <2>2. run.pc \in Opened => feedback'.file = "ledger"
      BY <1>6, <2>1, IdleStoresNothing DEF RecorderTrue
    <2>3. RecorderTrue(run)'
      BY <1>1, <1>6, <1>7, <1>8, <2>1, <2>2, RecorderStays
    <2> QED BY <1>6, <2>3
  <1>10. LedgerTrue' /\ Abandoned'
    BY <1>1, <1>6 DEF FeedbackInv, LedgerTrue, Abandoned
  <1>11. FeedbackInv'
    BY <1>6, <1>7, <1>8, <1>9, <1>10 DEF FeedbackInv
  <1> QED BY <1>1, <1>4, <1>5, <1>11 DEF FaultTypes

-----------------------------------------------------------------------------
(* The inductive invariant of the whole. *)
EvidenceInv == PipelineInv /\ FaultTypes /\ AuditInv /\ FeedbackInv /\ flows \in Tables

evidenceVars == <<pipelineVars, audit, feedback>>

LEMMA EvidenceStarts ==
    ASSUME FeedbackInit
    PROVE  EvidenceInv
  <1>1. Init /\ audit = NoAudit /\ feedback = NoFeedback
    BY DEF FeedbackInit, AuditInit
  <1>2. PipelineInv /\ FaultTypes /\ flows \in Tables
    BY <1>1, PipelineStarts DEF Init
  <1>3. AuditInv
    BY <1>1 DEF AuditInv, NoAudit
  <1>4. FeedbackInv
    <2>1. \A r \in Recorders : feedback.runs[r] = Idle /\ RecorderTrue(feedback.runs[r])
      BY <1>1 DEF NoFeedback, RecorderTrue
    <2>2. LedgerTrue /\ Abandoned
      BY <1>1 DEF NoFeedback, LedgerTrue, Abandoned
    <2>3. DOMAIN feedback = {"file", "row", "created", "existing", "drift", "runs"}
          /\ feedback.drift = 0 /\ DOMAIN feedback.runs = Recorders
      BY <1>1 DEF NoFeedback
    <2> QED BY <1>1, <2>1, <2>2, <2>3, IdleStoresNothing DEF FeedbackInv
  <1> QED BY <1>2, <1>3, <1>4 DEF EvidenceInv

LEMMA FlowsStay ==
    ASSUME FeedbackNext
    PROVE  flows' = flows
  <1>1. ASSUME Next PROVE flows' = flows
    <2>1. ASSUME NEW w \in Workers,
                 \/ MakeDirectory(w) \/ WriteFile(w) \/ Return(w) \/ Fails(w) \/ Unlink(w)
                 \/ FailureWritten(w) \/ FailureRenamed(w) \/ Crash(w)
                 \/ \E i \in RunIds, ins \in InputChoices("forest") : FinalizeBegins(w, i, ins)
          PROVE  flows' = flows
      BY <2>1 DEF MakeDirectory, WriteFile, Return, Fails, Unlink, FailureWritten, FailureRenamed,
                  Crash, FinalizeBegins, OnlyProc
    <2>2. ASSUME NEW w \in Workers, NEW s, NEW i, NEW ins, Begin(w, s, i, ins) \/ MakeFirst(w, s, i, ins)
          PROVE  flows' = flows
      BY <2>2 DEF Begin, MakeFirst, OnlyProc
    <2>3. ASSUME \/ \E choice \in [FrozenStages -> RunIds] : Pin(choice)
                 \/ \E d, l, m \in RunIds : PredictorLoaded(d, l, m)
                 \/ \E i \in RunIds : BundleTrusted(i) \/ DetectorLoaded(i)
                 \/ \E s \in Stages : \E i \in RunIds, f \in FilesOf(s) : Alter(s, i, f)
                 \/ AlterSource
          PROVE  flows' = flows
      BY <2>3 DEF Pin, PredictorLoaded, BundleTrusted, DetectorLoaded, Alter, AlterSource
    <2> QED BY <1>1, <2>1, <2>2, <2>3 DEF Next
  <1>2. ASSUME AuditNext PROVE flows' = flows
    BY <1>1, <1>2 DEF AuditNext, AuditCalculated, RecoveryLoaded, RecoveryWritten, AuditPublished,
                      AuditDies, AlterRecovery, pipelineVars
  <1>3. ASSUME NEW r \in Recorders,
               \/ \E outcome \in Outcomes : LedgerLookedFor(r, outcome)
               \/ LedgerConnected(r) \/ LedgerCreated(r) \/ SchemaVerified(r)
               \/ FrozenModelVerified(r) \/ FeedbackStored(r) \/ FeedbackAnswered(r) \/ RecorderDies(r)
        PROVE  flows' = flows
    BY <1>3 DEF LedgerLookedFor, LedgerConnected, LedgerCreated, SchemaVerified, FrozenModelVerified,
                FeedbackStored, FeedbackAnswered, RecorderDies, Step, Raises, pipelineVars
  <1>4. ASSUME NEW s, FrozenModelDrifts(s) PROVE flows' = flows
    BY <1>4 DEF FrozenModelDrifts
  <1> QED BY <1>2, <1>3, <1>4 DEF FeedbackNext

LEMMA EvidenceStep ==
    ASSUME EvidenceInv, FeedbackNext
    PROVE  EvidenceInv'
  <1>0. PipelineInv /\ FaultTypes /\ AuditInv /\ FeedbackInv /\ flows' \in Tables /\ PinsTrue
    BY FlowsStay DEF EvidenceInv, PipelineInv
  <1>1. CASE AuditNext /\ UNCHANGED feedback
    <2>1. AuditGood
      BY <1>0, <1>1, AuditStep
    <2>2. ChangesGrow /\ PinsKept
      <3>1. /\ feedback.drift \in Nat /\ feedback'.drift = feedback.drift
            /\ faults.alterations \in Nat /\ faults'.alterations \in Nat
            /\ faults'.alterations >= faults.alterations
        BY <1>0, <1>1, <2>1 DEF FeedbackInv, FaultTypes, AuditGood
      <3>2. ModelsKept \/ faults'.alterations > faults.alterations
        BY <2>1 DEF AuditGood, ModelsStay
      <3> QED BY <2>1, <3>1, <3>2 DEF ChangesGrow, Changes, AuditGood, Grows
    <2>3. FeedbackInv'
      <3>1. faults.mishaps \in Nat /\ faults'.mishaps \in Nat /\ faults'.mishaps >= faults.mishaps
        BY <1>0, <2>1 DEF FaultTypes, AuditGood
      <3> QED BY <1>0, <1>1, <2>2, <3>1, FeedbackKept
    <2> QED BY <1>0, <2>1, <2>3 DEF EvidenceInv, AuditGood, Grows
  <1>2. ASSUME NEW r \in Recorders,
               \/ \E outcome \in Outcomes : LedgerLookedFor(r, outcome)
               \/ LedgerConnected(r) \/ LedgerCreated(r) \/ SchemaVerified(r)
               \/ FrozenModelVerified(r) \/ FeedbackStored(r) \/ FeedbackAnswered(r)
        PROVE  EvidenceInv'
    <2>1. UNCHANGED <<pipelineVars, audit>>
      BY <1>2 DEF LedgerLookedFor, LedgerConnected, LedgerCreated, SchemaVerified, FrozenModelVerified,
                  FeedbackStored, FeedbackAnswered, Step, Raises
    <2>2. FeedbackInv'
      BY <1>0, <1>2, LookedForKeeps, ConnectedKeeps, CreatedKeeps, SchemaKeeps, VerifiedKeeps,
         StoredKeeps, AnsweredKeeps
    <2>3. Grows /\ FaultTypes'
      BY <1>0, <2>1, SameIsGood DEF pipelineVars, FaultTypes
    <2>4. AuditInv'
      BY <1>0, <2>1, <2>3, AuditKept DEF Grows
    <2> QED BY <1>0, <2>2, <2>3, <2>4 DEF EvidenceInv, Grows
  <1>3. ASSUME NEW r \in Recorders, RecorderDies(r) PROVE EvidenceInv'
    <2>1. UNCHANGED <<flows, dirs, proc, pins, served, audit>>
      BY <1>3 DEF RecorderDies
    <2>2. FeedbackInv' /\ FaultTypes'
      BY <1>0, <1>3, DiesKeeps
    <2>3. Grows
      BY <1>0, <2>1, SameIsGood
    <2>4. AuditInv'
      BY <1>0, <2>1, <2>3, AuditKept DEF Grows
    <2> QED BY <1>0, <2>2, <2>3, <2>4 DEF EvidenceInv, Grows
  <1>4. ASSUME NEW s \in {"forest", "autoencoder"}, FrozenModelDrifts(s) PROVE EvidenceInv'
    BY <1>0, <1>4, DriftsKeeps DEF EvidenceInv, Grows
  <1> QED BY <1>1, <1>2, <1>3, <1>4 DEF FeedbackNext

LEMMA EvidenceSame ==
    ASSUME EvidenceInv, UNCHANGED evidenceVars
    PROVE  EvidenceInv'
  <1>1. UNCHANGED <<flows, dirs, proc, pins, served, faults, audit, feedback>>
    BY DEF evidenceVars, pipelineVars
  <1>2. PipelineInv /\ FaultTypes /\ AuditInv /\ FeedbackInv /\ flows' \in Tables /\ PinsTrue
    BY <1>1 DEF EvidenceInv, PipelineInv
  <1>3. Grows /\ FaultTypes'
    BY <1>1, <1>2, SameIsGood DEF FaultTypes
  <1>4. AuditInv'
    BY <1>1, <1>2, <1>3, AuditKept DEF Grows
  <1>5. FeedbackInv'
    <2>1. ChangesGrow /\ PinsKept
      <3>1. feedback.drift \in Nat /\ faults.alterations \in Nat
        BY <1>2 DEF FeedbackInv, FaultTypes
      <3>2. ModelsKept
        BY <1>1 DEF ModelsKept, ModelKept
      <3> QED BY <1>1, <1>3, <3>1, <3>2 DEF ChangesGrow, Changes, Grows
    <2>2. faults.mishaps \in Nat /\ faults'.mishaps \in Nat /\ faults'.mishaps >= faults.mishaps
      BY <1>1, <1>2 DEF FaultTypes
    <2> QED BY <1>1, <1>2, <2>1, <2>2, FeedbackKept
  <1> QED BY <1>2, <1>3, <1>4, <1>5 DEF EvidenceInv, Grows

-----------------------------------------------------------------------------
(* What the invariant says of the runs' properties. *)
LEMMA PublishedOnceInv ==
    ASSUME EvidenceInv
    PROVE  PublishedOnce
  <1>1. ReportedOnce
    BY DEF EvidenceInv, PipelineInv, WritersTrue, DirectoryTrue, ReportedOnce
  <1>2. AuditPublishedOnce
    <2>1. audit.published \in {0, 1} /\ (audit.output # None => audit.recovery # None)
      BY DEF EvidenceInv, AuditInv
    <2>2. audit.output # None =>
             \A m \in {"forest", "autoencoder"} :
                dirs[m][audit.output[m]].refs["preprocess"] = <<audit.output.preprocess, "whole">>
      BY DEF EvidenceInv, AuditInv, ReportLine
    <2>3. audit.published <= 1
      BY <2>1
    <2> QED BY <2>1, <2>2, <2>3 DEF AuditPublishedOnce
  <1> QED BY <1>1, <1>2 DEF PublishedOnce

LEMMA OneLineageInv ==
    ASSUME EvidenceInv
    PROVE  OneLineage
  <1>0. PipelineInv
    BY DEF EvidenceInv
  <1>1. ASSUME NEW s \in {"forest", "february", "autoencoder"}, NEW i \in RunIds, Reported(s, i),
               NEW m \in Run[s].inputs, "preprocess" \in Run[m].inputs
        PROVE  dirs[m][dirs[s][i].ins[m]].refs["preprocess"] = dirs[s][i].refs["preprocess"]
    <2> PICK d : d = dirs[s][i]
      OBVIOUS
    <2>1. s \in Stages /\ "report" \in FilesOf(s)
      BY SomeFiles, StagesIn
    <2>2. d.made /\ DirectoryLine(s, d) /\ DirectoryTrue(s, d)
      BY <1>0, <1>1, <2>1, ReportedIsMade DEF Reported, PipelineInv, LineageTrue, WritersTrue
    <2>3. Bound(s, d.ins, d.refs)
      BY <2>2 DEF DirectoryLine
    <2>4. m \in {"logistic", "forest"} \/ (s = "autoencoder" /\ m = "february")
      BY <1>1, InputsAre
    <2>5. CASE m \in {"logistic", "forest"}
      BY <2>3, <2>5 DEF Bound
    <2>6. CASE s = "autoencoder" /\ m = "february"
      <3>1. d.files["manifest"] # "none"
        BY <1>1, <2>2, <2>6 DEF DirectoryTrue, Reported
      <3> QED BY <2>2, <2>6, <3>1 DEF DirectoryLine, FebruaryAgrees
    <2> QED BY <2>4, <2>5, <2>6
  <1>2. ASSUME served # None
        PROVE  /\ \A m \in {"logistic", "forest"} :
                     dirs[m][served[m]].refs["preprocess"] = <<served.preprocess, "whole">>
               /\ served.detector # 0 =>
                     dirs["autoencoder"][served.detector].refs["preprocess"] = <<served.preprocess, "whole">>
    BY <1>0, <1>2 DEF PipelineInv, ServedTrue, OfServed
  <1> QED BY <1>1, <1>2 DEF OneLineage

LEMMA FeedbackSoundInv ==
    ASSUME EvidenceInv
    PROVE  FeedbackSound
  <1>0. FeedbackInv
    BY DEF EvidenceInv
  <1>1. /\ \A told \in feedback.created : told[2] = feedback.row
        /\ Cardinality(feedback.created) <= 1
    <2>1. CASE feedback.created = {}
      BY <2>1, FS_EmptySet
    <2>2. CASE feedback.created # {}
      <3>1. PICK r \in Recorders : feedback.created = {<<r, feedback.row>>}
        BY <1>0, <2>2 DEF FeedbackInv, LedgerTrue
      <3>2. Cardinality({<<r, feedback.row>>}) = 1
        BY FS_Singleton
      <3> QED BY <3>1, <3>2
    <2> QED BY <2>1, <2>2
  <1>2. feedback.existing \subseteq {feedback.row} /\ (feedback.row # None => feedback.file = "ledger")
    BY <1>0 DEF FeedbackInv, LedgerTrue
  <1>3. ASSUME NEW r \in Recorders, feedback.runs[r].pc = "created"
        PROVE  /\ feedback.row = feedback.runs[r].outcome
               /\ Changes = feedback.runs[r].drift => FrozenModel("forest") /\ FrozenModel("autoencoder")
    <2>1. feedback.runs[r] # Idle /\ RecorderTrue(feedback.runs[r])
      BY <1>0, <1>3, IdleStoresNothing DEF FeedbackInv
    <2> QED BY <1>3, <2>1 DEF RecorderTrue, RowStored, BothSeen, ForestSeen, Opened
  <1>4. feedback.file = "empty" => faults.mishaps > 0 \/ \E r \in Recorders : feedback.runs[r].pc = "create"
    BY <1>0 DEF FeedbackInv, Abandoned
  <1> QED BY <1>1, <1>2, <1>3, <1>4 DEF FeedbackSound

(* The flows of a fit are training flows, those of a score validate or test, and *)
(* a group of linked flows has one of the three.                                 *)
LEMMA HeldOutInv ==
    ASSUME EvidenceInv, \A table \in Tables : KeepsTogether(table)
    PROVE  HeldOut
  <1> SUFFICES ASSUME NEW s \in DOMAIN FitFile, NEW i \in RunIds, dirs[s][i].held # {},
                      NEW c \in Components(flows), NEW a \in c \cap dirs[s][i].held,
                      NEW b \in c, \/ b \in dirs[s][i].fit
                                   \/ /\ s = "autoencoder"
                                      /\ b \in dirs["preprocess"][dirs[s][i].ins["preprocess"]].held
               PROVE  FALSE
    BY DEF HeldOut
  <1> PICK d : d = dirs[s][i]
    OBVIOUS
  <1>1. s \in {"preprocess", "logistic", "forest", "february", "autoencoder", "rate"} /\ s \in Stages
    BY StagesAre DEF FitFile
  <1>2. PipelineInv /\ DirectoryData(s, d) /\ DirectoryLine(s, d) /\ DirectoryTrue(s, d)
    BY <1>1 DEF EvidenceInv, PipelineInv, DataTrue, LineageTrue, WritersTrue
  <1>3. /\ s \in {"february", "autoencoder"} => a \in Part("test")
        /\ s \notin {"february", "autoencoder"} => a \in Part("validation")
    BY <1>1, <1>2 DEF DirectoryData
  <1>4. b \in Part("train") \/ (s = "autoencoder" /\ b \in Part("validation"))
    <2>1. CASE b \in d.fit
      BY <1>2, <2>1 DEF DirectoryData
    <2>2. CASE s = "autoencoder" /\ b \in dirs["preprocess"][d.ins["preprocess"]].held
      <3>1. d.made
        BY <1>2 DEF DirectoryTrue, NoRun
      <3>2. d.ins["preprocess"] \in RunIds /\ "preprocess" \in Stages
        <4>1. Bound(s, d.ins, d.refs)
          BY <1>2, <3>1 DEF DirectoryLine
        <4>2. "preprocess" \in Run["autoencoder"].inputs /\ "preprocess" \in Stages
          BY InputsAre, StagesIn
        <4> QED BY ONLY <2>2, <4>1, <4>2 DEF Bound
      <3>3. DirectoryData("preprocess", dirs["preprocess"][d.ins["preprocess"]])
        BY <1>2, <3>2 DEF PipelineInv, DataTrue
      <3> QED BY <2>2, <3>3 DEF DirectoryData
    <2> QED BY <2>1, <2>2
  <1>5. \A x, y \in c \cap Rows(flows) : Assignment(flows)[x] = Assignment(flows)[y]
    BY DEF EvidenceInv, KeepsTogether
  <1> QED BY <1>3, <1>4, <1>5 DEF Part

-----------------------------------------------------------------------------
(* However many commands race, fail or die between two files, whatever is        *)
(* altered, and wherever an audit died, a run directory is reported once and an  *)
(* audit published once: mkdir, the failure file that is renamed and the output  *)
(* that appears by one rename.                                                   *)
THEOREM PublishedOnceHolds == FeedbackSpec => []PublishedOnce
  <1>1. EvidenceInv /\ [FeedbackNext]_evidenceVars => EvidenceInv'
    BY EvidenceStep, EvidenceSame
  <1> QED BY <1>1, EvidenceStarts, PublishedOnceInv, PTL DEF FeedbackSpec, evidenceVars

(* Two ways from a finished run to an ancestor name one digest, and what the     *)
(* predictor and the detector loaded is of one preprocessing: the verifications  *)
(* of each command, and the digests it took before its inputs could change.      *)
THEOREM OneLineageHolds == FeedbackSpec => []OneLineage
  <1>1. EvidenceInv /\ [FeedbackNext]_evidenceVars => EvidenceInv'
    BY EvidenceStep, EvidenceSame
  <1> QED BY <1>1, EvidenceStarts, OneLineageInv, PTL DEF FeedbackSpec, evidenceVars

(* What record_feedback answered is the row there is, at most one recorder is    *)
(* told it made it, a row about to be reported as created was verified against   *)
(* models that are whole unless a file changed since, and an empty ledger is the *)
(* work of a creator that is there or died, however recorders race.              *)
THEOREM FeedbackSoundHolds == FeedbackSpec => []FeedbackSound
  <1>1. EvidenceInv /\ [FeedbackNext]_evidenceVars => EvidenceInv'
    BY EvidenceStep, EvidenceSame
  <1> QED BY <1>1, EvidenceStarts, FeedbackSoundInv, PTL DEF FeedbackSpec, evidenceVars

(* Where the assignment keeps linked flows together, no command lets a flow that *)
(* had a part in a fit meet one it is linked to in a score: not through a second *)
(* run of a stage, an altered archive, a commit between two stages, or a split   *)
(* that was made again.                                                          *)
THEOREM HeldOutHolds ==
    ASSUME \A table \in Tables : KeepsTogether(table)
    PROVE  FeedbackSpec => []HeldOut
  <1>1. EvidenceInv /\ [FeedbackNext]_evidenceVars => EvidenceInv'
    BY EvidenceStep, EvidenceSame
  <1>2. EvidenceInv => HeldOut
    BY HeldOutInv
  <1> QED BY <1>1, <1>2, EvidenceStarts, PTL DEF FeedbackSpec, evidenceVars
=============================================================================
