--------------------- MODULE ProducerOrchestratorProofs ---------------------
(***************************************************************************)
(* Theorems about the request path, for every set of handler threads,      *)
(* requests and events, every batch without a repeated event, every        *)
(* verdict and clash relation and any number of submissions, failures and  *)
(* crashes.                                                                *)
(*                                                                         *)
(* The inductive invariant says, stage by stage, what a handler that holds *)
(* the lease knows about the stores it does not read again: that its row   *)
(* is still its own, that its request ran as often as its stage says, and  *)
(* that the dispositions it collected are those of the alert table.        *)
(***************************************************************************)
EXTENDS ProducerOrchestrator, FiniteSetTheorems, TLAPS

(* No alert names the request as its creator. *)
Unborn(r) == \A e \in Events : creator[e] # r

(* The dispositions say of the first events of the batch what the alert     *)
(* table says of them.                                                      *)
Recorded(r, records) ==
    \A i \in 1 .. Len(records) :
        /\ records[i] \in {"created", "existing"} =>
               creator[Batch[r][i]] # NoRecord
        /\ records[i] = "created" <=> creator[Batch[r][i]] = r

(* The persistence loop knows every alert its request created. *)
LoopTrue(h) ==
    /\ Len(persisted[h]) <= Len(Batch[req[h]])
    /\ Recorded(req[h], persisted[h])
    /\ \A e \in Events : creator[e] = req[h] =>
           \E i \in 1 .. Len(persisted[h]) :
               Batch[req[h]][i] = e /\ persisted[h][i] = "created"

(* The response about to be stored is true of the alert table. *)
ConclusionTrue(r, response) ==
    /\ response \in FinalResponses
    /\ response \in Failures => Unborn(r)
    /\ response \notin Failures => /\ Len(response.records) = Len(Batch[r])
                                   /\ Recorded(r, response.records)

(* The response about to be written is the journal's. *)
ReplyTrue(r, response) ==
    /\ response \in FinalResponses => ledger[r] = Ledger!Completed(response)
    /\ response = Response("outcome_unknown") =>
           ledger[r] = Ledger!OutcomeUnknown

Entered == {"gate", "claim", "reply", "write", "release"} \cup Processing
Fresh == {"idle", "accept", "gate", "claim", "admit", "start", "infer", "build"}
Concluding == {"fail", "finish", "complete"}

(* What holds of a claim while a handler works on it. *)
WorkTrue(h) ==
    /\ ledger[req[h]] = Ledger!InProgress /\ owner[req[h]] = gen
    /\ pc[h] # "admit" => <<"request_admitted", req[h]>> \in audited
    /\ executions[req[h]] = IF pc[h] \in {"admit", "start"} THEN 0 ELSE 1
    /\ pc[h] \in {"admit", "start", "infer", "build"} => Unborn(req[h])
    /\ pc[h] = "persist" => LoopTrue(h)
    /\ pc[h] \in Concluding => ConclusionTrue(req[h], reply[h])
    /\ pc[h] = "fail" => reply[h] \in Failures
    /\ pc[h] \in {"finish", "complete"} /\ reply[h] \in Failures =>
           <<reply[h].reason, req[h]>> \in audited
    /\ pc[h] = "complete" => <<"request_completed", req[h]>> \in audited

HandlerTrue(h) ==
    /\ pc[h] \in Processing \cup {"claim"} => holder = h
    /\ pc[h] \in Entered => req[h] \in Records
    /\ pc[h] \in Fresh => persisted[h] = <<>>
    /\ pc[h] \in Processing => WorkTrue(h)
    /\ pc[h] \in {"reply", "write"} => ReplyTrue(req[h], reply[h])

(* What the stores say of a request nobody claimed, and who may own a row. *)
Unclaimed ==
    \A r \in Records :
        /\ ledger[r] = Ledger!Absent => executions[r] = 0 /\ Unborn(r)
        /\ owner[r] <= gen

LateClaimsBounded == PoisonDrains /\ (~fatal => lateClaims = 0)

Inv ==
    /\ TypeOK /\ OutcomesDurable /\ Unclaimed
    /\ ClaimAccounted /\ LateClaimsBounded
    /\ \A h \in Handlers : HandlerTrue(h)

-----------------------------------------------------------------------------
(* Which responses are final, and that a result is none of the failures. *)
LEMMA ResponseFacts ==
    /\ Failures \subseteq FinalResponses
    /\ NoResponse \notin FinalResponses
    /\ \A reason \in TransientReasons :
          /\ Response(reason) \in TransientResponses
          /\ Response(reason) \notin FinalResponses
          /\ reason # "outcome_unknown" =>
                 Response(reason) # Response("outcome_unknown")
    /\ \A d \in Seq(Dispositions) :
          /\ ResultOf(d) \in FinalResponses /\ ResultOf(d) \notin Failures
          /\ ResultOf(d).records = d
    /\ \A reason \in FailureReasons : Response(reason) \in Failures
    /\ \A f \in Failures : f.reason \in FailureReasons
    /\ \A f \in FinalResponses \ Failures : f.records \in Seq(Dispositions)
  BY OrchestratorConfiguration
     DEF FinalResponses, Failures, FailureReasons, TransientResponses,
         TransientReasons, Response, ResultOf

(* The journal's states differ, and only a completed row has a response. *)
LEMMA LedgerFacts ==
    /\ Ledger!Absent \in Ledger!Entries /\ Ledger!InProgress \in Ledger!Entries
    /\ Ledger!OutcomeUnknown \in Ledger!Entries
    /\ Ledger!Absent # Ledger!InProgress
    /\ Ledger!Absent # Ledger!OutcomeUnknown
    /\ Ledger!InProgress # Ledger!OutcomeUnknown
    /\ Ledger!Absent.state # "completed" /\ Ledger!InProgress.state # "completed"
    /\ Ledger!OutcomeUnknown.state # "completed"
    /\ Ledger!Absent.response = NoResponse
    /\ Ledger!InProgress.response = NoResponse
    /\ Ledger!OutcomeUnknown.response = NoResponse
    /\ \A x \in FinalResponses :
          /\ Ledger!Completed(x) \in Ledger!Entries
          /\ Ledger!Completed(x).state = "completed"
          /\ Ledger!Completed(x).response = x
    /\ \A entry \in Ledger!Entries :
          /\ entry.state = "completed" <=> entry.response \in FinalResponses
          /\ entry.state = "completed" => entry = Ledger!Completed(entry.response)
          /\ entry.state # "completed" =>
                 /\ entry \in {Ledger!Absent, Ledger!InProgress,
                               Ledger!OutcomeUnknown}
                 /\ entry.response = NoResponse
  BY ResponseFacts DEF Ledger!Absent, Ledger!InProgress, Ledger!OutcomeUnknown,
     Ledger!Completed, Ledger!Entries

(* A batch rejected as a whole has one disposition for each event. *)
LEMMA RejectedBatchFacts ==
    ASSUME NEW r \in Records
    PROVE  /\ RejectedBatch(r) \in Seq(Dispositions)
           /\ Len(RejectedBatch(r)) = Len(Batch[r])
           /\ \A i \in 1 .. Len(Batch[r]) : RejectedBatch(r)[i] = "rejected"
  BY OrchestratorConfiguration DEF RejectedBatch, Dispositions

(* A loop that has collected fewer dispositions than events is at an event  *)
(* it has not looked at.                                                    *)
LEMMA CurrentEventFacts ==
    ASSUME NEW h \in Handlers, req[h] \in Records,
           persisted[h] \in Seq(Dispositions), Remaining(h)
    PROVE  /\ CurrentEvent(h) \in Events
           /\ \A i \in 1 .. Len(persisted[h]) : Batch[req[h]][i] # CurrentEvent(h)
  <1> DEFINE batch == Batch[req[h]]
             n == Len(persisted[h])
  <1>1. batch \in Seq(Events) /\ n \in Nat /\ n < Len(batch)
    BY OrchestratorConfiguration DEF Remaining
  <1>2. \A i, j \in 1 .. Len(batch) : batch[i] = batch[j] => i = j
    BY OrchestratorConfiguration
  <1>3. CurrentEvent(h) = batch[n + 1]
    BY DEF CurrentEvent
  <1> HIDE DEF batch, n
  <1>4. batch[n + 1] \in Events /\ \A i \in 1 .. n : batch[i] # batch[n + 1]
    BY <1>1, <1>2
  <1> QED
    BY <1>3, <1>4 DEF batch, n

-----------------------------------------------------------------------------
(* A failing call uses one of the failures left. *)
LEMMA FaultType == TypeOK /\ Fault => faults' \in Nat
  BY DEF TypeOK, Fault

(* What a conclusion assigns, for the outcomes of the inference and of the  *)
(* persistence loop.                                                        *)
LEMMA ConcludeType ==
    ASSUME TypeOK, NEW h \in Handlers, NEW response \in FinalResponses,
           NEW budget \in BOOLEAN, Conclude(h, response, budget), faults' \in Nat
    PROVE  TypeOK'
  BY DEF TypeOK, Conclude, Goto, PCs, Processing, process, durable, history

(* The two ways out of a stage that audits and poisons. *)
LEMMA PoisonType ==
    ASSUME TypeOK, NEW h \in Handlers, req[h] \in Records,
           NEW reason \in AuditReasons,
           \/ RaiseAmbiguous(h, reason)
           \/ MaybeAudited(reason, req[h]) \/ Audited(reason, req[h])
    PROVE  audited' \subseteq AuditReasons \X Records
  BY DEF TypeOK, RaiseAmbiguous, MaybeAudited, Audited

(* A handler's step keeps the types. *)
LEMMA HandlerType ==
    ASSUME TypeOK, NEW h \in Handlers, Serve(h), HandlerTrue(h)
    PROVE  TypeOK'
  <1> USE DEF Goto, PCs, Processing, process, handler, durable, history
  <1>0. /\ pc[h] \in Entered => req[h] \in Records
        /\ "internal_error" \in AuditReasons /\ "request_admitted" \in AuditReasons
        /\ "request_completed" \in AuditReasons
    BY DEF HandlerTrue, AuditReasons, FailureReasons
  <1>1. CASE Begin(h) \/ NoSession(h) \/ RequestRejected(h) \/ MarkFailed(h)
    BY <1>1, FaultType DEF TypeOK, Begin, NoSession, RequestRejected, MarkFailed
  <1>2. ASSUME NEW r \in Records, Admit(h, r) PROVE TypeOK'
    <2>1. attempts' \in [Records -> Nat]
      BY <1>2 DEF TypeOK, Admit
    <2>2. req' \in [Handlers -> Records \cup {NoRecord}] /\ pc' \in [Handlers -> PCs]
      BY <1>2 DEF TypeOK, Admit
    <2> QED
      BY <1>2, <2>1, <2>2 DEF TypeOK, Admit
  <1>3. ASSUME NEW response \in FinalResponses \cup TransientResponses,
               Refuse(h, response)
        PROVE  TypeOK'
    BY <1>3 DEF TypeOK, Refuse
  <1>4. CASE GateRateLimited(h) \/ GateBusy(h)
    BY <1>3, <1>4, ResponseFacts
       DEF GateRateLimited, GateBusy, TransientReasons
  <1>5. CASE GateClockInvalid(h)
    BY <1>5, FaultType, ResponseFacts, ZenonT(60)
       DEF TypeOK, GateClockInvalid, TransientReasons
  <1>6. CASE Acquire(h)
    BY <1>6 DEF TypeOK, Acquire, Slot!Grant
  <1>7. CASE ClaimClockFails(h)
    BY <1>7, FaultType DEF TypeOK, ClaimClockFails
  <1>8. CASE ClaimNew(h)
    BY <1>8, <1>0, LedgerFacts, SMTT(40) DEF TypeOK, ClaimNew, Ledger!Claim, Entered
  <1>9. CASE ClaimAmbiguous(h)
    <2>1. req[h] \in Records
      BY <1>9, <1>0 DEF ClaimAmbiguous, Entered
    <2>2. audited' \subseteq AuditReasons \X Records
      BY <1>0, <1>9, <2>1, PoisonType DEF ClaimAmbiguous
    <2>3. ledger' \in [Records -> Ledger!Entries] /\ owner' \in [Records -> Nat]
      BY <1>9, <2>1, LedgerFacts, ZenonT(60) DEF TypeOK, ClaimAmbiguous, Ledger!Claim
    <2> QED
      BY <1>9, <2>2, <2>3, FaultType DEF TypeOK, ClaimAmbiguous, RaiseAmbiguous
  <1>10. CASE ClaimRejected(h) \/ ClaimActive(h) \/ ClaimUnknown(h)
    BY <1>3, <1>10, ResponseFacts
       DEF ClaimRejected, ClaimActive, ClaimUnknown, TransientReasons
  <1>11. CASE ClaimCompleted(h)
    BY <1>0, <1>3, <1>11, LedgerFacts DEF TypeOK, ClaimCompleted, Entered
  <1>12. CASE AuditReply(h)
    BY <1>12, FaultType, ResponseFacts, ZenonT(60) DEF TypeOK, AuditReply, TransientReasons
  <1>13. ASSUME NEW reason \in AuditReasons, req[h] \in Records,
                UNCHANGED <<listening, holder, recovering, req, enforce,
                            persisted, gen, ledger, owner, creator, history,
                            attempts>>,
                \/ /\ Audited(reason, req[h])
                   /\ \E stage \in PCs : Goto(h, stage)
                   /\ UNCHANGED <<fatal, reply, faults>>
                \/ AuditFails(h, reason)
         PROVE  TypeOK'
    <2>1. audited' \subseteq AuditReasons \X Records
      BY <1>13, PoisonType DEF AuditFails
    <2>2. reply' \in [Handlers -> FinalResponses \cup TransientResponses
                                    \cup {NoResponse}]
      BY <1>13, ResponseFacts, ZenonT(60) DEF TypeOK, AuditFails, TransientReasons
    <2>3. pc' \in [Handlers -> PCs]
      BY <1>13 DEF TypeOK, AuditFails
    <2>4. faults' \in Nat
      BY <1>13, FaultType DEF TypeOK, AuditFails
    <2>5. fatal' \in BOOLEAN
      BY <1>13 DEF TypeOK, AuditFails
    <2> QED
      BY <1>13, <2>1, <2>2, <2>3, <2>4, <2>5 DEF TypeOK
  <1>14. CASE AuditAdmitted(h)
    BY <1>0, <1>13, <1>14 DEF AuditAdmitted, Entered
  <1>15. CASE StartClockFails(h) \/ Start(h) \/ Inferred(h)
    <2>1. CASE StartClockFails(h)
      <3>1. orphans' \subseteq Records /\ faults' \in Nat
        BY <1>0, <2>1, FaultType DEF TypeOK, StartClockFails, Entered
      <3> QED
        BY <2>1, <3>1 DEF TypeOK, StartClockFails
    <2>2. CASE Start(h)
      <3>1. executions' \in [Records -> Nat]
        BY <1>0, <2>2 DEF TypeOK, Start, Entered
      <3> QED
        BY <2>2, <3>1 DEF TypeOK, Start
    <2>3. CASE Inferred(h)
      BY <2>3 DEF TypeOK, Inferred
    <2> QED
      BY <1>15, <2>1, <2>2, <2>3
  <1>16. CASE InferenceRejected(h)
    BY <1>0, <1>16, FaultType, ConcludeType, ResponseFacts, RejectedBatchFacts
       DEF InferenceRejected, Entered
  <1>17. CASE InferenceTimeout(h) \/ InferenceFails(h) \/ BuildFails(h)
    BY <1>17, FaultType, ConcludeType, ResponseFacts
       DEF InferenceTimeout, InferenceFails, BuildFails, FailureReasons
  <1>18. CASE InferenceInvalid(h) \/ BuildCandidates(h)
    BY <1>18, FaultType DEF TypeOK, InferenceInvalid, BuildCandidates
  <1>19. ASSUME NEW reason \in AuditReasons, req[h] \in Records,
                Fault, RaiseAmbiguous(h, reason),
                UNCHANGED <<listening, holder, recovering, req, reply, enforce,
                            persisted, gen, owner, history, attempts>>,
                ledger' \in [Records -> Ledger!Entries],
                creator' \in [Events -> Records \cup {NoRecord}]
         PROVE  TypeOK'
    BY <1>19, FaultType, PoisonType DEF TypeOK, RaiseAmbiguous
  <1>20. CASE OutcomeAmbiguous(h)
    BY <1>0, <1>19, <1>20 DEF TypeOK, OutcomeAmbiguous, Entered
  <1>21. CASE SkipRecord(h)
    BY <1>21 DEF TypeOK, SkipRecord, Dispose, Dispositions
  <1>22. CASE InsertAlert(h)
    <2>1. req[h] \in Records /\ CurrentEvent(h) \in Events
      BY <1>0, <1>22, CurrentEventFacts DEF TypeOK, InsertAlert, Entered
    <2>2. creator' \in [Events -> Records \cup {NoRecord}]
      BY <1>22, <2>1 DEF TypeOK, InsertAlert
    <2>3. persisted' \in [Handlers -> Seq(Dispositions)]
      <3>1. \E d \in Dispositions : persisted' = [persisted EXCEPT ![h] = Append(@, d)]
        BY <1>22 DEF InsertAlert, Dispose, Dispositions
      <3> QED
        BY <3>1 DEF TypeOK
    <2> QED
      BY <1>22, <2>2, <2>3 DEF TypeOK, InsertAlert
  <1>23. CASE InsertRefused(h)
    BY <1>0, <1>19, <1>23, FaultType, ConcludeType, ResponseFacts
       DEF TypeOK, InsertRefused, FailureReasons, Entered
  <1>24. CASE InsertAmbiguous(h)
    <2>1. req[h] \in Records /\ creator' \in [Events -> Records \cup {NoRecord}]
      BY <1>0, <1>24, CurrentEventFacts DEF TypeOK, InsertAmbiguous, Entered
    <2> QED
      BY <1>0, <1>19, <1>24, <2>1 DEF TypeOK, InsertAmbiguous
  <1>25. CASE Finalize(h)
    BY <1>25, ConcludeType, ResponseFacts DEF TypeOK, Finalize
  <1>26. CASE AuditFailure(h)
    BY <1>0, <1>13, <1>26, ResponseFacts
       DEF AuditFailure, Entered, HandlerTrue, WorkTrue, AuditReasons
  <1>27. CASE AuditCompleted(h)
    BY <1>0, <1>13, <1>27 DEF AuditCompleted, Entered
  <1>28. CASE BudgetExceeded(h)
    BY <1>0, <1>19, <1>28
       DEF TypeOK, BudgetExceeded, Entered, AuditReasons
  <1>29. ASSUME pc[h] = "complete", Ledger!Complete(req[h], reply[h])
         PROVE  ledger' \in [Records -> Ledger!Entries]
    BY <1>0, <1>29, LedgerFacts
       DEF TypeOK, Ledger!Complete, Entered, HandlerTrue, WorkTrue,
           ConclusionTrue, Concluding
  <1>30. CASE Complete(h)
    BY <1>29, <1>30 DEF TypeOK, Complete
  <1>31. CASE CompleteAmbiguous(h)
    BY <1>0, <1>19, <1>29, <1>31 DEF TypeOK, CompleteAmbiguous, Entered
  <1>32. CASE Write(h)
    <2>1. delivered' \subseteq Records \X LastingResponses
      BY <1>0, <1>32 DEF TypeOK, Write, Entered
    <2>2. faults' \in Nat
      BY <1>32, FaultType DEF TypeOK, Write
    <2> QED
      BY <1>32, <2>1, <2>2 DEF TypeOK, Write
  <1>33. CASE Release(h)
    BY <1>33 DEF TypeOK, Release, Slot!Free
  <1> QED
    BY <1>1, <1>2, <1>4, <1>5, <1>6, <1>7, <1>8, <1>9, <1>10, <1>11, <1>12,
       <1>14, <1>15, <1>16, <1>17, <1>18, <1>20, <1>21, <1>22, <1>23, <1>24,
       <1>25, <1>26, <1>27, <1>28, <1>30, <1>31, <1>32, <1>33
       DEF Serve, Advance

-----------------------------------------------------------------------------
(* A step of one handler, seen by the others: their own state stays, the    *)
(* lease goes only from or to that handler, what is durable only grows.     *)
Frame(h) ==
    /\ gen' = gen /\ audited \subseteq audited' /\ orphans \subseteq orphans'
    /\ fatal => fatal'
    /\ \A k \in Handlers \ {h} :
          /\ pc'[k] = pc[k] /\ req'[k] = req[k] /\ reply'[k] = reply[k]
          /\ persisted'[k] = persisted[k]
    /\ \/ holder' = holder
       \/ holder = NoHandler /\ holder' = h
       \/ holder = h /\ holder' = NoHandler

(* A handler moves itself alone and takes or returns the lease for itself. *)
LEMMA FrameStep ==
    ASSUME TypeOK, NEW h \in Handlers, Serve(h)
    PROVE  Frame(h)
  <1> USE DEF Goto, process, handler, durable, history, Audited, MaybeAudited,
              RaiseAmbiguous, TypeOK, Frame
  <1>1. CASE Begin(h) \/ NoSession(h) \/ RequestRejected(h) \/ MarkFailed(h)
    BY <1>1 DEF Begin, NoSession, RequestRejected, MarkFailed
  <1>2. CASE \E r \in Records : Admit(h, r)
    BY <1>2 DEF Admit
  <1>3. CASE \/ GateRateLimited(h) \/ GateBusy(h) \/ ClaimRejected(h)
             \/ ClaimActive(h) \/ ClaimUnknown(h) \/ ClaimCompleted(h)
    <2>1. \E response : Refuse(h, response)
      BY <1>3 DEF GateRateLimited, GateBusy, ClaimRejected, ClaimActive,
                  ClaimUnknown, ClaimCompleted
    <2> QED
      BY <2>1 DEF Refuse
  <1>4. CASE GateClockInvalid(h) \/ Acquire(h) \/ ClaimClockFails(h)
    BY <1>4 DEF GateClockInvalid, Acquire, ClaimClockFails, Slot!Grant
  <1>5. CASE ClaimNew(h) \/ ClaimAmbiguous(h) \/ AuditReply(h)
    BY <1>5 DEF ClaimNew, ClaimAmbiguous, AuditReply
  <1>6. CASE AuditAdmitted(h) \/ AuditFailure(h) \/ AuditCompleted(h)
    BY <1>6 DEF AuditAdmitted, AuditFailure, AuditCompleted, AuditFails
  <1>7. CASE StartClockFails(h) \/ Start(h) \/ Inferred(h)
    BY <1>7 DEF StartClockFails, Start, Inferred
  <1>8. ASSUME NEW response, NEW budget, Conclude(h, response, budget)
        PROVE  Frame(h)
    BY <1>8 DEF Conclude
  <1>9. CASE \/ InferenceRejected(h) \/ InferenceTimeout(h) \/ InferenceFails(h)
             \/ BuildFails(h) \/ Finalize(h)
    BY <1>8, <1>9 DEF InferenceRejected, InferenceTimeout, InferenceFails,
                      BuildFails, Finalize
  <1>10. CASE InferenceInvalid(h) \/ BuildCandidates(h) \/ OutcomeAmbiguous(h)
    BY <1>10 DEF InferenceInvalid, BuildCandidates, OutcomeAmbiguous
  <1>11. CASE SkipRecord(h) \/ InsertAlert(h)
    BY <1>11 DEF SkipRecord, InsertAlert, Dispose
  <1>12. CASE InsertRefused(h)
    BY <1>8, <1>12 DEF InsertRefused
  <1>13. CASE InsertAmbiguous(h) \/ BudgetExceeded(h)
    BY <1>13 DEF InsertAmbiguous, BudgetExceeded
  <1>14. CASE Complete(h) \/ CompleteAmbiguous(h)
    BY <1>14 DEF Complete, CompleteAmbiguous
  <1>15. CASE Write(h) \/ Release(h)
    BY <1>15 DEF Write, Release, Slot!Free
  <1> QED
    BY <1>1, <1>2, <1>3, <1>4, <1>5, <1>6, <1>7, <1>9, <1>10, <1>11, <1>12,
       <1>13, <1>14, <1>15 DEF Serve, Advance

stores == <<ledger, owner, creator, executions>>

(* The handler whose step changes a store holds the lease, and a settled    *)
(* row stays as it is.                                                      *)
HolderWrites(h) ==
    /\ holder = h
    /\ \A r \in Records : ledger[r] \notin {Ledger!Absent, Ledger!InProgress} =>
           ledger'[r] = ledger[r]

(* What a handler does to the stores is one of these. *)
LEMMA StoreStep ==
    ASSUME TypeOK, NEW h \in Handlers, HandlerTrue(h), Serve(h)
    PROVE  UNCHANGED stores \/ HolderWrites(h)
  <1> USE DEF durable, history, stores
  <1>1. CASE Begin(h) \/ NoSession(h) \/ RequestRejected(h) \/ MarkFailed(h)
    BY <1>1 DEF Begin, NoSession, RequestRejected, MarkFailed
  <1>2. CASE \E r \in Records : Admit(h, r)
    BY <1>2 DEF Admit
  <1>3. CASE \/ GateRateLimited(h) \/ GateBusy(h) \/ ClaimRejected(h)
             \/ ClaimActive(h) \/ ClaimUnknown(h) \/ ClaimCompleted(h)
    BY <1>3 DEF GateRateLimited, GateBusy, ClaimRejected, ClaimActive,
                ClaimUnknown, ClaimCompleted, Refuse
  <1>4. CASE GateClockInvalid(h) \/ Acquire(h) \/ ClaimClockFails(h)
    BY <1>4 DEF GateClockInvalid, Acquire, ClaimClockFails
  <1>5. CASE AuditReply(h) \/ AuditAdmitted(h) \/ AuditFailure(h) \/ AuditCompleted(h)
    BY <1>5 DEF AuditReply, AuditAdmitted, AuditFailure, AuditCompleted
  <1>6. CASE \/ InferenceRejected(h) \/ InferenceTimeout(h) \/ InferenceFails(h)
             \/ BuildFails(h) \/ Finalize(h) \/ InsertRefused(h)
    BY <1>6 DEF InferenceRejected, InferenceTimeout, InferenceFails,
                BuildFails, Finalize, InsertRefused, Conclude
  <1>7. CASE \/ InferenceInvalid(h) \/ BuildCandidates(h) \/ OutcomeAmbiguous(h)
             \/ SkipRecord(h) \/ BudgetExceeded(h) \/ Write(h) \/ Release(h)
             \/ StartClockFails(h) \/ Inferred(h)
    BY <1>7 DEF InferenceInvalid, BuildCandidates, OutcomeAmbiguous, SkipRecord,
                BudgetExceeded, Write, Release, StartClockFails, Inferred
  <1>8. CASE Start(h) \/ InsertAlert(h) \/ InsertAmbiguous(h)
    BY <1>8 DEF Start, InsertAlert, InsertAmbiguous, HolderWrites, HandlerTrue,
                Processing
  <1>9. ASSUME pc[h] \in Processing \cup {"claim"},
               \/ UNCHANGED ledger \/ Ledger!Claim(req[h])
               \/ Ledger!Complete(req[h], reply[h])
        PROVE  HolderWrites(h)
    BY <1>9 DEF TypeOK, HandlerTrue, HolderWrites, Ledger!Claim, Ledger!Complete
  <1>10. CASE \/ ClaimNew(h) \/ ClaimAmbiguous(h) \/ Complete(h)
              \/ CompleteAmbiguous(h)
    BY <1>9, <1>10 DEF ClaimNew, ClaimAmbiguous, Complete, CompleteAmbiguous,
                       Processing
  <1> QED
    BY <1>1, <1>2, <1>3, <1>4, <1>5, <1>6, <1>7, <1>8, <1>10 DEF Serve, Advance

(* So what the other handlers know stays true. *)
LEMMA OthersKept ==
    ASSUME TypeOK, NEW h \in Handlers, NEW k \in Handlers \ {h}, Frame(h),
           HandlerTrue(k), UNCHANGED stores \/ HolderWrites(h)
    PROVE  HandlerTrue(k)'
  <1>1. /\ gen' = gen /\ audited \subseteq audited'
        /\ pc'[k] = pc[k] /\ req'[k] = req[k] /\ reply'[k] = reply[k]
        /\ persisted'[k] = persisted[k]
        /\ holder = k => holder' = k
    BY OrchestratorConfiguration DEF Frame
  <1>2. ASSUME pc[k] \in Processing PROVE WorkTrue(k)'
    <2>1. UNCHANGED stores /\ WorkTrue(k)
      BY <1>2 DEF HandlerTrue, HolderWrites
    <2>2. \A r : Unborn(r)' <=> Unborn(r)
      BY <2>1 DEF stores, Unborn
    <2>3. \A r, s : Recorded(r, s)' <=> Recorded(r, s)
      BY <2>1 DEF stores, Recorded
    <2>4. LoopTrue(k)' <=> LoopTrue(k)
      BY <1>1, <2>1, <2>3 DEF stores, LoopTrue
    <2>5. ConclusionTrue(req[k], reply[k])' <=> ConclusionTrue(req[k], reply[k])
      BY <1>1, <2>2, <2>3 DEF ConclusionTrue
    <2> QED
      BY <1>1, <2>1, <2>2, <2>4, <2>5 DEF WorkTrue, stores
  <1>3. ASSUME pc[k] \in {"reply", "write"} PROVE ReplyTrue(req[k], reply[k])'
    <2>1. req[k] \in Records /\ ReplyTrue(req[k], reply[k])
      BY <1>3 DEF HandlerTrue, Entered
    <2>2. ledger[req[k]] \notin {Ledger!Absent, Ledger!InProgress} =>
              ledger'[req[k]] = ledger[req[k]]
      BY <2>1 DEF HolderWrites, stores
    <2>3. \A x \in FinalResponses :
              Ledger!Completed(x) \notin {Ledger!Absent, Ledger!InProgress}
      BY LedgerFacts
    <2> QED
      BY <1>1, <2>1, <2>2, <2>3, LedgerFacts DEF ReplyTrue
  <1> QED
    BY <1>1, <1>2, <1>3 DEF HandlerTrue

-----------------------------------------------------------------------------
(* What a handler knows when it leaves a stage with a response to write or  *)
(* with none.                                                               *)
LEMMA Leaves ==
    ASSUME NEW h \in Handlers, pc'[h] = "release", req'[h] \in Records
    PROVE  HandlerTrue(h)'
  BY DEF HandlerTrue, Processing, Entered, Fresh

(* A final answer in hand is the one the journal holds. *)
LEMMA Answers ==
    ASSUME NEW h \in Handlers, pc'[h] \in {"reply", "write"},
           req'[h] \in Records, ReplyTrue(req[h], reply[h])'
    PROVE  HandlerTrue(h)'
  BY DEF HandlerTrue, Processing, Entered, Fresh

(* A transient answer says nothing about the journal. *)
LEMMA AnswersTransient ==
    ASSUME NEW h \in Handlers, pc'[h] \in {"reply", "write"},
           req'[h] \in Records,
           NEW reason \in TransientReasons \ {"outcome_unknown"},
           reply'[h] = Response(reason)
    PROVE  HandlerTrue(h)'
  <1>1. ReplyTrue(req[h], reply[h])'
    BY ResponseFacts DEF ReplyTrue
  <1> QED
    BY <1>1, Answers

(* A handler that settles its claim knows that the response is true. *)
LEMMA Concludes ==
    ASSUME TypeOK, NEW h \in Handlers, req[h] \in Records, holder = h,
           WorkTrue(h), pc[h] \in {"infer", "build", "persist"},
           NEW response, NEW budget, Conclude(h, response, budget),
           ConclusionTrue(req[h], response)
    PROVE  HandlerTrue(h)'
  <1>1. /\ UNCHANGED <<holder, req, gen, ledger, owner, creator, audited, executions>>
        /\ pc'[h] = IF response \in Failures THEN "fail" ELSE "finish"
        /\ reply'[h] = response
    BY DEF Conclude, Goto, process, durable, history, TypeOK
  <1>2. ConclusionTrue(req[h], reply[h])'
    BY <1>1 DEF ConclusionTrue, Unborn, Recorded
  <1>3. WorkTrue(h)'
    BY <1>1, <1>2 DEF WorkTrue, Concluding
  <1> QED
    BY <1>1, <1>3 DEF HandlerTrue, Processing, Entered, Fresh

(* A failure is a true conclusion as long as there is no alert. *)
LEMMA FailureTrue ==
    ASSUME NEW r, Unborn(r), NEW reason \in FailureReasons
    PROVE  ConclusionTrue(r, Response(reason))
  BY ResponseFacts DEF ConclusionTrue

(* Rejecting a whole batch is true of a request without alerts. *)
LEMMA RejectionTrue ==
    ASSUME NEW r \in Records, Unborn(r)
    PROVE  ConclusionTrue(r, ResultOf(RejectedBatch(r)))
  <1>1. Recorded(r, RejectedBatch(r))
    BY RejectedBatchFacts, OrchestratorConfiguration DEF Recorded, Unborn
  <1> QED
    BY <1>1, RejectedBatchFacts, ResponseFacts DEF ConclusionTrue

(* One turn of the persistence loop: the event is new to the loop, so its   *)
(* row is this request's only if this turn creates it.                      *)
LEMMA LoopTurn ==
    ASSUME TypeOK, NEW h \in Handlers, req[h] \in Records, LoopTrue(h),
           Remaining(h), NEW d \in Dispositions, Dispose(h, d), req' = req,
           \/ /\ d = "created" /\ creator[CurrentEvent(h)] = NoRecord
              /\ creator' = [creator EXCEPT ![CurrentEvent(h)] = req[h]]
           \/ /\ d = "existing" /\ creator[CurrentEvent(h)] # NoRecord
              /\ creator' = creator
           \/ d \notin {"created", "existing"} /\ creator' = creator
    PROVE  LoopTrue(h)'
  <1> DEFINE r == req[h]
             old == persisted[h]
             new == persisted'[h]
             e == CurrentEvent(h)
             n == Len(old)
  <1>1. /\ old \in Seq(Dispositions) /\ new = Append(old, d) /\ n \in Nat
        /\ Len(new) = n + 1 /\ new[n + 1] = d
        /\ \A i \in 1 .. n : new[i] = old[i]
    BY DEF TypeOK, Dispose
  <1>2. e \in Events /\ e = Batch[r][n + 1] /\ \A i \in 1 .. n : Batch[r][i] # e
    BY CurrentEventFacts DEF CurrentEvent, TypeOK
  <1>3. n + 1 <= Len(Batch[r])
    BY <1>1, OrchestratorConfiguration DEF Remaining
  <1>4. creator[e] # r
    BY <1>2 DEF LoopTrue
  <1>5. \A i \in 1 .. n : Batch[r][i] \in Events
    BY <1>1, <1>3, OrchestratorConfiguration
  <1>6. \A x \in Events : x # e => creator'[x] = creator[x]
    BY <1>2 DEF TypeOK
  <1>7. /\ d = "created" => creator'[e] = r
        /\ d # "created" => creator'[e] = creator[e]
    BY <1>2 DEF TypeOK
  <1>8. r \in Records /\ r # NoRecord
    BY OrchestratorConfiguration
  <1> HIDE DEF r, old, new, e, n
  <1>9. \A i \in 1 .. n + 1 :
            /\ new[i] \in {"created", "existing"} => creator'[Batch[r][i]] # NoRecord
            /\ new[i] = "created" <=> creator'[Batch[r][i]] = r
    <2>1. ASSUME NEW i \in 1 .. n
          PROVE  /\ new[i] \in {"created", "existing"} =>
                        creator'[Batch[r][i]] # NoRecord
                 /\ new[i] = "created" <=> creator'[Batch[r][i]] = r
      BY <1>1, <1>2, <1>5, <1>6 DEF LoopTrue, Recorded, r, old, n
    <2>2. /\ d \in {"created", "existing"} => creator'[e] # NoRecord
          /\ d = "created" <=> creator'[e] = r
      BY <1>4, <1>7, <1>8 DEF e
    <2> QED
      BY <1>1, <1>2, <2>1, <2>2
  <1>10. ASSUME NEW x \in Events, creator'[x] = r
         PROVE  \E i \in 1 .. n + 1 : Batch[r][i] = x /\ new[i] = "created"
    <2>1. CASE x = e
      BY <1>1, <1>2, <1>4, <1>7, <1>10, <2>1
    <2>2. CASE x # e
      <3>1. creator[x] = r
        BY <1>6, <1>10, <2>2
      <3>2. PICK i \in 1 .. n : Batch[r][i] = x /\ old[i] = "created"
        BY <3>1 DEF LoopTrue, r, old, n
      <3> QED
        BY <1>1, <3>2
    <2> QED
      BY <2>1, <2>2
  <1>11. req'[h] = r /\ persisted'[h] = new /\ Len(persisted'[h]) = n + 1
    BY <1>1 DEF r, new
  <1> QED
    BY <1>3, <1>9, <1>10, <1>11 DEF LoopTrue, Recorded

-----------------------------------------------------------------------------
(* Every step of a handler leads to a stage whose claims it meets. *)
LEMMA OwnStep ==
    ASSUME TypeOK, Unclaimed, NEW h \in Handlers, HandlerTrue(h), Serve(h)
    PROVE  HandlerTrue(h)'
  <1> USE DEF Goto, process, handler, durable, history
  <1>0. pc[h] \in Entered => req[h] \in Records
    BY DEF HandlerTrue
  <1>1. CASE Begin(h) \/ NoSession(h) \/ RequestRejected(h) \/ MarkFailed(h)
    BY <1>1 DEF Begin, NoSession, RequestRejected, MarkFailed, TypeOK,
                HandlerTrue, Processing, Entered, Fresh
  <1>2. CASE \E r \in Records : Admit(h, r)
    BY <1>2 DEF Admit, TypeOK, HandlerTrue, Processing, Entered, Fresh
  <1>3. CASE GateRateLimited(h) \/ GateBusy(h)
    BY <1>0, <1>3, AnswersTransient
       DEF GateRateLimited, GateBusy, Refuse, TypeOK, Entered, TransientReasons
  <1>4. CASE GateClockInvalid(h)
    BY <1>0, <1>4, AnswersTransient, Leaves
       DEF GateClockInvalid, TypeOK, Entered, TransientReasons
  <1>5. CASE Acquire(h)
    BY <1>0, <1>5 DEF Acquire, Slot!Grant, TypeOK, HandlerTrue, Processing,
                      Entered, Fresh
  <1>6. CASE ClaimClockFails(h) \/ ClaimAmbiguous(h)
    BY <1>0, <1>6, Leaves
       DEF ClaimClockFails, ClaimAmbiguous, RaiseAmbiguous, TypeOK, Entered
  <1>7. CASE ClaimNew(h)
    <2>1. /\ req[h] \in Records /\ ledger[req[h]] = Ledger!Absent
          /\ ledger'[req[h]] = Ledger!InProgress /\ owner'[req[h]] = gen
          /\ UNCHANGED <<holder, req, gen, creator, executions, persisted>>
          /\ pc'[h] = "admit"
      BY <1>0, <1>7 DEF ClaimNew, Ledger!Claim, TypeOK, Entered
    <2>2. executions[req[h]] = 0 /\ Unborn(req[h])'
      BY <2>1 DEF Unclaimed, Unborn
    <2>3. WorkTrue(h)'
      BY <2>1, <2>2 DEF WorkTrue, Concluding
    <2>4. holder = h /\ persisted[h] = <<>>
      BY <1>7 DEF ClaimNew, HandlerTrue, Fresh
    <2> QED
      BY <2>1, <2>3, <2>4 DEF HandlerTrue, Processing, Entered, Fresh
  <1>8. CASE ClaimRejected(h) \/ ClaimActive(h)
    BY <1>0, <1>8, AnswersTransient
       DEF ClaimRejected, ClaimActive, Refuse, TypeOK, Entered, TransientReasons
  <1>9. CASE ClaimUnknown(h) \/ ClaimCompleted(h)
    <2>1. /\ req[h] \in Records /\ UNCHANGED <<req, ledger>> /\ pc'[h] = "reply"
          /\ \/ /\ ledger[req[h]] = Ledger!OutcomeUnknown
                /\ reply'[h] = Response("outcome_unknown")
             \/ /\ ledger[req[h]].state = "completed"
                /\ reply'[h] = ledger[req[h]].response
      BY <1>0, <1>9
         DEF ClaimUnknown, ClaimCompleted, Refuse, TypeOK, Entered
    <2>2. ReplyTrue(req[h], reply[h])'
      BY <2>1, LedgerFacts, ResponseFacts DEF ReplyTrue, TypeOK, TransientReasons
    <2> QED
      BY <2>1, <2>2, Answers
  <1>10. CASE AuditReply(h)
    <2>1. /\ req[h] \in Records /\ UNCHANGED <<req, ledger>> /\ pc'[h] = "write"
          /\ reply'[h] = reply[h] \/ reply'[h] = Response("audit_unavailable")
      BY <1>0, <1>10 DEF AuditReply, TypeOK, Entered
    <2>2. ReplyTrue(req[h], reply[h])
      BY <1>10 DEF AuditReply, HandlerTrue
    <2>3. ReplyTrue(req[h], reply[h])'
      BY <2>1, <2>2, ResponseFacts DEF ReplyTrue, TransientReasons
    <2> QED
      BY <2>1, <2>3, Answers
  <1>11. ASSUME pc[h] \in Processing
         PROVE  /\ holder = h /\ req[h] \in Records /\ WorkTrue(h)
                /\ pc[h] \in Fresh => persisted[h] = <<>>
    BY <1>0, <1>11 DEF HandlerTrue, Entered
  <1>12. ASSUME NEW reason, AuditFails(h, reason), req' = req, pc[h] \in Processing
         PROVE  HandlerTrue(h)'
    BY <1>11, <1>12, AnswersTransient DEF AuditFails, TypeOK, TransientReasons
  <1>13. CASE AuditAdmitted(h)
    <2>1. CASE AuditFails(h, "request_admitted")
      BY <1>12, <1>13, <2>1 DEF AuditAdmitted, Processing
    <2>2. CASE Audited("request_admitted", req[h]) /\ Goto(h, "start")
      <3>1. /\ UNCHANGED <<holder, req, gen, ledger, owner, creator, executions,
                           persisted>>
            /\ pc[h] = "admit" /\ pc'[h] = "start"
            /\ <<"request_admitted", req[h]>> \in audited'
        BY <1>13, <2>2 DEF AuditAdmitted, Audited, TypeOK
      <3>2. /\ holder = h /\ req[h] \in Records /\ WorkTrue(h)
            /\ persisted[h] = <<>>
        BY <1>11, <3>1 DEF Processing, Fresh
      <3>3. WorkTrue(h)'
        BY <3>1, <3>2 DEF WorkTrue, Unborn, Concluding
      <3> QED
        BY <3>1, <3>2, <3>3 DEF HandlerTrue, Processing, Entered, Fresh
    <2> QED
      BY <1>13, <2>1, <2>2 DEF AuditAdmitted
  <1>14. CASE StartClockFails(h) \/ InferenceInvalid(h) \/ OutcomeAmbiguous(h)
    BY <1>11, <1>14, Leaves
       DEF StartClockFails, InferenceInvalid, OutcomeAmbiguous, RaiseAmbiguous,
           TypeOK, Processing
  <1>15. CASE Start(h) \/ Inferred(h)
    <2>1. /\ UNCHANGED <<holder, req, gen, ledger, owner, creator, audited, persisted>>
          /\ \/ /\ pc[h] = "start" /\ pc'[h] = "infer"
                /\ executions' = [executions EXCEPT ![req[h]] = @ + 1]
             \/ /\ pc[h] = "infer" /\ pc'[h] = "build"
                /\ executions' = executions
      BY <1>15 DEF Start, Inferred, TypeOK
    <2>2. /\ holder = h /\ req[h] \in Records /\ WorkTrue(h)
          /\ persisted[h] = <<>>
      BY <1>11, <2>1 DEF Processing, Fresh
    <2>3. executions'[req[h]] = 1
      BY <2>1, <2>2 DEF WorkTrue, TypeOK
    <2>4. WorkTrue(h)'
      BY <2>1, <2>2, <2>3 DEF WorkTrue, Unborn, Concluding
    <2> QED
      BY <2>1, <2>2, <2>4 DEF HandlerTrue, Processing, Entered, Fresh
  <1>16. CASE InferenceRejected(h)
    BY <1>11, <1>16, Concludes, RejectionTrue
       DEF InferenceRejected, Processing, WorkTrue
  <1>17. CASE InferenceTimeout(h) \/ InferenceFails(h) \/ BuildFails(h)
    <2>1. /\ pc[h] \in {"infer", "build"}
          /\ \E reason \in FailureReasons, budget \in BOOLEAN :
                Conclude(h, Response(reason), budget)
      BY <1>17 DEF InferenceTimeout, InferenceFails, BuildFails, FailureReasons
    <2> QED
      BY <1>11, <2>1, Concludes, FailureTrue DEF Processing, WorkTrue
  <1>18. CASE BuildCandidates(h)
    <2>1. /\ UNCHANGED <<holder, req, gen, ledger, owner, creator, audited,
                         executions, persisted>>
          /\ pc[h] = "build" /\ pc'[h] = "persist"
      BY <1>18 DEF BuildCandidates, TypeOK
    <2>2. /\ holder = h /\ req[h] \in Records /\ WorkTrue(h)
          /\ persisted[h] = <<>>
      BY <1>11, <2>1 DEF Processing, Fresh
    <2>3. Unborn(req[h]) /\ Batch[req[h]] \in Seq(Events)
      BY <2>1, <2>2, OrchestratorConfiguration DEF WorkTrue
    <2>4. LoopTrue(h)'
      BY <2>1, <2>2, <2>3 DEF LoopTrue, Recorded, Unborn
    <2>5. WorkTrue(h)'
      BY <2>1, <2>2, <2>4 DEF WorkTrue, Concluding
    <2> QED
      BY <2>1, <2>2, <2>5 DEF HandlerTrue, Processing, Entered, Fresh
  <1>19. CASE SkipRecord(h) \/ InsertAlert(h)
    <2>1. /\ UNCHANGED <<holder, req, gen, ledger, owner, audited, executions, pc>>
          /\ pc[h] = "persist" /\ Remaining(h)
      BY <1>19 DEF SkipRecord, InsertAlert
    <2>2. holder = h /\ req[h] \in Records /\ WorkTrue(h)
      BY <1>11, <2>1 DEF Processing
    <2>3. \E d \in Dispositions :
              /\ Dispose(h, d)
              /\ \/ /\ d = "created" /\ creator[CurrentEvent(h)] = NoRecord
                    /\ creator' = [creator EXCEPT ![CurrentEvent(h)] = req[h]]
                 \/ /\ d = "existing" /\ creator[CurrentEvent(h)] # NoRecord
                    /\ creator' = creator
                 \/ d \notin {"created", "existing"} /\ creator' = creator
      BY <1>19 DEF SkipRecord, InsertAlert, Dispositions
    <2>4. LoopTrue(h)'
      BY <2>1, <2>2, <2>3, LoopTurn DEF WorkTrue
    <2>5. WorkTrue(h)'
      BY <2>1, <2>2, <2>4 DEF WorkTrue, Concluding
    <2> QED
      BY <2>1, <2>2, <2>5 DEF HandlerTrue, Processing, Entered, Fresh
  <1>20. CASE InsertRefused(h)
    <2>1. /\ pc[h] = "persist"
          /\ \/ ~SomeDurable(h) /\ Conclude(h, Response("internal_error"), TRUE)
             \/ RaiseAmbiguous(h, "internal_error") /\ req' = req
      BY <1>20 DEF InsertRefused
    <2>2. holder = h /\ req[h] \in Records /\ WorkTrue(h)
      BY <1>11, <2>1 DEF Processing
    <2>3. ~SomeDurable(h) => Unborn(req[h])
      BY <2>1, <2>2 DEF WorkTrue, LoopTrue, SomeDurable, Unborn
    <2>4. ASSUME ~SomeDurable(h), Conclude(h, Response("internal_error"), TRUE)
          PROVE  HandlerTrue(h)'
      BY <2>1, <2>2, <2>3, <2>4, Concludes, FailureTrue DEF FailureReasons
    <2>5. ASSUME RaiseAmbiguous(h, "internal_error"), req' = req
          PROVE  HandlerTrue(h)'
      BY <2>2, <2>5, Leaves DEF RaiseAmbiguous, TypeOK
    <2> QED
      BY <2>1, <2>4, <2>5
  <1>21. CASE InsertAmbiguous(h) \/ BudgetExceeded(h) \/ CompleteAmbiguous(h)
    BY <1>11, <1>21, Leaves
       DEF InsertAmbiguous, BudgetExceeded, CompleteAmbiguous, RaiseAmbiguous,
           TypeOK, Processing
  <1>22. CASE Finalize(h)
    <2>1. /\ pc[h] = "persist" /\ ~Remaining(h)
          /\ Conclude(h, ResultOf(persisted[h]), TRUE)
      BY <1>22 DEF Finalize
    <2>2. holder = h /\ req[h] \in Records /\ WorkTrue(h) /\ LoopTrue(h)
      BY <1>11, <2>1 DEF Processing, WorkTrue
    <2>3. /\ persisted[h] \in Seq(Dispositions)
          /\ Len(persisted[h]) = Len(Batch[req[h]])
      BY <2>1, <2>2, OrchestratorConfiguration DEF TypeOK, LoopTrue, Remaining
    <2>4. ConclusionTrue(req[h], ResultOf(persisted[h]))
      BY <2>2, <2>3, ResponseFacts DEF ConclusionTrue, LoopTrue
    <2> QED
      BY <2>1, <2>2, <2>4, Concludes
  <1>23. CASE AuditFailure(h) \/ AuditCompleted(h)
    <2>1. CASE \E reason : AuditFails(h, reason)
      BY <1>12, <1>23, <2>1 DEF AuditFailure, AuditCompleted, Processing
    <2>2. CASE ~\E reason : AuditFails(h, reason)
      <3>1. /\ UNCHANGED <<holder, req, gen, ledger, owner, creator, executions,
                           persisted, reply>>
            /\ audited \subseteq audited'
            /\ \/ /\ pc[h] = "fail" /\ pc'[h] = "finish"
                  /\ <<reply[h].reason, req[h]>> \in audited'
               \/ /\ pc[h] = "finish" /\ pc'[h] = "complete"
                  /\ <<"request_completed", req[h]>> \in audited'
        BY <1>23, <2>2 DEF AuditFailure, AuditCompleted, Audited, TypeOK
      <3>2. holder = h /\ req[h] \in Records /\ WorkTrue(h)
        BY <1>11, <3>1 DEF Processing
      <3>3. ConclusionTrue(req[h], reply[h])'
        BY <3>1, <3>2 DEF WorkTrue, Concluding, ConclusionTrue, Unborn, Recorded
      <3>4. WorkTrue(h)'
        BY <3>1, <3>2, <3>3 DEF WorkTrue
      <3> QED
        BY <3>1, <3>2, <3>4 DEF HandlerTrue, Processing, Entered, Fresh
    <2> QED
      BY <2>1, <2>2
  <1>24. CASE Complete(h)
    <2>1. /\ pc[h] = "complete" /\ pc'[h] = "write" /\ UNCHANGED <<req, reply>>
          /\ Ledger!Complete(req[h], reply[h])
      BY <1>24 DEF Complete, TypeOK
    <2>2. req[h] \in Records /\ reply[h] \in FinalResponses
      BY <1>11, <2>1 DEF Processing, WorkTrue, Concluding, ConclusionTrue
    <2>3. ReplyTrue(req[h], reply[h])'
      BY <2>1, <2>2, ResponseFacts
         DEF ReplyTrue, Ledger!Complete, TypeOK, TransientReasons
    <2> QED
      BY <2>1, <2>2, <2>3, Answers
  <1>25. CASE Write(h)
    BY <1>0, <1>25, Leaves DEF Write, TypeOK, Entered
  <1>26. CASE Release(h)
    BY <1>26 DEF Release, TypeOK, HandlerTrue, Processing, Entered, Fresh
  <1> QED
    BY <1>1, <1>2, <1>3, <1>4, <1>5, <1>6, <1>7, <1>8, <1>9, <1>10, <1>13,
       <1>14, <1>15, <1>16, <1>17, <1>18, <1>19, <1>20, <1>21, <1>22, <1>23,
       <1>24, <1>25, <1>26 DEF Serve, Advance

-----------------------------------------------------------------------------
(* The ways a step changes what was answered, created and told. *)
LedgerMoves ==
    \A r \in Records :
        \/ ledger'[r] = ledger[r]
        \/ /\ ledger[r] \in {Ledger!Absent, Ledger!InProgress}
           /\ ledger'[r] \in {Ledger!InProgress, Ledger!OutcomeUnknown}

Creates(h) ==
    /\ pc[h] = "persist" /\ Remaining(h)
    /\ creator[CurrentEvent(h)] = NoRecord
    /\ creator' = [creator EXCEPT ![CurrentEvent(h)] = req[h]]
    /\ UNCHANGED <<ledger, owner, executions, delivered>>

Settles(h) ==
    /\ pc[h] = "complete" /\ Ledger!Complete(req[h], reply[h])
    /\ UNCHANGED <<owner, creator, executions, delivered>>

Tells(h) ==
    /\ pc[h] = "write" /\ reply[h] \in LastingResponses
    /\ delivered' = delivered \cup {<<req[h], reply[h]>>}
    /\ UNCHANGED stores

Claims(h) ==
    /\ pc[h] = "claim" /\ Ledger!Claim(req[h])
    /\ owner' = [owner EXCEPT ![req[h]] = gen]
    /\ UNCHANGED <<creator, executions, delivered>>

(* Every step of a handler changes them in one of these ways, runs the      *)
(* inference or leaves them.                                                *)
LEMMA StepKinds ==
    ASSUME NEW h \in Handlers, Serve(h)
    PROVE  \/ UNCHANGED <<stores, delivered>>
           \/ Claims(h) \/ Creates(h) \/ Settles(h) \/ Tells(h) \/ Start(h)
  <1> USE DEF durable, history, stores
  <1>1. CASE Begin(h) \/ NoSession(h) \/ RequestRejected(h) \/ MarkFailed(h)
    BY <1>1 DEF Begin, NoSession, RequestRejected, MarkFailed
  <1>2. CASE \E r \in Records : Admit(h, r)
    BY <1>2 DEF Admit
  <1>3. CASE \/ GateRateLimited(h) \/ GateBusy(h) \/ ClaimRejected(h)
             \/ ClaimActive(h) \/ ClaimUnknown(h) \/ ClaimCompleted(h)
    BY <1>3 DEF GateRateLimited, GateBusy, ClaimRejected, ClaimActive,
                ClaimUnknown, ClaimCompleted, Refuse
  <1>4. CASE GateClockInvalid(h) \/ Acquire(h) \/ ClaimClockFails(h)
    BY <1>4 DEF GateClockInvalid, Acquire, ClaimClockFails
  <1>5. CASE AuditReply(h) \/ AuditAdmitted(h) \/ AuditFailure(h) \/ AuditCompleted(h)
    BY <1>5 DEF AuditReply, AuditAdmitted, AuditFailure, AuditCompleted
  <1>6. CASE \/ InferenceRejected(h) \/ InferenceTimeout(h) \/ InferenceFails(h)
             \/ BuildFails(h) \/ Finalize(h) \/ InsertRefused(h)
    BY <1>6 DEF InferenceRejected, InferenceTimeout, InferenceFails,
                BuildFails, Finalize, InsertRefused, Conclude
  <1>7. CASE \/ InferenceInvalid(h) \/ BuildCandidates(h) \/ OutcomeAmbiguous(h)
             \/ SkipRecord(h) \/ BudgetExceeded(h) \/ Release(h)
             \/ StartClockFails(h) \/ Inferred(h)
    BY <1>7 DEF InferenceInvalid, BuildCandidates, OutcomeAmbiguous, SkipRecord,
                BudgetExceeded, Release, StartClockFails, Inferred
  <1>8. CASE InsertAlert(h) \/ InsertAmbiguous(h)
    BY <1>8 DEF InsertAlert, InsertAmbiguous, Creates
  <1>9. CASE ClaimNew(h) \/ ClaimAmbiguous(h)
    BY <1>9 DEF ClaimNew, ClaimAmbiguous, Claims
  <1>10. CASE Complete(h) \/ CompleteAmbiguous(h)
    BY <1>10 DEF Complete, CompleteAmbiguous, Settles
  <1>11. CASE Write(h)
    BY <1>11 DEF Write, Tells
  <1> QED
    BY <1>1, <1>2, <1>3, <1>4, <1>5, <1>6, <1>7, <1>8, <1>9, <1>10, <1>11
       DEF Serve, Advance

-----------------------------------------------------------------------------
(* Rows that settle as unknown or become active leave the answers true. *)
LEMMA OutcomesKept ==
    ASSUME TypeOK, OutcomesDurable, LedgerMoves, audited \subseteq audited',
           creator' = creator, delivered' = delivered
    PROVE  OutcomesDurable'
  <1>1. \A r \in Records : \/ ledger'[r] = ledger[r]
                           \/ /\ ledger[r].state # "completed"
                              /\ ledger'[r].state # "completed"
                              /\ ledger'[r].response = NoResponse
                              /\ ledger[r] # Ledger!OutcomeUnknown
    BY LedgerFacts DEF LedgerMoves
  <1>2. NoResponse \notin Failures
    BY ResponseFacts
  <1>3. \A d \in delivered : d[1] \in Records
    BY DEF TypeOK
  <1>4. DeliveredDurable'
    BY <1>1, <1>3, LedgerFacts DEF OutcomesDurable, DeliveredDurable
  <1>5. DispositionsDurable'
    BY <1>1 DEF OutcomesDurable, DispositionsDurable
  <1>6. FailureLeavesNothing'
    BY <1>1, <1>2 DEF OutcomesDurable, FailureLeavesNothing
  <1>7. AuditTrail'
    BY <1>1 DEF OutcomesDurable, AuditTrail
  <1> QED
    BY <1>4, <1>5, <1>6, <1>7 DEF OutcomesDurable

(* The two steps that decide: an alert row, and the stored response. *)
LEMMA OutcomesStep ==
    ASSUME TypeOK, OutcomesDurable, NEW h \in Handlers, HandlerTrue(h), Serve(h)
    PROVE  OutcomesDurable'
  <1>1. audited \subseteq audited'
    BY FrameStep DEF Frame
  <1>2. CASE Claims(h) \/ UNCHANGED <<stores, delivered>> \/ Start(h)
    <2>1. LedgerMoves /\ creator' = creator /\ delivered' = delivered
      BY <1>2 DEF Claims, Start, LedgerMoves, Ledger!Claim, TypeOK, stores, durable
    <2> QED
      BY <1>1, <2>1, OutcomesKept
  <1>3. ASSUME pc[h] \in Processing PROVE req[h] \in Records /\ WorkTrue(h)
    BY <1>3 DEF HandlerTrue, Entered
  <1>4. CASE Creates(h)
    <2> DEFINE e == CurrentEvent(h)
    <2>1. /\ req[h] \in Records /\ req[h] # NoRecord
          /\ ledger[req[h]] = Ledger!InProgress
          /\ <<"request_admitted", req[h]>> \in audited
      BY <1>3, <1>4, OrchestratorConfiguration DEF Creates, Processing, WorkTrue
    <2>2. e \in Events
      BY <1>4, <2>1, CurrentEventFacts DEF Creates, TypeOK
    <2>3. /\ ledger' = ledger /\ delivered' = delivered
          /\ creator[e] = NoRecord /\ creator'[e] = req[h]
          /\ \A x \in Events : x # e => creator'[x] = creator[x]
      BY <1>4, <2>2 DEF Creates, TypeOK
    <2> HIDE DEF e
    <2>4. DeliveredDurable'
      BY <2>3 DEF OutcomesDurable, DeliveredDurable
    <2>5. FailureLeavesNothing'
      BY <2>1, <2>3, LedgerFacts, ResponseFacts
         DEF OutcomesDurable, FailureLeavesNothing
    <2>6. DispositionsDurable'
      <3>1. SUFFICES ASSUME NEW r \in Records, ledger[r].state = "completed",
                            ledger[r].response \notin Failures
                     PROVE  LET result == ledger[r].response IN
                            /\ Len(result.records) = Len(Batch[r])
                            /\ \A i \in 1 .. Len(Batch[r]) :
                                  /\ result.records[i] \in {"created", "existing"} =>
                                         creator'[Batch[r][i]] # NoRecord
                                  /\ result.records[i] = "created" <=>
                                         creator'[Batch[r][i]] = r
        BY <2>3 DEF DispositionsDurable
      <3>2. r # req[h] /\ r # NoRecord
        BY <2>1, <3>1, LedgerFacts, OrchestratorConfiguration
      <3>3. \A i \in 1 .. Len(Batch[r]) : Batch[r][i] \in Events
        BY OrchestratorConfiguration
      <3> QED
        BY <2>1, <2>3, <3>1, <3>2, <3>3
           DEF OutcomesDurable, DispositionsDurable
    <2>7. AuditTrail'
      BY <1>1, <2>1, <2>3 DEF OutcomesDurable, AuditTrail
    <2> QED
      BY <2>4, <2>5, <2>6, <2>7 DEF OutcomesDurable
  <1>5. CASE Settles(h)
    <2>1. /\ req[h] \in Records /\ ledger[req[h]] = Ledger!InProgress
          /\ ConclusionTrue(req[h], reply[h])
          /\ reply[h] \in Failures => <<reply[h].reason, req[h]>> \in audited
          /\ <<"request_completed", req[h]>> \in audited
      BY <1>3, <1>5 DEF Settles, Processing, WorkTrue, Concluding
    <2>2. /\ creator' = creator /\ delivered' = delivered
          /\ ledger'[req[h]] = Ledger!Completed(reply[h])
          /\ ledger'[req[h]].state = "completed"
          /\ ledger'[req[h]].response = reply[h]
          /\ \A r \in Records : r # req[h] => ledger'[r] = ledger[r]
      BY <1>5, <2>1, LedgerFacts
         DEF Settles, Ledger!Complete, TypeOK, ConclusionTrue
    <2>3. DeliveredDurable'
      <3>1. \A d \in delivered : d[1] \in Records
        BY DEF TypeOK
      <3>2. \A x \in FinalResponses : Ledger!InProgress # Ledger!Completed(x)
        BY LedgerFacts
      <3> QED
        BY <2>1, <2>2, <3>1, <3>2, LedgerFacts DEF OutcomesDurable, DeliveredDurable
    <2>4. FailureLeavesNothing'
      BY <2>1, <2>2 DEF OutcomesDurable, FailureLeavesNothing, ConclusionTrue, Unborn
    <2>5. DispositionsDurable'
      <3>1. ASSUME reply[h] \notin Failures
            PROVE  /\ Len(reply[h].records) = Len(Batch[req[h]])
                   /\ \A i \in 1 .. Len(Batch[req[h]]) :
                         /\ reply[h].records[i] \in {"created", "existing"} =>
                                creator[Batch[req[h]][i]] # NoRecord
                         /\ reply[h].records[i] = "created" <=>
                                creator[Batch[req[h]][i]] = req[h]
        BY <2>1, <3>1 DEF ConclusionTrue, Recorded
      <3> QED
        BY <2>2, <3>1, SMTT(40) DEF OutcomesDurable, DispositionsDurable
    <2>6. AuditTrail'
      BY <1>1, <2>1, <2>2 DEF OutcomesDurable, AuditTrail
    <2> QED
      BY <2>3, <2>4, <2>5, <2>6 DEF OutcomesDurable
  <1>6. CASE Tells(h)
    <2>1. ReplyTrue(req[h], reply[h])
      BY <1>6 DEF Tells, HandlerTrue
    <2>2. DeliveredDurable'
      BY <1>6, <2>1 DEF Tells, OutcomesDurable, DeliveredDurable, ReplyTrue, stores
    <2> QED
      BY <1>1, <1>6, <2>2 DEF Tells, OutcomesDurable, DispositionsDurable,
         FailureLeavesNothing, AuditTrail, stores
  <1> QED
    BY <1>2, <1>4, <1>5, <1>6, StepKinds

-----------------------------------------------------------------------------
(* What nobody claimed stays without a run and without an alert. *)
LEMMA UnclaimedStep ==
    ASSUME TypeOK, Unclaimed, NEW h \in Handlers, HandlerTrue(h), Serve(h)
    PROVE  Unclaimed'
  <1>1. gen' = gen
    BY FrameStep DEF Frame
  <1>2. ASSUME pc[h] \in Processing
        PROVE  req[h] \in Records /\ ledger[req[h]] = Ledger!InProgress
    BY <1>2 DEF HandlerTrue, Entered, WorkTrue
  <1>3. CASE UNCHANGED stores
    BY <1>1, <1>3 DEF stores, Unclaimed, Unborn
  <1>4. CASE Claims(h)
    <2>1. /\ gen \in Nat /\ creator' = creator /\ executions' = executions
          /\ \A r \in Records : owner'[r] \in {owner[r], gen}
          /\ \A r \in Records : ledger'[r] \in {ledger[r], Ledger!InProgress}
      BY <1>4 DEF Claims, Ledger!Claim, TypeOK
    <2> QED
      BY <1>1, <2>1, LedgerFacts DEF Unclaimed, Unborn
  <1>5. CASE Creates(h) \/ Start(h)
    <2>1. /\ req[h] \in Records /\ ledger[req[h]] = Ledger!InProgress
          /\ ledger' = ledger /\ owner' = owner
      BY <1>2, <1>5 DEF Creates, Start, Processing, durable
    <2>2. \A r \in Records \ {req[h]} :
              /\ executions'[r] = executions[r]
              /\ Unborn(r) => Unborn(r)'
      BY <1>5 DEF Creates, Start, TypeOK, Unborn, durable
    <2> QED
      BY <1>1, <2>1, <2>2, LedgerFacts DEF Unclaimed
  <1>6. CASE Settles(h)
    <2>1. /\ req[h] \in Records /\ ledger[req[h]] = Ledger!InProgress
          /\ \A r \in Records : r # req[h] => ledger'[r] = ledger[r]
          /\ ledger'[req[h]] = Ledger!Completed(reply[h])
          /\ UNCHANGED <<owner, creator, executions>>
      BY <1>2, <1>6 DEF Settles, Ledger!Complete, TypeOK, Processing
    <2>2. Ledger!Completed(reply[h]) # Ledger!Absent
      BY DEF Ledger!Completed, Ledger!Absent
    <2> QED
      BY <1>1, <2>1, <2>2 DEF Unclaimed, Unborn
  <1> QED
    BY <1>3, <1>4, <1>5, <1>6, StepKinds DEF Tells

-----------------------------------------------------------------------------
(* A handler gives up its own claim only by settling it, by poisoning the   *)
(* generation or at the one clock read that drops it.                       *)
LEMMA OwnClaim ==
    ASSUME TypeOK, NEW h \in Handlers, HandlerTrue(h), Serve(h),
           pc[h] \in Processing
    PROVE  \/ fatal'
           \/ req[h] \in orphans'
           \/ pc'[h] \in Processing /\ req'[h] = req[h]
           \/ ledger'[req[h]] # Ledger!InProgress
  <1> USE DEF Goto, Processing, RaiseAmbiguous, TypeOK
  <1>1. CASE \/ Begin(h) \/ NoSession(h) \/ RequestRejected(h) \/ MarkFailed(h)
             \/ \E r \in Records : Admit(h, r)
    BY <1>1 DEF Begin, NoSession, RequestRejected, MarkFailed, Admit
  <1>2. CASE \/ GateRateLimited(h) \/ GateBusy(h) \/ ClaimRejected(h)
             \/ ClaimActive(h) \/ ClaimUnknown(h) \/ ClaimCompleted(h)
             \/ GateClockInvalid(h) \/ Acquire(h) \/ ClaimClockFails(h)
             \/ ClaimNew(h) \/ ClaimAmbiguous(h) \/ AuditReply(h)
             \/ Write(h) \/ Release(h)
    BY <1>2 DEF GateRateLimited, GateBusy, ClaimRejected, ClaimActive,
                ClaimUnknown, ClaimCompleted, GateClockInvalid, Acquire,
                ClaimClockFails, ClaimNew, ClaimAmbiguous, AuditReply, Write,
                Release
  <1>3. CASE AuditAdmitted(h) \/ AuditFailure(h) \/ AuditCompleted(h)
    BY <1>3 DEF AuditAdmitted, AuditFailure, AuditCompleted, AuditFails
  <1>4. CASE StartClockFails(h) \/ Start(h) \/ Inferred(h) \/ BuildCandidates(h)
    BY <1>4 DEF StartClockFails, Start, Inferred, BuildCandidates
  <1>5. CASE \/ InferenceRejected(h) \/ InferenceTimeout(h) \/ InferenceFails(h)
             \/ BuildFails(h) \/ Finalize(h) \/ InsertRefused(h)
    BY <1>5 DEF InferenceRejected, InferenceTimeout, InferenceFails,
                BuildFails, Finalize, InsertRefused, Conclude
  <1>6. CASE \/ InferenceInvalid(h) \/ OutcomeAmbiguous(h) \/ InsertAmbiguous(h)
             \/ BudgetExceeded(h) \/ CompleteAmbiguous(h)
    BY <1>6 DEF InferenceInvalid, OutcomeAmbiguous, InsertAmbiguous,
                BudgetExceeded, CompleteAmbiguous
  <1>7. CASE SkipRecord(h) \/ InsertAlert(h)
    BY <1>7 DEF SkipRecord, InsertAlert
  <1>8. CASE Complete(h)
    <2>1. req[h] \in Records
      BY DEF HandlerTrue, Entered
    <2>2. ledger'[req[h]] = Ledger!Completed(reply[h])
      BY <1>8, <2>1 DEF Complete, Ledger!Complete
    <2> QED
      BY <2>2 DEF Ledger!Completed, Ledger!InProgress
  <1> QED
    BY <1>1, <1>2, <1>3, <1>4, <1>5, <1>6, <1>7, <1>8 DEF Serve, Advance

(* A new claim is its handler's, or the generation is poisoned. *)
LEMMA NewClaim ==
    ASSUME TypeOK, NEW h \in Handlers, Serve(h), HandlerTrue(h), Claims(h)
    PROVE  /\ fatal' \/ (pc'[h] \in Processing /\ req'[h] = req[h])
           /\ \A r \in Records \ {req[h]} :
                 ledger'[r] = ledger[r] /\ owner'[r] = owner[r]
  <1>1. req[h] \in Records /\ ledger'[req[h]] = Ledger!InProgress
        /\ ledger[req[h]] = Ledger!Absent
    BY DEF Claims, Ledger!Claim, TypeOK, HandlerTrue, Entered
  <1>2. ledger' # ledger
    BY <1>1, LedgerFacts
  <1>3. ClaimNew(h) \/ ClaimAmbiguous(h)
    BY <1>2 DEF Claims, Serve, Advance, Begin, NoSession, RequestRejected,
       MarkFailed, Admit, GateRateLimited, GateBusy, ClaimRejected, ClaimActive,
       ClaimUnknown, ClaimCompleted, GateClockInvalid, Acquire, ClaimClockFails,
       AuditReply, Write, Release, AuditAdmitted, AuditFailure, AuditCompleted,
       StartClockFails, Start, Inferred, BuildCandidates, InferenceRejected,
       InferenceTimeout, InferenceFails, BuildFails, Finalize, InsertRefused,
       InferenceInvalid, OutcomeAmbiguous, InsertAmbiguous, BudgetExceeded,
       CompleteAmbiguous, SkipRecord, InsertAlert, Complete, Refuse, durable
  <1> QED
    BY <1>3 DEF Claims, ClaimNew, ClaimAmbiguous, RaiseAmbiguous, Goto, TypeOK,
                Processing, Ledger!Claim

(* A step of a handler leaves every active row with its handler. *)
LEMMA AccountedStep ==
    ASSUME TypeOK, ClaimAccounted, NEW h \in Handlers, Serve(h), HandlerTrue(h)
    PROVE  ClaimAccounted'
  <1>1. Frame(h)
    BY FrameStep
  <1>2. SUFFICES ASSUME NEW r \in Records, ~fatal', r \notin orphans',
                        ledger'[r] = Ledger!InProgress, owner'[r] = gen
                 PROVE  \E k \in Handlers : req'[k] = r /\ pc'[k] \in Processing
    BY <1>1 DEF ClaimAccounted, Frame
  <1>3. CASE Claims(h) /\ r = req[h]
    BY <1>2, <1>3, NewClaim
  <1>4. CASE ~(Claims(h) /\ r = req[h])
    <2>1. ledger[r] = Ledger!InProgress /\ owner[r] = gen
      <3>1. CASE UNCHANGED stores \/ Creates(h) \/ Start(h)
        BY <1>2, <3>1 DEF stores, Creates, Start, durable
      <3>2. CASE Claims(h)
        BY <1>2, <1>4, <3>2, NewClaim
      <3>3. CASE Settles(h)
        <4>1. Ledger!Completed(reply[h]) # Ledger!InProgress
          BY DEF Ledger!Completed, Ledger!InProgress
        <4> QED
          BY <1>2, <3>3, <4>1 DEF Settles, Ledger!Complete, TypeOK
      <3> QED
        BY <3>1, <3>2, <3>3, StepKinds DEF Tells
    <2>2. ~fatal /\ r \notin orphans
      BY <1>1, <1>2 DEF Frame
    <2>3. PICK k \in Handlers : req[k] = r /\ pc[k] \in Processing
      BY <2>1, <2>2 DEF ClaimAccounted
    <2>4. CASE k = h
      BY <1>2, <2>3, <2>4, OwnClaim
    <2>5. CASE k # h
      BY <1>1, <2>3, <2>5 DEF Frame
    <2> QED
      BY <2>4, <2>5
  <1> QED
    BY <1>3, <1>4

-----------------------------------------------------------------------------
(* The handlers that have passed the fatal check and not yet claimed. *)
Pending == {h \in Handlers : pc[h] \in {"accept", "gate", "claim"}}

(* The handlers that may still claim can be counted. *)
LEMMA PendingFinite ==
    /\ Cardinality(Handlers) \in Nat
    /\ IsFiniteSet(Pending) /\ Cardinality(Pending) \in Nat
    /\ Cardinality(Pending) <= Cardinality(Handlers)
    /\ IsFiniteSet(Pending') /\ Cardinality(Pending') \in Nat
    /\ Cardinality(Pending') <= Cardinality(Handlers)
  <1>1. IsFiniteSet(Handlers)
    BY OrchestratorConfiguration
  <1>2. Pending \subseteq Handlers /\ Pending' \subseteq Handlers
    BY DEF Pending
  <1> QED
    BY <1>1, <1>2, FS_Subset, FS_CardinalityType

(* After the poison a handler only leaves the pending ones; a claim takes   *)
(* one away.                                                                *)
LEMMA PendingStep ==
    ASSUME TypeOK, NEW h \in Handlers, Serve(h)
    PROVE  /\ fatal => Pending' \subseteq Pending
           /\ \/ lateClaims' = lateClaims
              \/ /\ fatal' = fatal
                 /\ lateClaims' = IF fatal THEN lateClaims + 1 ELSE lateClaims
                 /\ h \in Pending /\ Pending' = Pending \ {h}
  <1> USE DEF Goto, process, handler, durable, history, TypeOK, Pending
  <1>1. CASE \/ Begin(h) \/ NoSession(h) \/ RequestRejected(h) \/ MarkFailed(h)
             \/ \E r \in Records : Admit(h, r)
    BY <1>1 DEF Begin, NoSession, RequestRejected, MarkFailed, Admit
  <1>2. CASE \/ GateRateLimited(h) \/ GateBusy(h) \/ ClaimRejected(h)
             \/ ClaimActive(h) \/ ClaimUnknown(h) \/ ClaimCompleted(h)
    BY <1>2 DEF GateRateLimited, GateBusy, ClaimRejected, ClaimActive,
                ClaimUnknown, ClaimCompleted, Refuse
  <1>3. CASE GateClockInvalid(h) \/ Acquire(h) \/ ClaimClockFails(h)
    BY <1>3 DEF GateClockInvalid, Acquire, ClaimClockFails
  <1>4. CASE ClaimNew(h)
    BY <1>4 DEF ClaimNew
  <1>5. CASE \/ ClaimAmbiguous(h) \/ InferenceInvalid(h) \/ OutcomeAmbiguous(h)
             \/ InsertAmbiguous(h) \/ BudgetExceeded(h) \/ CompleteAmbiguous(h)
    BY <1>5 DEF ClaimAmbiguous, InferenceInvalid, OutcomeAmbiguous,
                InsertAmbiguous, BudgetExceeded, CompleteAmbiguous, RaiseAmbiguous
  <1>6. CASE AuditReply(h) \/ AuditAdmitted(h) \/ AuditFailure(h) \/ AuditCompleted(h)
    BY <1>6 DEF AuditReply, AuditAdmitted, AuditFailure, AuditCompleted, AuditFails
  <1>7. CASE StartClockFails(h) \/ Start(h) \/ Inferred(h) \/ BuildCandidates(h)
    BY <1>7 DEF StartClockFails, Start, Inferred, BuildCandidates
  <1>8. CASE \/ InferenceRejected(h) \/ InferenceTimeout(h) \/ InferenceFails(h)
             \/ BuildFails(h) \/ Finalize(h)
    BY <1>8 DEF InferenceRejected, InferenceTimeout, InferenceFails, BuildFails,
                Finalize, Conclude
  <1>9. CASE InsertRefused(h)
    BY <1>9 DEF InsertRefused, Conclude, RaiseAmbiguous
  <1>10. CASE SkipRecord(h) \/ InsertAlert(h) \/ Complete(h) \/ Write(h) \/ Release(h)
    BY <1>10 DEF SkipRecord, InsertAlert, Complete, Write, Release
  <1> QED
    BY <1>1, <1>2, <1>3, <1>4, <1>5, <1>6, <1>7, <1>8, <1>9, <1>10
       DEF Serve, Advance

(* A poisoned generation claims no more than it had accepted. *)
LEMMA DrainStep ==
    ASSUME TypeOK, LateClaimsBounded, NEW h \in Handlers, Serve(h)
    PROVE  LateClaimsBounded'
  <1>1. /\ fatal => lateClaims + Cardinality(Pending) <= Cardinality(Handlers)
        /\ ~fatal => lateClaims = 0
        /\ fatal \in BOOLEAN /\ lateClaims \in Nat
    BY DEF LateClaimsBounded, PoisonDrains, Pending, TypeOK
  <1>2. fatal => fatal'
    BY FrameStep DEF Frame
  <1>3. SUFFICES /\ fatal' => lateClaims' + Cardinality(Pending')
                                  <= Cardinality(Handlers)
                 /\ ~fatal' => lateClaims' = 0
    BY DEF LateClaimsBounded, PoisonDrains, Pending
  <1>4. CASE lateClaims' = lateClaims
    <2>1. CASE fatal
      <3>1. Cardinality(Pending') <= Cardinality(Pending)
        BY <2>1, PendingStep, PendingFinite, FS_Subset
      <3> QED
        BY <1>1, <1>2, <1>4, <2>1, <3>1, PendingFinite
    <2>2. CASE ~fatal
      BY <1>1, <1>4, <2>2, PendingFinite
    <2> QED
      BY <2>1, <2>2
  <1>5. CASE /\ fatal' = fatal
             /\ lateClaims' = IF fatal THEN lateClaims + 1 ELSE lateClaims
             /\ h \in Pending /\ Pending' = Pending \ {h}
    <2>1. Cardinality(Pending') = Cardinality(Pending) - 1
      BY <1>5, PendingFinite, FS_RemoveElement
    <2> QED
      BY <1>1, <1>5, <2>1, PendingFinite
  <1> QED
    BY <1>4, <1>5, PendingStep

-----------------------------------------------------------------------------
(* A recovery takes the active rows of an earlier generation, none of which *)
(* a handler works on.                                                      *)
LEMMA RecoveryStep ==
    ASSUME Inv, NEW a \in 1 .. gen - 1, Recover(a) \/ RecoverFails(a)
    PROVE  Inv'
  <1>1. /\ UNCHANGED <<listening, holder, handler, gen, owner, creator, audited,
                       history, attempts>>
        /\ fatal = FALSE
        /\ ledger' = ledger \/ Ledger!Abandon(ActiveClaimsOf(a))
        /\ recovering' \in BOOLEAN /\ fatal' \in BOOLEAN /\ faults' \in Nat
    BY FaultType DEF Recover, RecoverFails, Inv, TypeOK
  <1>2. gen \in Nat /\ a # gen /\ ledger \in [Records -> Ledger!Entries]
    BY DEF Inv, TypeOK
  <1>3. \A r \in Records :
            \/ ledger'[r] = ledger[r]
            \/ /\ ledger[r] = Ledger!InProgress /\ owner[r] # gen
               /\ ledger'[r] = Ledger!OutcomeUnknown
    BY <1>1, <1>2 DEF Ledger!Abandon, ActiveClaimsOf
  <1>4. TypeOK'
    <2>1. ledger' \in [Records -> Ledger!Entries]
      BY <1>1, <1>2, LedgerFacts DEF Ledger!Abandon
    <2> QED
      BY <1>1, <2>1 DEF Inv, TypeOK, handler, history
  <1>5. OutcomesDurable'
    <2>1. LedgerMoves
      BY <1>3 DEF LedgerMoves
    <2> QED
      BY <1>1, <2>1, OutcomesKept DEF Inv, history
  <1>6. Unclaimed'
    BY <1>1, <1>3, LedgerFacts DEF Inv, Unclaimed, Unborn, history
  <1>7. ClaimAccounted'
    BY <1>1, <1>3, LedgerFacts DEF Inv, ClaimAccounted, handler, history
  <1>8. LateClaimsBounded'
    <2>1. lateClaims' = lateClaims /\ lateClaims = 0 /\ pc' = pc
      BY <1>1 DEF Inv, LateClaimsBounded, handler, history
    <2> QED
      BY <2>1, PendingFinite DEF LateClaimsBounded, PoisonDrains, Pending
  <1>9. ASSUME NEW h \in Handlers PROVE HandlerTrue(h)'
    <2>0. HandlerTrue(h)
      BY DEF Inv
    <2>1. /\ UNCHANGED <<holder, pc, req, reply, persisted, gen, owner, creator,
                         audited, executions>>
      BY <1>1 DEF handler, history
    <2>2. ASSUME pc[h] \in Processing PROVE WorkTrue(h)'
      <3>1. ledger'[req[h]] = ledger[req[h]] /\ WorkTrue(h)
        BY <1>3, <2>0, <2>2 DEF HandlerTrue, Entered, WorkTrue
      <3> QED
        BY <2>1, <3>1 DEF WorkTrue, LoopTrue, ConclusionTrue, Unborn, Recorded
    <2>3. ASSUME pc[h] \in {"reply", "write"} PROVE ReplyTrue(req[h], reply[h])'
      <3>1. req[h] \in Records /\ ReplyTrue(req[h], reply[h])
        BY <2>0, <2>3 DEF HandlerTrue, Entered
      <3>2. \A x \in FinalResponses : Ledger!InProgress # Ledger!Completed(x)
        BY LedgerFacts
      <3> QED
        BY <1>3, <2>1, <3>1, <3>2, LedgerFacts DEF ReplyTrue
    <2> QED
      BY <2>0, <2>1, <2>2, <2>3 DEF HandlerTrue
  <1> QED
    BY <1>4, <1>5, <1>6, <1>7, <1>8, <1>9 DEF Inv

(* A crash loses what the handlers knew; a new generation owns no row. *)
LEMMA CrashStep == Inv /\ Crash => Inv'
  <1> SUFFICES ASSUME Inv, Crash PROVE Inv'
    OBVIOUS
  <1>1. gen \in Nat /\ gen' = gen + 1 /\ ledger' = ledger
        /\ UNCHANGED <<owner, creator, audited, executions, delivered>>
    BY DEF Crash, Inv, TypeOK
  <1>2. TypeOK'
    <2>1. /\ pc' \in [Handlers -> PCs] /\ req' \in [Handlers -> Records \cup {NoRecord}]
          /\ reply' \in [Handlers -> FinalResponses \cup TransientResponses
                                         \cup {NoResponse}]
          /\ enforce' \in [Handlers -> BOOLEAN]
      BY DEF Crash, PCs
    <2>2. persisted' \in [Handlers -> Seq(Dispositions)]
      BY DEF Crash
    <2>3. gen' \in Nat \ {0} /\ lateClaims' \in Nat
      BY <1>1 DEF Crash
    <2> QED
      BY <2>1, <2>2, <2>3 DEF Crash, Inv, TypeOK
  <1>3. OutcomesDurable'
    BY <1>1, OutcomesKept DEF Inv, LedgerMoves
  <1>4. Unclaimed'
    <2>1. owner \in [Records -> Nat]
      BY DEF Inv, TypeOK
    <2> QED
      BY <1>1, <2>1 DEF Inv, Unclaimed, Unborn
  <1>5. \A r \in Records : owner'[r] # gen'
    <2>1. owner \in [Records -> Nat]
      BY DEF Inv, TypeOK
    <2> QED
      BY <1>1, <2>1 DEF Inv, Unclaimed
  <1>6. ClaimAccounted'
    BY <1>5 DEF ClaimAccounted
  <1>7. LateClaimsBounded'
    BY DEF Crash, LateClaimsBounded, PoisonDrains
  <1>8. \A h \in Handlers : HandlerTrue(h)'
    BY DEF Crash, HandlerTrue, Processing, Entered, Fresh
  <1> QED
    BY <1>2, <1>3, <1>4, <1>6, <1>7, <1>8 DEF Inv

(* Recording the recovery touches neither handlers nor stores. *)
LEMMA AuditRecoveryStep == Inv /\ AuditRecovery => Inv'
  <1> SUFFICES ASSUME Inv, AuditRecovery PROVE Inv'
    OBVIOUS
  <1>1. faults' \in Nat
    BY FaultType DEF AuditRecovery, Inv, TypeOK
  <1>2. /\ UNCHANGED <<listening, holder, handler, durable, history, attempts>>
        /\ recovering' \in BOOLEAN
    BY DEF AuditRecovery
  <1>3. fatal' = fatal \/ fatal' = TRUE
    BY DEF AuditRecovery
  <1>4. fatal \in BOOLEAN
    BY DEF Inv, TypeOK
  <1>5. /\ UNCHANGED <<listening, holder, handler, durable, history, attempts>>
        /\ fatal => fatal'
        /\ recovering' \in BOOLEAN /\ fatal' \in BOOLEAN
    <2>1. CASE fatal' = fatal
      BY <1>2, <1>4, <2>1
    <2>2. CASE fatal' = TRUE
      BY <1>2, <2>2
    <2> QED
      BY <1>3, <2>1, <2>2
  <1>6. TypeOK'
    BY <1>1, <1>5 DEF Inv, TypeOK, handler, durable, history
  <1>7. OutcomesDurable' /\ Unclaimed' /\ ClaimAccounted'
    <2>1. OutcomesDurable'
      BY <1>5, OutcomesKept DEF Inv, LedgerMoves, durable, history
    <2> QED
      BY <1>5, <2>1 DEF Inv, Unclaimed, Unborn, ClaimAccounted, handler, durable,
                        history
  <1>8. LateClaimsBounded'
    <2>1. /\ lateClaims' = lateClaims /\ pc' = pc
          /\ ~fatal => lateClaims = 0
          /\ fatal => PoisonDrains /\ fatal'
      BY <1>5 DEF Inv, LateClaimsBounded, handler, history
    <2> QED
      BY <2>1, PendingFinite DEF LateClaimsBounded, PoisonDrains, Pending
  <1>9. \A h \in Handlers : HandlerTrue(h)'
    BY <1>5 DEF Inv, HandlerTrue, WorkTrue, ReplyTrue, LoopTrue, ConclusionTrue,
                Unborn, Recorded, handler, durable, history
  <1> QED
    BY <1>6, <1>7, <1>8, <1>9 DEF Inv

-----------------------------------------------------------------------------
(* The invariant holds before the first request and after every step. *)
LEMMA InvInit == Init => Inv
  <1> SUFFICES ASSUME Init PROVE Inv
    OBVIOUS
  <1>1. \E w \in Workloads : attempts = w.submissions /\ faults = w.faults
    BY DEF Init
  <1>2. attempts \in [Records -> Nat] /\ faults \in Nat
    BY <1>1, OrchestratorConfiguration
  <1>3. ledger = [r \in Records |-> Ledger!Absent]
    BY DEF Init, Ledger!Init
  <1>4. TypeOK
    <2>1. /\ pc \in [Handlers -> PCs] /\ req \in [Handlers -> Records \cup {NoRecord}]
          /\ reply \in [Handlers -> FinalResponses \cup TransientResponses
                                        \cup {NoResponse}]
          /\ enforce \in [Handlers -> BOOLEAN]
      BY DEF Init, PCs
    <2>2. persisted \in [Handlers -> Seq(Dispositions)]
      BY DEF Init
    <2>3. ledger \in [Records -> Ledger!Entries]
      BY <1>3, LedgerFacts
    <2>4. /\ gen \in Nat \ {0} /\ owner \in [Records -> Nat]
          /\ executions \in [Records -> Nat] /\ lateClaims \in Nat
      BY DEF Init
    <2> QED
      BY <1>2, <2>1, <2>2, <2>3, <2>4 DEF Init, TypeOK
  <1>5. OutcomesDurable
    <2>1. \A r \in Records : /\ ledger[r].state # "completed"
                             /\ ledger[r].response \notin Failures
      BY <1>3, LedgerFacts, ResponseFacts
    <2> QED
      BY <2>1 DEF Init, OutcomesDurable, DeliveredDurable, FailureLeavesNothing,
                  DispositionsDurable, AuditTrail
  <1>6. Unclaimed /\ ClaimAccounted
    BY <1>3, LedgerFacts, OrchestratorConfiguration
       DEF Init, Unclaimed, Unborn, ClaimAccounted
  <1>7. LateClaimsBounded
    BY DEF Init, LateClaimsBounded, PoisonDrains
  <1>8. \A h \in Handlers : HandlerTrue(h)
    BY DEF Init, HandlerTrue, Processing, Entered, Fresh
  <1> QED
    BY <1>4, <1>5, <1>6, <1>7, <1>8 DEF Inv

(* A step of any handler keeps the invariant. *)
LEMMA HandlerStep == ASSUME Inv, NEW h \in Handlers, Serve(h) PROVE Inv'
  <1>1. TypeOK /\ OutcomesDurable /\ Unclaimed /\ ClaimAccounted
        /\ LateClaimsBounded /\ HandlerTrue(h)
    BY DEF Inv
  <1>2. TypeOK' /\ OutcomesDurable' /\ Unclaimed' /\ ClaimAccounted'
        /\ LateClaimsBounded'
    BY <1>1, HandlerType, OutcomesStep, UnclaimedStep, AccountedStep, DrainStep
  <1>3. HandlerTrue(h)'
    BY <1>1, OwnStep
  <1>4. ASSUME NEW k \in Handlers \ {h} PROVE HandlerTrue(k)'
    <2>1. HandlerTrue(k)
      BY DEF Inv
    <2> QED
      BY <1>1, <2>1, FrameStep, StoreStep, OthersKept
  <1> QED
    BY <1>2, <1>3, <1>4 DEF Inv

(* So does every step of the service. *)
LEMMA InvStep == Inv /\ [Next]_vars => Inv'
  <1> SUFFICES ASSUME Inv, [Next]_vars PROVE Inv'
    OBVIOUS
  <1>1. CASE UNCHANGED vars
    <2> USE <1>1 DEF Inv, vars, process, handler, durable, history
    <2>1. TypeOK'
      BY DEF TypeOK
    <2>2. OutcomesDurable' /\ Unclaimed' /\ ClaimAccounted'
      BY DEF OutcomesDurable, DeliveredDurable, DispositionsDurable,
             FailureLeavesNothing, AuditTrail, Unclaimed, Unborn, ClaimAccounted
    <2>3. LateClaimsBounded'
      BY DEF LateClaimsBounded, PoisonDrains
    <2>4. \A h \in Handlers : HandlerTrue(h)'
      BY DEF HandlerTrue, WorkTrue, ReplyTrue, LoopTrue, ConclusionTrue, Unborn,
             Recorded
    <2> QED
      BY <2>1, <2>2, <2>3, <2>4
  <1>2. CASE \E h \in Handlers : Serve(h)
    BY <1>2, HandlerStep
  <1>3. CASE \E a \in 1 .. gen - 1 : Recover(a) \/ RecoverFails(a)
    BY <1>3, RecoveryStep
  <1>4. CASE AuditRecovery \/ Crash
    BY <1>4, AuditRecoveryStep, CrashStep
  <1> QED
    BY <1>1, <1>2, <1>3, <1>4 DEF Next

(* What a handler knows at its stage and what the stores say hold in every  *)
(* state of the request path.                                               *)
THEOREM InvHolds == Spec => []Inv
  BY InvInit, InvStep, PTL DEF Spec

(* What process_one answered, what the alert table and the journal hold and *)
(* what the audit says agree for good, whichever store, clock, worker or    *)
(* process fails between them: a delivered result is the stored one, its    *)
(* dispositions are those of the rows, a failure left no alert, and every   *)
(* alert and every completion was audited first.                            *)
THEOREM OutcomesAreDurable == Spec => []OutcomesDurable
  <1>1. Inv => OutcomesDurable
    BY DEF Inv
  <1> QED
    BY <1>1, InvHolds, PTL

(* A row is processed by the one handler that holds the lease, in the       *)
(* generation that claimed it; an active row of the running generation has  *)
(* such a handler unless the generation is poisoned or the clock dropped    *)
(* it; and a poisoned generation claims at most what its handlers had       *)
(* already accepted.                                                        *)
THEOREM ClaimsAreAccounted == Spec => []ClaimsAccounted
  <1>1. Inv => ClaimsAccounted
    <2> SUFFICES ASSUME Inv PROVE ClaimsAccounted
      OBVIOUS
    <2>1. ExclusiveProcessing
      BY DEF Inv, ExclusiveProcessing, HandlerTrue, WorkTrue
    <2> QED
      BY <2>1 DEF Inv, ClaimsAccounted, LateClaimsBounded
  <1> QED
    BY <1>1, InvHolds, PTL

-----------------------------------------------------------------------------
(* The abstract service's variables, as the refinement mapping gives them. *)
Answer == [r \in Records |-> ledger[r].response]
Lost == {r \in Records : ledger[r] = Ledger!OutcomeUnknown}
Told == {d \in delivered : d[2] \in FinalResponses}
Effects == {<<creator[e], e>> : e \in {x \in Events : creator[x] # NoRecord}}

(* A row in progress is open in the abstract service. *)
LEMMA OpenWhileActive ==
    ASSUME NEW r \in Records, ledger[r] = Ledger!InProgress
    PROVE  Answer[r] = NoResponse /\ r \notin Lost
  BY LedgerFacts DEF Answer, Lost

(* Claiming a row is invisible to the abstract service. *)
LEMMA InvisibleSteps ==
    ASSUME TypeOK, UNCHANGED <<creator, executions, delivered>>,
           \A r \in Records : \/ ledger'[r] = ledger[r]
                              \/ /\ ledger[r] = Ledger!Absent
                                 /\ ledger'[r] = Ledger!InProgress
    PROVE  UNCHANGED AtMostOnce!vars
  <1>1. Answer' = Answer /\ Lost' = Lost
    BY LedgerFacts DEF Answer, Lost
  <1>2. Told' = Told /\ Effects' = Effects
    BY DEF Told, Effects
  <1> QED
    BY <1>1, <1>2 DEF AtMostOnce!vars, Answer, Lost, Told, Effects

(* A handler's step is a step of the abstract service, or none. *)
LEMMA AbstractHandlerStep ==
    ASSUME Inv, NEW h \in Handlers, Serve(h)
    PROVE  [AtMostOnce!Next]_(AtMostOnce!vars)
  <1>0. TypeOK /\ HandlerTrue(h)
    BY DEF Inv
  <1>1. ASSUME pc[h] \in Processing
        PROVE  /\ req[h] \in Records /\ WorkTrue(h)
               /\ ledger[req[h]] = Ledger!InProgress
    BY <1>0, <1>1 DEF HandlerTrue, Entered, WorkTrue
  <1>2. CASE UNCHANGED <<stores, delivered>>
    BY <1>0, <1>2, InvisibleSteps DEF stores
  <1>3. CASE Claims(h)
    BY <1>0, <1>3, InvisibleSteps DEF Claims, Ledger!Claim, TypeOK
  <1>4. CASE Start(h)
    <2>1. /\ req[h] \in Records /\ ledger[req[h]] = Ledger!InProgress
          /\ executions[req[h]] = 0
          /\ executions' = [executions EXCEPT ![req[h]] = @ + 1]
          /\ UNCHANGED <<ledger, creator, delivered>>
      BY <1>1, <1>4 DEF Start, Processing, WorkTrue, durable
    <2>2. executions' = [executions EXCEPT ![req[h]] = 1]
      BY <2>1
    <2>3. Answer[req[h]] = NoResponse /\ req[h] \notin Lost
      BY <2>1, OpenWhileActive
    <2>4. UNCHANGED <<Answer, Lost, Told, Effects>>
      BY <2>1 DEF Answer, Lost, Told, Effects
    <2>5. ASSUME NEW r \in Records, r = req[h] PROVE AtMostOnce!Next
      <3>1. AtMostOnce!Run(r)
        BY <2>1, <2>2, <2>3, <2>4, <2>5
           DEF AtMostOnce!Run, AtMostOnce!Open, Answer, Lost, Told, Effects
      <3> QED
        BY <3>1 DEF AtMostOnce!Next
    <2> QED
      BY <2>1, <2>5
  <1>5. CASE Creates(h)
    <2> DEFINE e == CurrentEvent(h)
    <2>1. /\ req[h] \in Records /\ req[h] # NoRecord
          /\ ledger[req[h]] = Ledger!InProgress
          /\ executions[req[h]] = 1
          /\ UNCHANGED <<ledger, executions, delivered>>
      BY <1>1, <1>5, OrchestratorConfiguration
         DEF Creates, Processing, WorkTrue
    <2>2. e \in Events
      BY <1>0, <1>5, <2>1, CurrentEventFacts DEF Creates, TypeOK
    <2>3. /\ creator[e] = NoRecord /\ creator'[e] = req[h]
          /\ \A x \in Events : x # e => creator'[x] = creator[x]
      BY <1>0, <1>5, <2>2 DEF Creates, TypeOK
    <2> HIDE DEF e
    <2>4. Effects' = Effects \cup {<<req[h], e>>}
      BY <2>1, <2>2, <2>3 DEF Effects
    <2>5. \A x \in Effects : x[2] # e
      BY <2>3 DEF Effects
    <2>6. Answer[req[h]] = NoResponse /\ req[h] \notin Lost
      BY <2>1, OpenWhileActive
    <2>7. UNCHANGED <<Answer, Lost, Told>>
      BY <2>1 DEF Answer, Lost, Told
    <2>8. ASSUME NEW r \in Records, r = req[h], NEW x \in Events, x = e
          PROVE  AtMostOnce!Next
      <3>1. AtMostOnce!Effect(r, x)
        BY <2>1, <2>4, <2>5, <2>6, <2>7, <2>8
           DEF AtMostOnce!Effect, AtMostOnce!Open, Answer, Lost, Told, Effects
      <3> QED
        BY <3>1 DEF AtMostOnce!Next
    <2> QED
      BY <2>1, <2>2, <2>8
  <1>6. CASE Settles(h)
    <2>1. /\ req[h] \in Records /\ ledger[req[h]] = Ledger!InProgress
          /\ executions[req[h]] = 1 /\ ConclusionTrue(req[h], reply[h])
          /\ UNCHANGED <<creator, executions, delivered>>
      BY <1>1, <1>6 DEF Settles, Processing, WorkTrue, Concluding
    <2>2. /\ ledger'[req[h]] = Ledger!Completed(reply[h])
          /\ \A r \in Records : r # req[h] => ledger'[r] = ledger[r]
          /\ reply[h] \in FinalResponses
      BY <1>0, <1>6, <2>1 DEF Settles, Ledger!Complete, TypeOK, ConclusionTrue
    <2>3. /\ Answer'[req[h]] = reply[h]
          /\ Answer' = [Answer EXCEPT ![req[h]] = Answer'[req[h]]]
      BY <2>1, <2>2, LedgerFacts DEF Answer
    <2>4. Lost' = Lost
      <3>1. Ledger!Completed(reply[h]) # Ledger!OutcomeUnknown
        BY DEF Ledger!Completed, Ledger!OutcomeUnknown
      <3> QED
        BY <2>1, <2>2, <3>1, LedgerFacts DEF Lost
    <2>5. UNCHANGED <<Told, Effects>>
      BY <2>1 DEF Told, Effects
    <2>6. reply[h] \in Failures => \A x \in Effects : x[1] # req[h]
      BY <2>1 DEF ConclusionTrue, Unborn, Effects
    <2>7. Answer[req[h]] = NoResponse /\ req[h] \notin Lost
      BY <2>1, OpenWhileActive
    <2>8. ASSUME NEW r \in Records, r = req[h] PROVE AtMostOnce!Next
      <3>1. AtMostOnce!Answer(r)
        BY <2>1, <2>2, <2>3, <2>4, <2>5, <2>6, <2>7, <2>8
           DEF AtMostOnce!Answer, AtMostOnce!Open, Answer, Lost, Told, Effects
      <3> QED
        BY <3>1 DEF AtMostOnce!Next
    <2> QED
      BY <2>1, <2>8
  <1>7. CASE Tells(h)
    <2>1. /\ req[h] \in Records /\ ReplyTrue(req[h], reply[h])
          /\ delivered' = delivered \cup {<<req[h], reply[h]>>}
          /\ UNCHANGED <<ledger, creator, executions>>
      BY <1>0, <1>7 DEF Tells, HandlerTrue, Entered, stores
    <2>2. UNCHANGED <<Answer, Lost, Effects>>
      BY <2>1 DEF Answer, Lost, Effects
    <2>3. CASE reply[h] \in FinalResponses
      <3>1. Answer[req[h]] = reply[h] /\ Answer[req[h]] # NoResponse
        BY <2>1, <2>3, LedgerFacts, ResponseFacts DEF ReplyTrue, Answer
      <3>2. Told' = Told \cup {<<req[h], Answer[req[h]]>>}
        BY <2>1, <2>3, <3>1 DEF Told
      <3>3. ASSUME NEW r \in Records, r = req[h] PROVE AtMostOnce!Next
        <4>1. AtMostOnce!Tell(r)
          BY <2>1, <2>2, <3>1, <3>2, <3>3
             DEF AtMostOnce!Tell, Answer, Lost, Told, Effects
        <4> QED
          BY <4>1 DEF AtMostOnce!Next
      <3> QED
        BY <2>1, <3>3
    <2>4. CASE reply[h] \notin FinalResponses
      <3>1. Told' = Told
        BY <2>1, <2>4 DEF Told
      <3> QED
        BY <2>1, <2>2, <3>1 DEF AtMostOnce!vars, Answer, Lost, Told, Effects
    <2> QED
      BY <2>3, <2>4
  <1> QED
    BY <1>2, <1>3, <1>4, <1>5, <1>6, <1>7, StepKinds

(* So is the recovery of a row of an earlier generation. *)
LEMMA AbstractRecoveryStep ==
    ASSUME Inv, NEW a \in 1 .. gen - 1, Recover(a) \/ RecoverFails(a)
    PROVE  [AtMostOnce!Next]_(AtMostOnce!vars)
  <1>1. /\ UNCHANGED <<creator, executions, delivered>>
        /\ ledger' = ledger \/ Ledger!Abandon(ActiveClaimsOf(a))
    BY DEF Recover, RecoverFails, history
  <1>2. CASE ledger' = ledger
    BY <1>1, <1>2, InvisibleSteps DEF Inv
  <1>3. CASE Ledger!Abandon(ActiveClaimsOf(a))
    <2> DEFINE R == ActiveClaimsOf(a)
    <2>1. /\ R \in SUBSET Records
          /\ \A r \in R : ledger[r] = Ledger!InProgress
          /\ \A r \in Records : ledger'[r] = IF r \in R THEN Ledger!OutcomeUnknown
                                             ELSE ledger[r]
      BY <1>3 DEF Ledger!Abandon, ActiveClaimsOf
    <2> HIDE DEF R
    <2>2. \A r \in R : Answer[r] = NoResponse /\ r \notin Lost
      BY <2>1, OpenWhileActive
    <2>3. Lost' = Lost \cup R /\ Answer' = Answer
      BY <2>1, LedgerFacts DEF Lost, Answer
    <2>4. UNCHANGED <<Told, Effects>>
      BY <1>1 DEF Told, Effects
    <2>5. ASSUME NEW S \in SUBSET Records, S = R PROVE AtMostOnce!Next
      <3>1. AtMostOnce!GiveUp(S)
        BY <1>1, <2>2, <2>3, <2>4, <2>5
           DEF AtMostOnce!GiveUp, AtMostOnce!Open, Answer, Lost, Told, Effects
      <3> QED
        BY <3>1 DEF AtMostOnce!Next
    <2> QED
      BY <2>1, <2>5
  <1> QED
    BY <1>1, <1>2, <1>3

(* Whatever fails, crashes, retries or overlaps, the request path is a      *)
(* service that executes a request at most once, gives it one durable       *)
(* answer, tells a producer only that answer and leaves alerts only while   *)
(* the request is open, none when the answer is a failure.                  *)
THEOREM ServiceIsRefined == Spec => ServiceRefinement
  <1>1. Init => AtMostOnce!Init
    <2> SUFFICES ASSUME Init PROVE AtMostOnce!Init
      OBVIOUS
    <2>1. ledger = [r \in Records |-> Ledger!Absent]
      BY DEF Init, Ledger!Init
    <2>2. Answer = [r \in Records |-> NoResponse] /\ Lost = {}
      BY <2>1, LedgerFacts DEF Answer, Lost
    <2>3. Told = {} /\ Effects = {}
      BY DEF Init, Told, Effects
    <2> QED
      BY <2>2, <2>3 DEF Init, AtMostOnce!Init, Answer, Lost, Told, Effects
  <1>2. Inv /\ [Next]_vars => [AtMostOnce!Next]_(AtMostOnce!vars)
    <2> SUFFICES ASSUME Inv, [Next]_vars
                 PROVE  [AtMostOnce!Next]_(AtMostOnce!vars)
      OBVIOUS
    <2>1. CASE UNCHANGED vars \/ AuditRecovery \/ Crash
      BY <2>1, InvisibleSteps
         DEF Inv, vars, durable, history, AuditRecovery, Crash
    <2>2. CASE \E h \in Handlers : Serve(h)
      BY <2>2, AbstractHandlerStep
    <2>3. CASE \E a \in 1 .. gen - 1 : Recover(a) \/ RecoverFails(a)
      BY <2>3, AbstractRecoveryStep
    <2> QED
      BY <2>1, <2>2, <2>3 DEF Next
  <1> QED
    BY <1>1, <1>2, InvHolds, PTL DEF Spec, ServiceRefinement, AtMostOnce!Spec
=============================================================================
