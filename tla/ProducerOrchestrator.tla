------------------------ MODULE ProducerOrchestrator ------------------------
(***************************************************************************)
(* The request path of api/producer_orchestrator.py as the handler threads *)
(* of api/producer_service.py run it: gate, durable replay claim, durable  *)
(* audit, inference, alert persistence, durable completion, response and   *)
(* lease release, with the fatal flag that poisons a service generation,   *)
(* process crashes and the explicit recovery of an abandoned generation.   *)
(*                                                                         *)
(* The gate and the journal are used through what they promise             *)
(* (ExecutionSlot and ReplayLedger), which ProducerExecutionGates and      *)
(* ProducerReplayJournal implement.  Every call on a store is a step of    *)
(* its own; a failing call may have taken effect where the code must       *)
(* assume so.  Records stands for validated admission records: a retry     *)
(* submits the same record, Clashes relates records that share a request   *)
(* id or a nonce and nothing else.                                         *)
(***************************************************************************)
EXTENDS Integers, Sequences, FiniteSets

CONSTANTS
    Handlers, NoHandler,   \* the service's handler threads
    Records, NoRecord,     \* validated requests
    Events,                \* registered rows; an event identifies its alert
    Batch,                 \* the events of each request, in order
    Verdict,               \* the frozen model's deterministic result per event
    Clashes,               \* pairs of requests that reuse an id or a nonce
    NoResponse,            \* no response stored or pending
    MaxGenerations,        \* bound: service processes, crashed ones included
    Workloads              \* bound: how often each request is submitted, and how
                           \* many failures of stores, clocks, worker, peer there are

Verdicts == {"Attack", "Normal", "rejected"}

(* ProducerRecordDisposition, without indexes and scores. *)
Dispositions == {"created", "existing", "not_actionable", "rejected"}

RejectedBatch(r) == [i \in 1 .. Len(Batch[r]) |-> "rejected"]

(* ProducerResponse, without the correlation id. *)
Response(reason) == [reason |-> reason, records |-> <<>>]
ResultOf(dispositions) ==
    [reason |-> "request_completed", records |-> dispositions]

FailureReasons == {"processing_timeout", "internal_error"}
Failures == {Response(reason) : reason \in FailureReasons}
FinalResponses ==
    Failures \cup [reason : {"request_completed"}, records : Seq(Dispositions)]
(* What a producer may treat as the end of its request. *)
LastingResponses == FinalResponses \cup {Response("outcome_unknown")}
TransientReasons == {"rate_limited", "server_busy", "request_in_progress",
                     "outcome_unknown", "request_replay_rejected",
                     "audit_unavailable"}
TransientResponses == {Response(reason) : reason \in TransientReasons}

ASSUME OrchestratorConfiguration ==
    /\ IsFiniteSet(Handlers) /\ NoHandler \notin Handlers
    /\ NoRecord \notin Records
    /\ NoResponse \notin FinalResponses \cup TransientResponses
    /\ Batch \in [Records -> Seq(Events)]
    \* admission refuses a batch that names an event twice
    /\ \A r \in Records : \A i, j \in 1 .. Len(Batch[r]) :
           Batch[r][i] = Batch[r][j] => i = j
    /\ Verdict \in [Events -> Verdicts]
    /\ Clashes \subseteq Records \X Records
    /\ MaxGenerations \in Nat \ {0}
    /\ Workloads \subseteq [submissions : [Records -> Nat], faults : Nat]

VARIABLES
    \* process state, lost in a crash
    fatal,       \* the orchestrator's _fatal
    listening,   \* the listener is open, until _mark_failed closes it
    holder,      \* the handler that holds the execution lease
    pc,          \* where in process_one a handler is
    req,         \* the request a handler works on
    reply,       \* the response a handler is about to store or write
    enforce,     \* enforce_budget of _complete_and_write
    persisted,   \* dispositions of the records persisted so far
    recovering,  \* a recovery waits for its audit event
    \* durable state
    gen,         \* number of this service generation
    ledger,      \* the replay journal
    owner,       \* the generation that claimed a row, 0 for none
    creator,     \* the request whose insert created an event's alert row
    audited,     \* audit events that name a request
    \* history
    executions,  \* inference runs of a request
    delivered,   \* lasting responses that reached the producer
    orphans,     \* claims dropped because the clock failed after admission
    lateClaims,  \* claims made in a poisoned generation
    \* bounds
    attempts, faults

process == <<fatal, listening, holder, recovering>>
handler == <<pc, req, reply, enforce, persisted>>
durable == <<gen, ledger, owner, creator, audited>>
history == <<executions, delivered, orphans, lateClaims>>
vars == <<process, handler, durable, history, attempts, faults>>

Slot == INSTANCE ExecutionSlot
Ledger == INSTANCE ReplayLedger
          WITH Requests <- Records, Responses <- FinalResponses

(* The stages between a successful claim and the end of the completion.    *)
Processing == {"admit", "start", "infer", "build", "persist", "fail",
               "finish", "complete"}
PCs == Processing \cup {"idle", "accept", "gate", "claim", "reply", "write",
                        "release", "stopped"}
AuditReasons == {"request_admitted", "request_completed"} \cup FailureReasons

TypeOK ==
    /\ fatal \in BOOLEAN /\ listening \in BOOLEAN /\ recovering \in BOOLEAN
    /\ holder \in Handlers \cup {NoHandler}
    /\ pc \in [Handlers -> PCs]
    /\ req \in [Handlers -> Records \cup {NoRecord}]
    /\ reply \in [Handlers ->
                    FinalResponses \cup TransientResponses \cup {NoResponse}]
    /\ enforce \in [Handlers -> BOOLEAN]
    /\ persisted \in [Handlers -> Seq(Dispositions)]
    /\ gen \in Nat \ {0}
    /\ ledger \in [Records -> Ledger!Entries]
    /\ owner \in [Records -> Nat]
    /\ creator \in [Events -> Records \cup {NoRecord}]
    /\ audited \subseteq AuditReasons \X Records
    /\ executions \in [Records -> Nat]
    /\ delivered \subseteq Records \X LastingResponses
    /\ orphans \subseteq Records
    /\ lateClaims \in Nat /\ attempts \in [Records -> Nat] /\ faults \in Nat

Init ==
    /\ fatal = FALSE /\ listening = TRUE /\ recovering = FALSE
    /\ holder = NoHandler
    /\ pc = [h \in Handlers |-> "idle"]
    /\ req = [h \in Handlers |-> NoRecord]
    /\ reply = [h \in Handlers |-> NoResponse]
    /\ enforce = [h \in Handlers |-> TRUE]
    /\ persisted = [h \in Handlers |-> <<>>]
    /\ gen = 1
    /\ Ledger!Init
    /\ owner = [r \in Records |-> 0]
    /\ creator = [e \in Events |-> NoRecord]
    /\ audited = {}
    /\ executions = [r \in Records |-> 0]
    /\ delivered = {} /\ orphans = {} /\ lateClaims = 0
    /\ \E w \in Workloads : attempts = w.submissions /\ faults = w.faults

-----------------------------------------------------------------------------
Goto(h, stage) == pc' = [pc EXCEPT ![h] = stage]

(* One call of a store, a clock, the worker or the peer fails. *)
Fault == faults > 0 /\ faults' = faults - 1

(* ProducerSecurityAuditRepository.append: one row in one transaction. *)
Audited(reason, r) == audited' = audited \cup {<<reason, r>>}

(* A failed audit append may still be durable. *)
MaybeAudited(reason, r) == audited' \in {audited, audited \cup {<<reason, r>>}}

(* _raise_ambiguous: poison the generation, try one audit, leave. *)
RaiseAmbiguous(h, reason) ==
    /\ fatal' = TRUE
    /\ MaybeAudited(reason, req[h])
    /\ Goto(h, "release")

-----------------------------------------------------------------------------
(* Mutant: process_one does not look at the fatal flag. *)
BeginUnchecked(h) ==
    /\ pc[h] = "idle"
    /\ listening
    /\ Goto(h, "accept")
    /\ UNCHANGED <<process, req, reply, enforce, persisted, durable, history,
                   attempts, faults>>

(* process_one refuses a poisoned generation, else waits for a connection. *)
Begin(h) ==
    /\ pc[h] = "idle"
    /\ ~fatal /\ listening
    /\ Goto(h, "accept")
    /\ UNCHANGED <<process, req, reply, enforce, persisted, durable, history,
                   attempts, faults>>

(* No connection in time, a closed listener or a failed authentication.    *)
NoSession(h) ==
    /\ pc[h] = "accept"
    /\ Goto(h, "idle")
    /\ UNCHANGED <<process, req, reply, enforce, persisted, durable, history,
                   attempts, faults>>

(* A head, body or admission error ends the session after its audit event; *)
(* only a body error whose audit fails poisons the generation.             *)
RequestRejected(h) ==
    /\ pc[h] = "accept" /\ listening
    /\ Goto(h, "idle")
    /\ \/ UNCHANGED <<fatal, faults>>
       \/ Fault /\ fatal' = TRUE
    /\ UNCHANGED <<listening, holder, recovering, req, reply, enforce,
                   persisted, durable, history, attempts>>

(* accept_authenticated, the bounded reads and admission succeed. *)
Admit(h, r) ==
    /\ pc[h] = "accept" /\ listening
    /\ attempts[r] > 0
    /\ attempts' = [attempts EXCEPT ![r] = @ - 1]
    /\ req' = [req EXCEPT ![h] = r]
    /\ Goto(h, "gate")
    /\ UNCHANGED <<process, reply, enforce, persisted, durable, history, faults>>

-----------------------------------------------------------------------------
(* Answer without touching a store: audit the reason, then write it. *)
Refuse(h, response) ==
    /\ reply' = [reply EXCEPT ![h] = response]
    /\ Goto(h, "reply")
    /\ UNCHANGED <<process, req, enforce, persisted, durable, history,
                   attempts, faults>>

GateRateLimited(h) == pc[h] = "gate" /\ Refuse(h, Response("rate_limited"))

GateBusy(h) ==
    /\ pc[h] = "gate"
    /\ holder # NoHandler
    /\ Refuse(h, Response("server_busy"))

(* The gate's clock fails: audited and dropped without a response, or      *)
(* audit_unavailable when the audit fails too.                             *)
GateClockInvalid(h) ==
    /\ pc[h] = "gate"
    /\ Fault
    /\ \/ Goto(h, "release") /\ UNCHANGED reply
       \/ /\ Goto(h, "write")
          /\ reply' = [reply EXCEPT ![h] = Response("audit_unavailable")]
    /\ UNCHANGED <<process, req, enforce, persisted, durable, history, attempts>>

Acquire(h) ==
    /\ pc[h] = "gate"
    /\ Slot!Grant(h)
    /\ Goto(h, "claim")
    /\ UNCHANGED <<fatal, listening, recovering, req, reply, enforce, persisted,
                   durable, history, attempts, faults>>

-----------------------------------------------------------------------------
(* The journal holds a row with this request's id or nonce but other       *)
(* evidence.                                                               *)
Clashing(r) ==
    \E s \in Records : <<r, s>> \in Clashes /\ ledger[s] # Ledger!Absent

ClaimClockFails(h) ==
    /\ pc[h] = "claim"
    /\ Fault
    /\ Goto(h, "release")
    /\ UNCHANGED <<process, req, reply, enforce, persisted, durable, history,
                   attempts>>

ClaimNew(h) ==
    /\ pc[h] = "claim"
    /\ ~Clashing(req[h])
    /\ Ledger!Claim(req[h])
    /\ owner' = [owner EXCEPT ![req[h]] = gen]
    /\ lateClaims' = IF fatal THEN lateClaims + 1 ELSE lateClaims
    /\ Goto(h, "admit")
    /\ UNCHANGED <<process, req, reply, enforce, persisted, gen, creator,
                   audited, executions, delivered, orphans, attempts, faults>>

(* Another journal error: the claim may be durable, so the generation is    *)
(* poisoned.                                                                *)
ClaimAmbiguous(h) ==
    /\ pc[h] = "claim"
    /\ Fault
    /\ \/ UNCHANGED <<ledger, owner>>
       \/ /\ ~Clashing(req[h])
          /\ Ledger!Claim(req[h])
          /\ owner' = [owner EXCEPT ![req[h]] = gen]
    /\ RaiseAmbiguous(h, "internal_error")
    /\ UNCHANGED <<listening, holder, recovering, req, reply, enforce,
                   persisted, gen, creator, history, attempts>>

ClaimRejected(h) ==
    /\ pc[h] = "claim"
    /\ Clashing(req[h])
    /\ Refuse(h, Response("request_replay_rejected"))

ClaimActive(h) ==
    /\ pc[h] = "claim"
    /\ ~Clashing(req[h])
    /\ ledger[req[h]] = Ledger!InProgress
    /\ Refuse(h, Response("request_in_progress"))

ClaimUnknown(h) ==
    /\ pc[h] = "claim"
    /\ ~Clashing(req[h])
    /\ ledger[req[h]] = Ledger!OutcomeUnknown
    /\ Refuse(h, Response("outcome_unknown"))

(* An exact retry gets the stored response. *)
ClaimCompleted(h) ==
    /\ pc[h] = "claim"
    /\ ~Clashing(req[h])
    /\ ledger[req[h]].state = "completed"
    /\ Refuse(h, ledger[req[h]].response)

(* _audit_or_unavailable without poison, before the response is written. *)
AuditReply(h) ==
    /\ pc[h] = "reply"
    /\ Goto(h, "write")
    /\ \/ UNCHANGED <<reply, faults>>
       \/ /\ Fault
          /\ reply' = [reply EXCEPT ![h] = Response("audit_unavailable")]
    /\ UNCHANGED <<process, req, enforce, persisted, durable, history, attempts>>

-----------------------------------------------------------------------------
(* _audit_or_unavailable with poison. *)
AuditFails(h, reason) ==
    /\ Fault
    /\ MaybeAudited(reason, req[h])
    /\ fatal' = TRUE
    /\ reply' = [reply EXCEPT ![h] = Response("audit_unavailable")]
    /\ Goto(h, "write")

AuditAdmitted(h) ==
    /\ pc[h] = "admit"
    /\ \/ /\ Audited("request_admitted", req[h])
          /\ Goto(h, "start")
          /\ UNCHANGED <<fatal, reply, faults>>
       \/ AuditFails(h, "request_admitted")
    /\ UNCHANGED <<listening, holder, recovering, req, enforce, persisted, gen,
                   ledger, owner, creator, history, attempts>>

(* processing_started is read outside the try: a clock failure here leaves  *)
(* the claim active without poisoning the generation.                       *)
StartClockFails(h) ==
    /\ pc[h] = "start"
    /\ Fault
    /\ orphans' = orphans \cup {req[h]}
    /\ Goto(h, "release")
    /\ UNCHANGED <<process, req, reply, enforce, persisted, durable, executions,
                   delivered, lateClaims, attempts>>

Start(h) ==
    /\ pc[h] = "start"
    /\ executions' = [executions EXCEPT ![req[h]] = @ + 1]
    /\ Goto(h, "infer")
    /\ UNCHANGED <<process, req, reply, enforce, persisted, durable, delivered,
                   orphans, lateClaims, attempts, faults>>

(* The worker returned every result in time. *)
Inferred(h) ==
    /\ pc[h] = "infer"
    /\ Goto(h, "build")
    /\ UNCHANGED <<process, req, reply, enforce, persisted, durable, history,
                   attempts, faults>>

(* Settle the claim with a response, after the failure audit for a failure. *)
Conclude(h, response, budget) ==
    /\ reply' = [reply EXCEPT ![h] = response]
    /\ enforce' = [enforce EXCEPT ![h] = budget]
    /\ Goto(h, IF response \in Failures THEN "fail" ELSE "finish")
    /\ UNCHANGED <<process, req, persisted, durable, history, attempts>>

(* NetworkInferenceError: the whole batch is rejected, nothing persisted. *)
InferenceRejected(h) ==
    /\ pc[h] = "infer"
    /\ Fault
    /\ Conclude(h, ResultOf(RejectedBatch(req[h])), TRUE)

(* Mutant: a timed out inference is retried. *)
InferenceTimeoutRetries(h) ==
    /\ pc[h] = "infer"
    /\ Fault
    /\ Goto(h, "start")
    /\ UNCHANGED <<process, req, reply, enforce, persisted, durable, history,
                   attempts>>

(* The worker or the request exceeds its time. *)
InferenceTimeout(h) ==
    /\ pc[h] = "infer"
    /\ Fault
    /\ Conclude(h, Response("processing_timeout"), FALSE)

(* The worker fails otherwise. *)
InferenceFails(h) ==
    /\ pc[h] = "infer"
    /\ Fault
    /\ Conclude(h, Response("internal_error"), TRUE)

(* Mutant: the failure only ends the request. *)
InferenceInvalidSilent(h) ==
    /\ pc[h] = "infer"
    /\ Fault
    /\ Goto(h, "release")
    /\ UNCHANGED <<process, req, reply, enforce, persisted, durable, history,
                   attempts>>

(* A clock failure or a malformed result poisons without any audit. *)
InferenceInvalid(h) ==
    /\ pc[h] = "infer"
    /\ Fault
    /\ fatal' = TRUE
    /\ Goto(h, "release")
    /\ UNCHANGED <<listening, holder, recovering, req, reply, enforce,
                   persisted, durable, history, attempts>>

(* build_alert_candidate for every Attack. *)
BuildCandidates(h) ==
    /\ pc[h] = "build"
    /\ Goto(h, "persist")
    /\ UNCHANGED <<process, req, reply, enforce, persisted, durable, history,
                   attempts, faults>>

BuildFails(h) ==
    /\ pc[h] = "build"
    /\ Fault
    /\ Conclude(h, Response("internal_error"), TRUE)

-----------------------------------------------------------------------------
(* The record the persistence loop is at. *)
Remaining(h) == Len(persisted[h]) < Len(Batch[req[h]])
CurrentEvent(h) == Batch[req[h]][Len(persisted[h]) + 1]

(* Any other exception of the inference, the candidate construction or the  *)
(* response finalization.                                                   *)
OutcomeAmbiguous(h) ==
    /\ \/ pc[h] \in {"infer", "build"}
       \/ pc[h] = "persist" /\ ~Remaining(h)
    /\ Fault
    /\ RaiseAmbiguous(h, "internal_error")
    /\ UNCHANGED <<listening, holder, recovering, req, reply, enforce,
                   persisted, gen, ledger, owner, creator, history, attempts>>

(* durable_alert_results # 0. *)
SomeDurable(h) ==
    \E i \in 1 .. Len(persisted[h]) : persisted[h][i] \in {"created", "existing"}

Dispose(h, disposition) ==
    persisted' = [persisted EXCEPT ![h] = Append(@, disposition)]

(* A record without a candidate. *)
SkipRecord(h) ==
    /\ pc[h] = "persist" /\ Remaining(h)
    /\ Verdict[CurrentEvent(h)] # "Attack"
    /\ Dispose(h, IF Verdict[CurrentEvent(h)] = "Normal"
                  THEN "not_actionable" ELSE "rejected")
    /\ UNCHANGED <<process, pc, req, reply, enforce, durable, history,
                   attempts, faults>>

(* AlertCandidateRepository.insert: the first insert creates the row. *)
InsertAlert(h) ==
    /\ pc[h] = "persist" /\ Remaining(h)
    /\ Verdict[CurrentEvent(h)] = "Attack"
    /\ \/ /\ creator[CurrentEvent(h)] = NoRecord
          /\ creator' = [creator EXCEPT ![CurrentEvent(h)] = req[h]]
          /\ Dispose(h, "created")
       \/ /\ creator[CurrentEvent(h)] # NoRecord
          /\ Dispose(h, "existing")
          /\ UNCHANGED creator
    /\ UNCHANGED <<process, pc, req, reply, enforce, gen, ledger, owner,
                   audited, history, attempts, faults>>

(* insert fails before its commit with a code that proves no row was        *)
(* written: a failure response if nothing was persisted before, else the    *)
(* outcome is ambiguous.                                                    *)
InsertRefused(h) ==
    /\ pc[h] = "persist" /\ Remaining(h)
    /\ Verdict[CurrentEvent(h)] = "Attack"
    /\ Fault
    /\ \/ /\ ~SomeDurable(h)
          /\ Conclude(h, Response("internal_error"), TRUE)
       \/ /\ SomeDurable(h)
          /\ RaiseAmbiguous(h, "internal_error")
          /\ UNCHANGED <<listening, holder, recovering, req, reply, enforce,
                         persisted, gen, ledger, owner, creator, history,
                         attempts>>

(* insert fails in an unknown way, or the processing budget is exceeded     *)
(* right before or right after it.                                          *)
InsertAmbiguous(h) ==
    /\ pc[h] = "persist" /\ Remaining(h)
    /\ Verdict[CurrentEvent(h)] = "Attack"
    /\ Fault
    /\ \/ UNCHANGED creator
       \/ /\ creator[CurrentEvent(h)] = NoRecord
          /\ creator' = [creator EXCEPT ![CurrentEvent(h)] = req[h]]
    /\ RaiseAmbiguous(h, "internal_error")
    /\ UNCHANGED <<listening, holder, recovering, req, reply, enforce,
                   persisted, gen, ledger, owner, history, attempts>>

(* Every record has its disposition. *)
Finalize(h) ==
    /\ pc[h] = "persist" /\ ~Remaining(h)
    /\ Conclude(h, ResultOf(persisted[h]), TRUE)
    /\ UNCHANGED faults

-----------------------------------------------------------------------------
(* The failure audit of _complete_failure_and_write. *)
AuditFailure(h) ==
    /\ pc[h] = "fail"
    /\ \/ /\ Audited(reply[h].reason, req[h])
          /\ Goto(h, "finish")
          /\ UNCHANGED <<fatal, reply, faults>>
       \/ AuditFails(h, reply[h].reason)
    /\ UNCHANGED <<listening, holder, recovering, req, enforce, persisted, gen,
                   ledger, owner, creator, history, attempts>>

(* Mutant: a failing completion audit does not stop the completion. *)
AuditCompletedBestEffort(h) ==
    /\ pc[h] = "finish"
    /\ Goto(h, "complete")
    /\ \/ /\ Audited("request_completed", req[h])
          /\ UNCHANGED faults
       \/ Fault /\ UNCHANGED audited
    /\ UNCHANGED <<process, req, reply, enforce, persisted, gen, ledger, owner,
                   creator, history, attempts>>

(* The completion audit of _complete_and_write. *)
AuditCompleted(h) ==
    /\ pc[h] = "finish"
    /\ \/ /\ Audited("request_completed", req[h])
          /\ Goto(h, "complete")
          /\ UNCHANGED <<fatal, reply, faults>>
       \/ AuditFails(h, "request_completed")
    /\ UNCHANGED <<listening, holder, recovering, req, enforce, persisted, gen,
                   ledger, owner, creator, history, attempts>>

(* The budget is checked only if enforce_budget, and only after the audit.  *)
BudgetExceeded(h) ==
    /\ pc[h] = "complete" /\ enforce[h]
    /\ Fault
    /\ \E reason \in FailureReasons : RaiseAmbiguous(h, reason)
    /\ UNCHANGED <<listening, holder, recovering, req, reply, enforce,
                   persisted, gen, ledger, owner, creator, history, attempts>>

Complete(h) ==
    /\ pc[h] = "complete"
    /\ Ledger!Complete(req[h], reply[h])
    /\ Goto(h, "write")
    /\ UNCHANGED <<process, req, reply, enforce, persisted, gen, owner, creator,
                   audited, history, attempts, faults>>

(* complete() fails: the response may or may not be stored, so none is sent *)
(* and the generation is poisoned.                                          *)
CompleteAmbiguous(h) ==
    /\ pc[h] = "complete"
    /\ Fault
    /\ UNCHANGED ledger \/ Ledger!Complete(req[h], reply[h])
    /\ RaiseAmbiguous(h, "internal_error")
    /\ UNCHANGED <<listening, holder, recovering, req, reply, enforce,
                   persisted, gen, owner, creator, history, attempts>>

(* write_response: the producer gets the response, or the write fails. *)
Write(h) ==
    /\ pc[h] = "write"
    /\ Goto(h, "release")
    /\ \/ /\ delivered' = IF reply[h] \in LastingResponses
                          THEN delivered \cup {<<req[h], reply[h]>>}
                          ELSE delivered
          /\ UNCHANGED faults
       \/ Fault /\ UNCHANGED delivered
    /\ UNCHANGED <<process, req, reply, enforce, persisted, durable, executions,
                   orphans, lateClaims, attempts>>

(* The finally block: give the lease back if there is one, close. *)
Release(h) ==
    /\ pc[h] = "release"
    /\ IF holder = h THEN Slot!Free(h) ELSE UNCHANGED holder
    /\ Goto(h, "idle")
    /\ req' = [req EXCEPT ![h] = NoRecord]
    /\ reply' = [reply EXCEPT ![h] = NoResponse]
    /\ enforce' = [enforce EXCEPT ![h] = TRUE]
    /\ persisted' = [persisted EXCEPT ![h] = <<>>]
    /\ UNCHANGED <<fatal, listening, recovering, durable, history, attempts,
                   faults>>

(* _serve sees the fatal flag: _mark_failed closes the listener for good. *)
MarkFailed(h) ==
    /\ pc[h] = "idle" /\ fatal
    /\ listening' = FALSE
    /\ Goto(h, "stopped")
    /\ UNCHANGED <<fatal, holder, recovering, req, reply, enforce, persisted,
                   durable, history, attempts, faults>>

-----------------------------------------------------------------------------
ActiveClaimsOf(a) ==
    {r \in Records : ledger[r] = Ledger!InProgress /\ owner[r] = a}

(* recover_abandoned_generation for a generation that has stopped. *)
Recover(a) ==
    /\ ~fatal /\ ~recovering
    /\ Ledger!Abandon(ActiveClaimsOf(a))
    /\ recovering' = TRUE
    /\ UNCHANGED <<fatal, listening, holder, handler, gen, owner, creator,
                   audited, history, attempts, faults>>

(* Its journal call fails, maybe after the commit; if the audit of that     *)
(* fails too, or the clock did, the generation is poisoned.                 *)
RecoverFails(a) ==
    /\ ~fatal /\ ~recovering
    /\ Fault
    /\ UNCHANGED ledger \/ Ledger!Abandon(ActiveClaimsOf(a))
    /\ fatal' \in BOOLEAN
    /\ UNCHANGED <<listening, holder, recovering, handler, gen, owner, creator,
                   audited, history, attempts>>

AuditRecovery ==
    /\ recovering
    /\ recovering' = FALSE
    /\ \/ UNCHANGED <<fatal, faults>>
       \/ Fault /\ fatal' = TRUE
    /\ UNCHANGED <<listening, holder, handler, durable, history, attempts>>

(* The process ends at any point and the service manager starts another,    *)
(* under a new generation id.                                               *)
Crash ==
    /\ gen < MaxGenerations
    /\ gen' = gen + 1
    /\ fatal' = FALSE /\ listening' = TRUE /\ recovering' = FALSE
    /\ holder' = NoHandler
    /\ pc' = [h \in Handlers |-> "idle"]
    /\ req' = [h \in Handlers |-> NoRecord]
    /\ reply' = [h \in Handlers |-> NoResponse]
    /\ enforce' = [h \in Handlers |-> TRUE]
    /\ persisted' = [h \in Handlers |-> <<>>]
    /\ lateClaims' = 0
    /\ UNCHANGED <<ledger, owner, creator, audited, executions, delivered,
                   orphans, attempts, faults>>

-----------------------------------------------------------------------------
(* The steps of a request once it is admitted; all of them are bounded by   *)
(* timeouts in the code.                                                    *)
Advance(h) ==
    \/ GateRateLimited(h) \/ GateBusy(h) \/ GateClockInvalid(h) \/ Acquire(h)
    \/ ClaimClockFails(h) \/ ClaimNew(h) \/ ClaimAmbiguous(h)
    \/ ClaimRejected(h) \/ ClaimActive(h) \/ ClaimUnknown(h)
    \/ ClaimCompleted(h) \/ AuditReply(h)
    \/ AuditAdmitted(h) \/ StartClockFails(h) \/ Start(h)
    \/ Inferred(h) \/ InferenceRejected(h) \/ InferenceTimeout(h)
    \/ InferenceFails(h) \/ InferenceInvalid(h) \/ OutcomeAmbiguous(h)
    \/ BuildCandidates(h) \/ BuildFails(h)
    \/ SkipRecord(h) \/ InsertAlert(h) \/ InsertRefused(h)
    \/ InsertAmbiguous(h) \/ Finalize(h)
    \/ AuditFailure(h) \/ AuditCompleted(h) \/ BudgetExceeded(h)
    \/ Complete(h) \/ CompleteAmbiguous(h) \/ Write(h) \/ Release(h)

Serve(h) ==
    \/ Begin(h) \/ NoSession(h) \/ RequestRejected(h) \/ MarkFailed(h)
    \/ \E r \in Records : Admit(h, r)
    \/ Advance(h)

Next ==
    \/ \E h \in Handlers : Serve(h)
    \/ \E a \in 1 .. gen - 1 : Recover(a) \/ RecoverFails(a)
    \/ AuditRecovery
    \/ Crash

Spec == Init /\ [][Next]_vars

(* A handler thread inside a request is scheduled and its calls return. *)
FairSpec == Spec /\ \A h \in Handlers : WF_vars(Advance(h))

-----------------------------------------------------------------------------
(* A handler works on a claim only while it holds the execution lease, the  *)
(* row is active and its own generation's: so no two handlers ever process  *)
(* at the same time, and none processes a request another settled.          *)
ExclusiveProcessing ==
    \A h \in Handlers :
        pc[h] \in Processing => /\ holder = h
                               /\ ledger[req[h]] = Ledger!InProgress
                               /\ owner[req[h]] = gen

(* What a producer was told is what the journal says for good: a result     *)
(* only if exactly that response is stored, outcome_unknown only if the     *)
(* request stays unknown.                                                   *)
DeliveredDurable ==
    \A d \in delivered :
        /\ d[2] \in FinalResponses => ledger[d[1]] = Ledger!Completed(d[2])
        /\ d[2] = Response("outcome_unknown") =>
               ledger[d[1]] = Ledger!OutcomeUnknown

(* A request that completed with a failure created no alert, although its   *)
(* batch may have been partly persisted when an insert failed.              *)
FailureLeavesNothing ==
    \A r \in Records :
        ledger[r].response \in Failures => \A e \in Events : creator[e] # r

(* A stored result has a disposition for every record, names an alert only  *)
(* where the row exists, and says created exactly for the alerts this       *)
(* request created.                                                         *)
DispositionsDurable ==
    \A r \in Records :
        LET result == ledger[r].response IN
        ledger[r].state = "completed" /\ result \notin Failures =>
            /\ Len(result.records) = Len(Batch[r])
            /\ \A i \in 1 .. Len(Batch[r]) :
                  /\ result.records[i] \in {"created", "existing"} =>
                         creator[Batch[r][i]] # NoRecord
                  /\ result.records[i] = "created" <=> creator[Batch[r][i]] = r

(* No alert without a durable admission event of the request that created   *)
(* it, no completed row without its durable completion event and, for a     *)
(* failure, the failure event.                                              *)
AuditTrail ==
    /\ \A e \in Events : creator[e] # NoRecord =>
           <<"request_admitted", creator[e]>> \in audited
    /\ \A r \in Records : ledger[r].state = "completed" =>
           /\ <<"request_completed", r>> \in audited
           /\ ledger[r].response \in Failures =>
                  <<ledger[r].response.reason, r>> \in audited

(* A claim of the running generation is never dropped silently: a handler   *)
(* works on it, or the generation is poisoned.  The one exception is the    *)
(* clock read between the admission audit and the inference (orphans).      *)
ClaimAccounted ==
    \A r \in Records :
        ledger[r] = Ledger!InProgress /\ owner[r] = gen =>
            \/ fatal
            \/ r \in orphans
            \/ \E h \in Handlers : req[h] = r /\ pc[h] \in Processing

(* Once poisoned, only handlers that had passed the fatal check before can  *)
(* still claim a request, each at most one.                                 *)
PoisonDrains ==
    fatal => lateClaims
                 + Cardinality({h \in Handlers : pc[h] \in {"accept", "gate", "claim"}})
             <= Cardinality(Handlers)

AtMostOnce ==
    INSTANCE AtMostOnceService WITH
        Responses <- FinalResponses,
        runs <- executions,
        answer <- [r \in Records |-> ledger[r].response],
        lost <- {r \in Records : ledger[r] = Ledger!OutcomeUnknown},
        told <- {d \in delivered : d[2] \in FinalResponses},
        effects <- {<<creator[e], e>> : e \in {x \in Events : creator[x] # NoRecord}}

(* The orchestrator implements at-most-once execution with one durable      *)
(* answer.                                                                  *)
ServiceRefinement == AtMostOnce!Spec

(* The execution lease never stays with a handler for good, also when the   *)
(* response cannot be written.                                              *)
LeaseReturned == \A h \in Handlers : holder = h ~> holder # h

(* Every claim of a running generation is settled, or the generation is     *)
(* poisoned or replaced, or the clock dropped it.                           *)
ClaimSettles ==
    \A r \in Records, g \in 1 .. MaxGenerations :
        ledger[r] = Ledger!InProgress /\ owner[r] = g /\ gen = g
            ~> \/ ledger[r] # Ledger!InProgress
               \/ fatal \/ gen # g \/ r \in orphans

-----------------------------------------------------------------------------

(* What was answered, created and audited agrees for good, whichever store   *)
(* fails or dies between the four that a request writes to.                  *)
OutcomesDurable ==
    DeliveredDurable /\ DispositionsDurable /\ FailureLeavesNothing /\ AuditTrail

(* A claim has one handler with the lease, or a poisoned generation that     *)
(* takes on no new work, to answer for it.                                   *)
ClaimsAccounted == TypeOK /\ ExclusiveProcessing /\ ClaimAccounted /\ PoisonDrains

(* Neither the lease nor a claim stays with a handler for ever. *)
HandlersProgress == LeaseReturned /\ ClaimSettles
=============================================================================
