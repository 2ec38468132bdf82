# Verification of ThreatFusion

TLA+ specifications, TLC runs and TLAPS proofs kept beside the ThreatFusion
code. The reference is the source under `src/`; every definition that models
code is tied to its lines in `PROJECT.json` (`map`).

Running: `tlc -workers 2 -config <cfg> <module>` for a run of `PROJECT.json`,
`tlapm <module>Proofs.tla` for the proofs.

Contents: 1 Inventory, 2 Modules, 3 Runs, 4 Proofs, 5 What the models show
beyond the properties, 6 Not modelled, 7 Plan.

## 1. Inventory

ThreatFusion takes network-behaviour batches from one registered producer over
mutual TLS, classifies them with a frozen model, persists alert candidates and
lets analysts work on them through two more TLS listeners. Beside that plane
stand an approval-gated SOAR workflow with an audit chain, a live console with
its own database and sensor, and an offline pipeline that produces the frozen
models. `PROJECT.json` lists every component, modelled or not, and the hazards
with the properties that cover them.

### Producer plane

| part | state | operations | interacts with |
|---|---|---|---|
| `producer_execution_gates` | token bucket, one slot, counters | `acquire`, `release` | called by every handler thread |
| `producer_replay_journal` (SQLite) | one row per request: `in_progress`, `completed` with the response, `outcome_unknown` | `claim`, `complete`, `recover_abandoned_generation` | the orchestrator; survives crashes |
| `producer_orchestrator` | fatal flag, listener, generation | `process_one`, `recover_abandoned_generation`, `close` | gate, journal, audit, worker, alert store, socket |
| `alert_repository` (SQLite) | alert candidates by event | `insert` | orchestrator, analyst repository |
| `producer_security_audit` (SQLite) | hash-chained events | `append`, export | orchestrator |
| `producer_inference_worker` | a spawned process group and a pipe | `execute` | orchestrator (one call per request) |
| `producer_service` | lifecycle state, handler threads | `start`, handler loops, `shutdown` | orchestrator |
| `producer_tls_transport`, `producer_admission` | the listener; a connection's capabilities; certificate registry | open, accept, read, write; validate | orchestrator, service |

Hard here: two handler threads over one gate; four stores that no transaction
spans; a crash between any two of them; a database error reported after its
commit; a response lost after it was stored; a child process that hangs, lies
or leaves helpers; a shutdown while handlers are in requests; a client that
drips its bytes.

### Analyst plane and its storage

| part | state | operations |
|---|---|---|
| `analyst_state_repository` | a row and an append-only history per alert | `transition`, replayable by id, optimistic in version |
| `analyst_tls_service`, `analyst_browser_tls_service` | listener, admission flag, forms handed out | authenticate, audit, dispatch, answer |
| `human_listener_lifecycle`, `human_service_runner` | generation, state, reload event | start, drain, reload, maintenance, exit |
| `human_credentials`, `human_ca_issuance`, `human_browser_provisioning` | policy file, journals, archives, CA directory, deliveries, profiles | enrol, restrict, rotate, issue, provision |
| `analyst_security_audit`, `audit_retention`, `storage_backup` | audit table with a capacity; snapshot and archive directories | append, export, prune, snapshot, restore |

Hard: racing and repeated commands, uncertain commits, a credential restricted
in mid-request, maintenance beside open connections, files published in several
renames with a crash between any two.

### SOAR ledger and live console

`playbook_ledger` keeps playbook records, an HMAC audit chain and a sealed head;
the engine recommends, decides, executes (in simulation) and rolls back. The
contract server answers verify-state and callback requests in a thread each.
`live_soc_console` takes rows in (sensor, ingest, replays, scenarios), stitches
incidents, keeps analysts' records and the copilot's briefs, and dispatches
approved responses to the contract server, TheHive's outbox and the victim of
the lab range. `follow_suricata_eve` tails Suricata's log and posts to the
console. Hard: handlers of several transactions each, with no lock across them,
in threads that interleave at all of them; keys kept in memory and on disk; a
file that is truncated under its reader.

### Evidence pipeline

Split, preprocessing, baselines, February and CIC evaluations, autoencoder and
its variant, residual audit and retraining feedback: commands that verify the
runs they build on, write files one by one and a report last. Hard: commands
that race for a directory, fail or die between two files, inputs altered
between a verification and its use, and flows that leak across the split.

### Correct means

- gate: never more attempts in a window than burst and refill allow; one lease;
- journal: one row and one grant per request for ever, terminal rows stay, a
  retry gets the stored response or nothing;
- orchestrator: at most one execution, one durable answer, no answer that
  denies an effect, no unaudited effect, no silently dropped claim;
- worker: whole batches only, `execute` returns unless a message is cut short,
  no process left behind unsaid;
- service: stopped means drained, ready means served, poison closes, calls return;
- transport: a request is read exactly, a handler is freed in bounded time;
- analyst plane: one chain of legal steps per alert, changes only by people in
  force, a 200 is stored and audited until a restore goes back before it, a
  restriction takes effect;
- credentials: journals never claim what did not happen, restricted stays out;
- storage: snapshots consistent, restores exact where nothing was cut short,
  pruning loses nothing;
- SOAR: no execution without approval, a sound chain that tells each
  playbook's life;
- console: rows once, incidents of exactly the stored rows, receipts, records,
  briefs and containment that are what the routes answered;
- pipeline: the promised split, nothing fitted on what is scored, one lineage
  and one report per run, feedback as its caller was told.

## 2. Modules

Abstract specifications (what a part promises): `ExecutionSlot`,
`ReplayLedger`, `AtMostOnceService`, `AlertWorkflow`, `PlaybookWorkflow`.

| module | models | implements / extends |
|---|---|---|
| `ProducerExecutionGates` | the gate | implements `ExecutionSlot` (checked, proved) |
| `ProducerReplayJournal` | the journal | implements `ReplayLedger` (checked, proved) |
| `ProducerOrchestrator` | the request path, over `ExecutionSlot` and `ReplayLedger` | implements `AtMostOnceService` (checked, proved) |
| `ProducerServingLifecycle` | the service and its listener | |
| `ProducerInferenceWorker` | `execute`, the child, the pipe | |
| `ProducerTlsTransport` | listener, connection stages, registry, admission | |
| `AnalystStateRepository` | `transition` | implements `AlertWorkflow` (proved) |
| `AnalystService` | both listeners, lifecycle, runner | extends `AnalystStateRepository` |
| `HumanCredentials`, `HumanCaIssuance` | policy, journal, archives; CA, bundles, profiles | the second extends the first |
| `StorageRecovery` | snapshots, restore, export, prune, the audit's capacity | |
| `SoarPlaybookLedger` | the engine, its ledger, the callback | implements `PlaybookWorkflow` (checked, proved) |
| `ConsoleState` | what the console's threads share | |
| `LiveIntake`, `LiveCorrelation` (with `IncidentCorrelation`), `AnalystRecords`, `CopilotAdvice`, `SoarResponse` | the console's routes | extend `ConsoleState` |
| `SocConsole`, `EveFollower` | all of them together; the log's follower beside them | extend the above |
| `DevelopmentSplit`, `EvidencePipeline`, `ResidualAudit`, `FeedbackLedger` | the split algorithm; the commands; the audit; the feedback ledger | each extends the one before |

`ProducerOrchestrator` composes: it uses the gate and the journal through
`ExecutionSlot` and `ReplayLedger` (INSTANCE), which the detailed modules are
shown to implement. `MC*` modules give functions, small sets and symmetries to
TLC where a cfg file cannot; `*Proofs` modules hold the theorems. In each module
the variables carry the source's names in their comments, and one action stands
for one operation or for one step of it that another thread can come between.
Operators that stand just before a definition and are used nowhere are its
faulty variants, which show that a property can fail.

How state and actions correspond:

- **Gate.** `credit`, `last`, `active` and the counters are the object's
  fields. `acquire` reads the clock before it locks, so `ReadClock` and the
  locked part are two actions, and the reading is any value: the clock is
  injected.
- **Journal.** `rows` is the table. A transaction is BEGIN IMMEDIATE to COMMIT,
  hence one action. `ClaimUncertain` commits and reports an error; callers keep
  claims and present them late, twice or through another generation.
- **Orchestrator.** `pc` is where a handler stands in `_process_session`; each
  call on a store, clock, worker or socket is an action and may fail, with or
  without its effect where the code must assume either. `Crash` ends the process
  and starts the next generation; `Recover` is the explicit recovery.
- **Lifecycle.** A step is a critical section of the lock, a listener call or a
  thread operation. `accept` tests the listener and uses it in two steps.
- **Worker.** Time is left out: a deadline or a bounded wait may end at any
  moment. The child follows `Script`, or crashes, hangs, raises, ignores
  signals, starts helpers or sends any message (at most `MaxFaults`). One wait
  has no deadline: after `poll` saw a first byte, `recv_bytes` waits for the
  whole message. `Cut` is a message whose end is missing; the parent that meets
  it is `blocked` until more bytes come or the pipe ends.
- **Transport.** A client is a plan: certificate, request, sizes of its TLS
  records. `Tick` is time; it never passes a deadline that is due. The stages of
  a connection and its capability tokens are the code's. The response is a stage
  of its own: it ends when the client takes it or is gone, or at its deadline.
- **Analyst repository and service.** `transition` is one transaction, one
  action per outcome; `TransitionUncertain` commits and reports an error. A
  listener serves one connection, through authentication, admission row,
  second look, dispatch, completion row and answer, each a step, the last three
  under the listener's lock; the control thread closes, joins, loads and opens in
  steps of its own. `saved` holds the snapshots taken; `restore_quiescent` puts
  one back whole (`Restored`), and with it the 200s it knows of (`told`), or ends
  with an error between two files (`RestoreTorn`).
- **Credentials.** Every operation holds its directory's lock; one step is one
  file made durable, and the process may die between two. A file made with
  `create_only` is linked and then unlinked: a death in between leaves it with
  two names (`linked`, `doubled`), and every later read refuses it. A journal
  line may be written short; the next issue appends behind it (`Garbled`).
- **Storage.** A database is the set of what its rows are about. Commands copy,
  replace, unlink and check file by file; two run at a time; the clock may step
  back, so an audit event takes any unused key. A restore looks neither at how
  much it wrote nor at whether a log could be unlinked; `spoiled` names the
  databases this happened to.
- **SOAR ledger.** An operation is a read, a `SaveRecord` and an
  `AppendAuditEvent`; a verification is `ReadRows` and `ReadSeal`, because the
  code reads them in two autocommitted SELECTs. An HMAC stands for the number of
  its entry. `CutShort` is an error or a crash between two transactions.
- **Console.** A thread's `req` is the request it serves and where it stands; a
  step is one transaction or one external call. `alone` records that nothing
  else ran during the request. `keys` are the idempotency keys in memory and on
  disk. The follower reads half lines and posts one event at a time.
- **Pipeline.** `dirs` holds the run directories; a command verifies, makes its
  directory, writes files and returns, in steps. Of a fitted file the model
  keeps the flows that had a part in it.

## 3. Runs

Bounds are named constants of the cfg files.

| run | checks | bounds, and why they are enough |
|---|---|---|
| `gates` | `RateWindow`: no window admits more than burst and refill; `SlotRefinement` | 2 handlers, burst 2, refill 2 clock units, clock 0..4, 5 attempts: more than two bursts, readings in both orders, stale and foreign leases |
| `journal` | `EvidenceSound`: no two rows with one request id or nonce, one grant per row, stable cached answers; `LedgerRefinement`, which adds owners and final rows | 2 ids, nonces, bodies, correlations, results and generations, 4 tokens: every kind of clash and a claim after each kind of end |
| `orchestrator` | `OutcomesDurable`, `ClaimsAccounted`, `ServiceRefinement`, `HandlersProgress` | 2 handlers, 3 requests that share an event and an id, 2 generations, five workloads: a retry with 2 failures (a failure while a failure is handled), pairs and a clash with 1, three submissions with none |
| `lifecycle` | `StatusHonest`, `ServiceSettles` | 2 control threads, 2 handlers, 2 starts: a start races a shutdown, and a second generation follows the first |
| `worker` | `ExecutionSound`, `ExecuteReturns` | 2 records (a first, a last and a boundary), 1 misbehaviour, a message cut short among them |
| `transport` | `BodyExact`, `HandlerFreed`, `ConnectionsEnd` | 1 handler, 2 clients, 14 plans (whole, split, dripped, short, overlong, revoked, foreign, stale, ...), head and chunk of 2 bytes, totals of handshake, read and response 1, 3 and 2, idle 2 and 1, a clock that stands still at 4 while timers go on |
| `analyst_plane` | `SuccessIsRecorded`, `RepositorySound`, `ChangesAreEntitled`, `GenerationsApart`, `RestrictionTakesEffect` | 1 alert, 3 commands repeated at will over both listeners: two analysts on version 0, one of them on version 1 with an id the other uses (so version and identity conflicts); an analyst restricted or expiring, 1 reload, snapshot, restore or prune. With one maintenance call a restore can only go back to the empty storage; the proof has every snapshot |
| `credentials` | `JournalsTrue`, `RestrictedStaysOut` | 2 certificates of one actor, 2 archives, a journal of 2 records (full at once), 2 deliveries, 1 profile, 1 death or short write |
| `storage` | `RestoreExact`, `PrunedIsArchived`, `SnapshotsSound` | 1 alert, 3 event keys with capacity 2, 1 snapshot and 2 archive directories, 3 commands, 2 at a time, 1 crash, any number of short writes and failed unlinks of a restore |
| `soar_ledger` | `ChainSound`, `LifeInChain`, `WorkflowRefinement` | 2 threads, 2 playbooks, 2 actors, 4 entries (a playbook's whole life, or two lives interleaved half-way), 1 operation cut short |
| `console` | `RowsStoredOnce`, `IncidentsExact`, `ReceiptBacked`, `ReplayRefused`, `RangeOutcomeTrue`, `RecordsKept`, `AdviceOfThisRow` | 2 threads, 4 rows, burst window 2 and campaign window 4, and 21 days: a day says which requests, crashes and faults may happen and which kinds run by themselves |
| `pipeline` | `AssignmentAsPromised`, `HeldOut`, `OneLineage`, `PublishedOnce`, `FeedbackSound` | every proper table of three flows over seven intervals, some of which start before the development period or between the two, is followed to its assignment, one table with flows of every disposition to the end; 2 commands, auditors and recorders, 1 second run, 1 alteration, 1 mishap; `Bounded` keeps at most two oddities together and audit and feedback apart from what they share no file with |

Deadlock checking is off: every system here may stop (bounded attempts, closed
alerts, a stopped service). Symmetry is used only in runs without liveness and
over sets whose elements nothing distinguishes.

### Fairness

Weak fairness only, of a thread that is inside a call:

- `Advance` of each handler (orchestrator), `Serve` and `Proceed` (lifecycle),
  `Parent` (worker): their waits have a timeout (socket, SQLite busy timeout,
  pipe poll with the deadline, bounded joins), and Python threads are scheduled.
  The exception is the rest of a message, for which `recv_bytes`
  (`producer_inference_worker.py:584`, 677) waits for ever: `Parent` can do
  nothing while the worker is `blocked` on an empty pipe. `BlockedEnds`, the
  pipe's end within a message, is fair when no helper holds the pipe open.
  `ExecuteReturns` therefore excludes an `execute` that stays blocked, and
  `HandlersProgress` and the lifecycle's `ServiceSettles` assume, of the one call
  a handler makes on the worker, that it returns;
- `BrowserStep`, `ApiStep`, `WorkerCloses`, `ControlStep` (analyst plane): a
  connection has three seconds for its handshake and five for its request, a
  close waits only for an answer being sent, and the runner polls its events;
- `HandlerStep` and `Tick` (transport): time passes, and every wait of a handler
  ends with a deadline.

Nothing is assumed of producers, clients, operators, the child process or
crashes.

## 4. Proofs

TLAPS, for every value of the constants that meets the modules' assumptions:
any number of handlers, requests, threads, playbooks, alerts, commands, crashes
and faults. The assumptions are the configurations of the code, and TLC
evaluates them in every run: a positive burst and batch, naturals for bounds,
placeholders outside their sets, finitely many handlers; `NoFile` is no file's
content; a client's plan has a length and its records sizes; what the console
seeds itself scores as an attack, its placeholder is no row's kind and no word of
an answer, and Suricata's log is a sequence of observations and other lines. `None` stands
for the absent pins, report, recovery file and feedback row of the pipeline
(`PinsAreNotNone`, `NoReportIsNone`, `FeedbackConfiguration`), so it is none of
their values. One theorem has a hypothesis beside these, see `HeldOut` below.

- `ProducerExecutionProofs`, the gate: types, `RateWindow`, agreement of slot and
  lease, and `SlotRefinement`. `RateWindow` speaks of pairs of past charges and
  is not inductive; `CreditCovers` adds that what was charged since any charge,
  plus the credit left, fits the window that ends now. The worker:
  `ExecutionSound` for every batch size. `ProgressTrue` ties the results to what
  the parent waits for; `PipeTrue` says that the pipe of an obedient child holds
  the next part of the script, which is why its batch is accepted.
  The journal: types, each part of `EvidenceSound` and the
  whole, `LedgerRefinement`. `JournalInv` joins the parts with `RowShape`; the
  once-only grant needs that every grant has a row, which no transaction deletes.
- `ProducerOrchestratorProofs`: `OutcomesDurable`, `ClaimsAccounted` and
  `ServiceRefinement`. The four stores agree only at the ends of a request, so
  the invariant says for each place a handler can stand at what its earlier
  calls have established: `HandlerTrue` (lease and request), `WorkTrue` (row in
  progress, owner, audit rows, executions), `LoopTrue` (the loop knows every
  alert its request created), `ConclusionTrue` (the response about to be stored
  is true of the alert table), `ReplyTrue` (the response about to be written is
  the journal's). `Unclaimed` covers the requests nobody claimed. That a
  poisoned generation claims no more than what was already accepted counts
  handlers (`LateClaimsBounded`, cardinality of a finite set). A step of one
  handler keeps what another relies on because only the lease holder writes
  (`OthersKept`), and the refinement maps each step to one of
  `AtMostOnceService` or to a stutter.
- `ProducerServingProofs`, the lifecycle: `StatusHonest`. `CallsApart` says which
  start and shutdown calls can be under way together, `StartTrue` and `StopTrue`
  what each has established about threads and listener, `ReadyTrue` and
  `RestTrue` what the status means between calls. The transport: `BodyExact` and
  `HandlerFreed`, for any number of clients and handlers and every split of a
  request into records. `HandlersApart` gives a connection to one handler from
  accept to close, so that no other handler reads of it; `BodyMissing` says that
  of a body still being read some is missing, which is why a read never asks for
  more than the rest; `TimeSpent` bounds the time a handler was held by the
  phases passed and the clock of the phase under way, the response's included,
  which `Tick` cannot carry past its deadline.
- `AnalystStateRepositoryProofs`: types, history, no lost update,
  acknowledgements, final states, `RepositorySound` and the refinement of
  `AlertWorkflow`. `RepositoryInv` adds that a row's version is the distance of
  its state from "new". Then, for the service around it, `SuccessIsRecorded`,
  `RepositorySound`, `ChangesAreEntitled` and `GenerationsApart`. `ServiceInv`
  says what the stages of a connection have established (`ConnectionTrue`: its
  person, its admission row, the form it came with, the stored event behind a
  success) and `Between` that no worker is there between two generations and
  that nobody withdrawn is in the registry in force; every snapshot holds a sound
  history and the changes of the 200s it goes back to, which is why a restore
  takes nothing back but what came after it. The two action properties
  follow from it step by step. `AlertWorkflow` and `EndsStay` are about the
  repository by itself: a restore may well take an alert back out of an end.
- `OperationsProofs`, storage: `RestoreExact`, `PrunedIsArchived`,
  `SnapshotsSound`. `WritersApart`: one writer per snapshot directory and none
  once it has its manifest. `RestoreTrue`: a restore past its first step works
  offline, alone and from a finished snapshot, and what it has put back stays, but for
  audit events that an archive holds and a prune deletes beside it. `RestoreExact`
  is per database: one that met a short write or a failed unlink, which the
  command does not report, is excepted, and spoils no other.
  Credentials: `JournalsTrue` and `RestrictedStaysOut`, for any number of
  certificates, archives, deliveries and crashes. Between two files of one
  operation the journal lags behind the policy. `OwedEntry` says that what an
  operation under way still owes the journal is the next entry and tells of a
  change the policy holds; `RotationTrue` and `ArchivesTrue` that a rotation at
  work has copied the journal as it still is, and that every archive, one left by
  a rotation that died included, is part of one numbered history. `PlanTrue` does
  the same for the CA: which files an issuance or delivery has written by the
  steps it has to go, so that `ManifestsTrue` holds when it writes the last.
  What a death spoils is excepted where it is read (`Legible`, `Garbled`), and
  `OnlyDeathsSpoil`, a part of `JournalsTrue`, says that nothing else does.
- `SoarPlaybookLedgerProofs`: types, `ChainSound`, `LifeInChain` and
  `WorkflowRefinement`. Threads write back stale rows, so the bound on versions
  needs that a record's version is determined by its state (`ShapeInv`). The
  refinement needs `FreshInv`: as long as no two operations on a playbook
  overlapped, at most one thread carries a change of it and the state it read is
  still the stored one; the history variable `overlapped` collects the playbooks
  for which this was lost. `LifeInChain` rests on `ApprovalInv` (an approval
  saved is in the chain or is what a thread is about to append) and `LifeInv`
  (the chain has one entry per version, up to the thread that has saved and not
  yet appended); the latest entry of a playbook exists by well-foundedness.
- `SocConsoleProofs`: `RowsStoredOnce`, `ReplayRefused`, `ReceiptBacked`,
  `RangeOutcomeTrue`, `RecordsKept` and `AdviceOfThisRow`, for any number of
  threads, any traffic and any budget of requests, crashes and faults. No lock
  spans a request, so nothing a thread has read need still be true. `SharedTrue`
  is about what the threads share (an id is given once, an approval is of the row
  its candidate names, an accepted key is on disk or its access failed, a receipt
  has its case and its book); `RequestTrue` and `PostTrue` say for each place of
  each kind of request what it may still rely on. That is of two sorts: what only
  grows (`Grows`: ids, the ledger, the outbox, keys on disk), which other threads
  cannot take away, and the rows, the victim and the notes, which hold for a
  request only while it is `alone` (`AloneTrue`). `FollowerInv` adds the
  follower's own state (`EveTrue`).

  `RowsStoredOnce` has two further halves. `FileTrue` is about the log alone: the
  file holds the last half lines Suricata wrote (`TextTrue`), what is kept of a
  read is the half line before the offset (`PlaceTrue`), lines taken lie before
  all that is unread (`TakenTrue`), and every line owed is taken, unread or half
  read (`DueTrue`); hence nothing is handled twice, out of order or passed over,
  whatever the file's truncations, unless the follower died or read from the
  middle of a regrown file (`blind`, section 5). `RowsInv` says that what the
  sensor's route has acknowledged has its row, or is noise, which the purge may
  take; `PostedInv`
  joins both: the follower waits for the very request it posted, and a line
  handled was acknowledged.

- `EvidencePipelineProofs`: `PublishedOnce`, `OneLineage`, `FeedbackSound` and
  `HeldOut`, for every table of flows, any number of commands, auditors and
  recorders at a time, and any number of second runs, deaths and alterations:
  none of the run's `Bounded` is left. Commands share no lock and verify only at
  their start, so nothing they verified need still be true when they write.
  `EvidenceInv` says what does last. `WritersTrue`: a directory has one writer,
  the command whose `mkdir` made it or whose finalize took its failure file, and
  that writer has not reported as long as its report is to come; hence one
  report. `LineageTrue`: a command and a made directory hold the digests taken at
  the start (`Bound`), and what those name is there and of the same
  preprocessing, which no later step takes away (`Kept`: inputs and references of
  a directory never change, an altered report is never whole again). `PinsTrue`
  and `ServedTrue` carry this over to the frozen runs and to the predictor and
  detector loaded from them. `DataTrue`: the flows behind a fitted file are
  training flows and the scored ones are validation or test flows, whatever was
  altered since. `AuditInv`: who publishes has left a recovery file, and what it
  publishes is of one preprocessing; `FeedbackInv`: per place of a recorder, what
  it has seen of the models and of the ledger.

  `HeldOut` then needs one thing of the split: that it gives linked flows one
  partition (`KeepsTogether`). That is a property of the sweep and the union-find
  as functions of a table, an induction over data, so it is the hypothesis of
  `HeldOutHolds`. For each table of the run TLC checks it as part of
  `AssignmentAsPromised`: the promised assignment decides per class of linked
  flows, and the computed one is found equal to it. The theorem adds that no
  order of commands, second runs and alterations breaks what the split
  established.

Each inductive invariant was first checked by TLC on the run's instance, the
pipeline's on the followed table. Three
attempts were findings about the model. `FeedbackSound` compared the changes of
frozen models made by others while feedback is recorded, and left out the
alterations the pipeline itself allows: an alteration between the last
verification and the answer broke it, which the bounds of the run had kept
apart. `Changes` counts both. The console's `DropStale` and `Dropped`
had shared a place, so that a stitch could have been taken for a dropped request;
they have places of their own now, as in the code. And a policy file equal to
`NoFile` could have passed for a missing one, which the assumption on `NoFile`
excludes.

Only model-checked:

- liveness (`HandlersProgress`, `ServiceSettles`, `ExecuteReturns`,
  `RestrictionTakesEffect`, `ConnectionsEnd`): fairness and ENABLED are outside
  what the provers handle;
- the pipeline's `AssignmentAsPromised` and the console's `IncidentsExact`: they
  speak of closures and groupings computed by recursion and sorting, and what a
  recursive definition computes for every input is an induction over data. The
  hypothesis `KeepsTogether` of `HeldOut` is of this kind.

## 5. What the models show beyond the properties

Properties are stated for what the code does promise. These are the places
where a sentence of the repository, or a reader's expectation, does not hold;
each was met while modelling.

Producer plane:

- `docs/producer_admission_transport_policy.md:347` says an event completed
  under one request is not predicted again under another. The orchestrator (608)
  has no per-event lookup before inference; the alert insert alone notices.
- The same policy answers a concurrent exact retry `request_in_progress`; the
  gate is asked before the journal, so the retry is answered `server_busy`.
- The clock read after the admission audit is outside the guarded part; if it
  fails, the claim stays active and the generation is not poisoned.
  `ClaimsAccounted` names these claims (`orphans`) and holds for all others.
- A trusted clock that fails between body and admission closes the connection
  without an audit row (orchestrator 831).
- The worker's deadlines do not cover a message that was begun: a child that
  stops within one, or a helper that holds its pipe open after it died there,
  keeps `execute` in `recv_bytes` (584, 677): the only lease is not given back,
  and `shutdown()` gives up at its bounded join. Neither the class's name,
  "terminating", nor the request deadline holds of that case; `ExecuteReturns` is
  stated without it.
- "join every handler" (`producer_service.py:181`): after a failed `start()`
  the service forgets handlers it stopped waiting for (177), and `shutdown()`
  returns while one runs.

Analyst plane and storage:

- `restore` is not atomic, as its docstring says (`storage_backup.py:666`): files
  are replaced one after another, and a crash in between leaves databases of two
  moments. A three-database snapshot restored beside a live incidents database
  leaves incidents that name alerts now gone.
- A restore that returned need not have restored: `os.write` (714) may be short
  and an old log may stay beside the new file when its unlink fails (728-731).
  The checks that follow may but need not notice. A restore that raises leaves
  the human service stopped, with the databases of two moments.
- A death between `os.link` and `os.unlink` (`human_credentials.py:202`, 432,
  `human_ca_issuance.py:219`, `human_browser_provisioning.py:280`) leaves a file
  with two names that every later command refuses. A short write of the issuance
  journal leaves half a line (`human_ca_issuance.py:624`), the next issue
  completes it to one that cannot be read, and `verify_human_ca` fails for good.
- An exception of the browser listener that nobody catches, such as a form token
  of 64 characters that are not ASCII (`hmac.compare_digest`, 169), ends its
  worker and stops both listeners; the runner then exits.
- With the journal full (64) and an active credential expired, a restriction
  finds no room and a rotation stops at the unreadable policy with the journal as
  it was: a dead end that the comment near `human_credentials.py:787` ("Expired
  records may still be restricted") does not allow for.
- A crash before `next_serial` is updated lets two certificates share a serial;
  one before the journal's append leaves `verify_human_ca` failing. An empty
  issuance journal is not compared with the counters.

SOAR and console:

- The version check and the save of a decision are two transactions
  (`playbook_ledger.py:955`), against
  `docs/stride_threat_model_and_production_readiness.md:180`: two decisions on
  one version are both accepted and the later one wins.
- An append between the two reads of a verification (615) makes an untouched
  ledger fail it. An error between a record and its audit entry leaves a change
  the chain does not mention; `LifeInChain` is stated for lives in which nothing
  was cut short and operations kept apart.
- Two concurrent stitches can wipe each other's incidents; concurrent scenario
  replays insert copies, and the next replay deletes the higher ids with their
  approvals and receipts; two concurrent approvals create two approved playbooks;
  two requests with one key can both pass the check before either commits; a
  database error in the key store is ignored, so the key is accepted again after
  a restart; the verify key is used up before the callback, so a dispatch that
  failed in between never succeeds; two contained flows share the one rule, and
  a lost probe in a rollback leaves the row "applied" without a rule. Hence
  `alone`, `fresh` and `unsure` in the properties.
- A sensor crash between a row and its campaign leaves the row uncorrelated
  until the next event, as the retry is acknowledged as a duplicate. An event
  re-sent after a purge is stored, and its campaign insert raises.
- A verdict or an assignment on a row deleted meanwhile is answered as a success;
  the stamp of one request can stand beside the verdict of another. The
  copilot's cache key has no version of the evidence. A manual split followed by
  a stitch leaves an alert in no incident.
- The follower dies of any answer but 200 and, started again, continues at the
  end of the file; a file regrown past the old offset before a look is read from
  its middle.

Pipeline:

- the CIC stage always refuses; the only bundle in the approved registry is
  historical and always refused by `load_verified_autoencoder_detector`;
- a command that fails its budget check after the report leaves both a completed
  report and a failure file, and is still accepted; a crash in the split's
  cleanup leaves a report without its archive, one in finalize a dead directory;
- `prepare_january_rate_inputs` never compares its assignment with the
  baseline's, so `OneLineage` excludes that stage and the one built on it;
- the preflight database is not bound by a digest; raw files altered between
  verification and streaming go unnoticed; an altered recovery file blocks the
  audit until it is removed;
- a creator of the feedback ledger that dies leaves an empty file, which is
  `ledger_corrupt` for ever; a row is committed though the check after it raises,
  and the retry is answered "existing" without that check.

## 6. Not modelled

- the analyst dashboard and explanations, advisory (RAG, Gemini), enrichment:
  rendering and lookups without state of their own;
- floating-point training and inference, feature engineering, reports: numeric
  or offline and single-threaded; labels are left out of the split;
- cryptography and TLS records' contents, key files, file permissions: library
  calls, taken as working. Tampering with databases from outside, except the
  alterations of the pipeline, is not modelled;
- `create_soc_response_plane_snapshot`, `enroll_lab_operator`, the SOAR key
  file's creation, a capability used twice, the response contract of the
  transport, the alert-signature cache of the follower, part-written files of
  the pipeline;
- a rollback journal the audit may have after a crash within a transaction, and
  which a restore does not remove; a forest model file replaced between a run's
  failed reload and its finalization, which has no digest to compare; alterations
  of files whose run has no report yet;
- rows whose candidate cannot be built are skipped by the console, as in the
  code; the ledger's chain is taken as intact there, since `SoarPlaybookLedger`
  is about it.

## 7. Plan

Every safety property of the runs is proved but the two above. Left: lemmas
about the union-find of the split that need no induction (the root of a union,
what a union leaves alone), and the same for `stitch`'s groups.
