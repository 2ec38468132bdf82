-------------------------- MODULE SocConsoleProofs --------------------------
(* Theorems about the live console with its follower, for every number of       *)
(* threads, every traffic, every budget of requests and mishaps.                *)
(*                                                                              *)
(* A thread keeps what it read across transactions, and every other thread      *)
(* steps in between.  The invariant says what each place of a request may still *)
(* rely on: what only grows (Grows) for all of them, and the rows, the victim   *)
(* and the notes only for a request that has run alone.  To it come the file    *)
(* between Suricata and its follower (FileTrue), and the rows of what was       *)
(* acknowledged, whoever was alone (RowsInv).                                   *)
EXTENDS EveFollower, FiniteSetTheorems, SequenceTheorems, WellFoundedInduction, TLAPS

(* The fields of a row, of a request and of a request to the contract server. *)
RowFields ==
    {"label", "shape", "event", "born", "playbook", "receipt", "recorded", "path",
     "containment", "checked", "verdict", "triage", "assignee", "stamp"}
RequestFields ==
    {"kind", "pc", "alone", "flow", "shape", "actor", "row", "book", "case", "todo",
     "read", "keep", "outcome", "brief", "then"}
Scopes == {"verify", "callback"}
KeyOf == Scopes \X Nat \X {1, 2}
PostRecord ==
    [pc : {"check", "ledger", "commit", "done"}, scope : Scopes, book : Nat, key : KeyOf,
     status : {0, 200, 403, 409}, chained : BOOLEAN, fresh : BOOLEAN]
BookRecord ==
    [candidate : Nat, state : {"pending", "approved"}, version : {1, 2}, born : Nat,
     timed : BOOLEAN]
Endpoints == UNION {Shape[s].pair \X {Shape[s].service} : s \in Shapes}

(* An id is given once, so it tells which row a row is; an event has one row. *)
RowsTrue ==
    /\ lastId \in Nat /\ DOMAIN flows \subseteq 1 .. lastId
    /\ \A f \in DOMAIN flows :
          /\ DOMAIN flows[f] = RowFields /\ flows[f].born = f /\ flows[f].shape \in Shapes
          /\ flows[f].label = "scenario" => flows[f].shape \in {Scenario, Recorded}
    /\ \A f, g \in DOMAIN flows :
          flows[f].event = flows[g].event /\ flows[f].event # None => f = g

(* An approval is of the row its candidate names. *)
LedgerTrue ==
    /\ books \in Seq(BookRecord) /\ cases \in Seq(Nat)
    /\ \A b \in DOMAIN books : books[b].state = "approved" =>
          books[b].version = 2 /\ books[b].born = books[b].candidate
Approved(b) == b \in DOMAIN books /\ books[b].state = "approved"

(* What was accepted is on disk, or its database access failed. *)
KeysTrue ==
    /\ keys \in [memory : SUBSET KeyOf, disk : SUBSET KeyOf, answered : SUBSET KeyOf,
                 sent : SUBSET (Scopes \X Nat), unsure : SUBSET KeyOf, webhook : BOOLEAN]
    /\ keys.answered \subseteq keys.disk \cup keys.unsure
    /\ \A s \in keys.sent : Approved(s[2])

(* A row's callback, and its triage, are where the row says. *)
ReceiptsTrue ==
    \A f \in DOMAIN flows : flows[f].recorded # 0 =>
        /\ flows[f].recorded \in DOMAIN cases /\ cases[flows[f].recorded] = f
        /\ \E b \in DOMAIN books :
              /\ books[b].state = "approved" /\ books[b].candidate = f /\ books[b].timed
              /\ Key("callback", b) \in keys.answered
NotesTrue ==
    /\ DOMAIN notes = {"memory", "log", "briefs", "briefsOnDisk"}
    /\ DOMAIN notes.memory = Endpoints
    /\ \A f \in DOMAIN notes.briefs : notes.briefs[f].born = f
    /\ \A f \in DOMAIN notes.briefsOnDisk : notes.briefsOnDisk[f].born = f
TriageLogged ==
    \A f \in DOMAIN flows : flows[f].triage # None =>
        <<"triage", f, flows[f].triage>> \in notes.log
RangeTrue == DOMAIN range = {"running", "rules"} /\ range.rules \in Nat

SharedTrue ==
    /\ RowsTrue /\ LedgerTrue /\ KeysTrue /\ ReceiptsTrue /\ NotesTrue /\ TriageLogged /\ RangeTrue
    /\ DOMAIN req = Threads /\ DOMAIN post = Threads

-----------------------------------------------------------------------------
(* Where a request of a kind can be, and with what. *)
Sensing == {"event", "event_insert", "event_campaign"}
Seeding == {"scenario", "scenario_insert", "candidate", "seed", "seed_insert", "notable"}
Stitching == {"correlate", "group", "mark", "drop_stale"}
Calling == {"verify", "await_verify", "case", "callback", "await_callback", "webhook",
            "await_n8n", "record"}
Control(r) ==
    /\ r.flow \in Nat
    /\ r.pc # "reply" => r.outcome \in {None, "stored", "approved"}
    /\ r.pc \in Sensing => r.shape \in Shapes /\ r.kind \in {"sensor", "scenarios", "scan"}
    /\ r.pc \in Seeding => r.kind \in {"scenarios", "scan"}
    /\ r.pc = "purge" => r.kind \in {"scan", "purge"}
    /\ r.pc = "scan" => r.kind = "scan"
    /\ r.pc \in Sensing \cup Seeding \cup {"purge", "scan"} =>
          r.then = "reply" \/ (r.then = "correlate" /\ r.kind = "scenarios")
    /\ r.pc \in Stitching => r.kind \in {"sensor", "ingest", "replay", "scenarios", "correlate"}
    /\ r.pc \in {"rows", "burst"} => r.kind \in {"ingest", "replay"}
    /\ r.pc = "rows" => r.todo \in Seq(Shapes) /\ r.actor # "scenario"
    /\ r.pc = "look" => r.kind \in {"verdict", "assignment", "memory"} /\ r.then = r.kind
    /\ r.pc \in {"verdict", "triage", "assignment", "note"} => r.kind = r.pc
    /\ r.pc = "memory" => r.kind \in {"memory", "verdict"}
    /\ r.pc = "stamp" => r.kind \in {"verdict", "triage", "assignment", "approve"}
    /\ r.pc \in {"approve", "recommend", "decide", "receipt"} => r.kind = "approve"
    /\ r.pc \in Calling \cup {"dispatch"} => r.kind = "dispatch"
    /\ r.pc \in {"contain", "drop_check", "drop", "applied", "undo"} => r.kind = "contain"
    /\ r.pc \in {"rollback", "remove", "rolled_back"} => r.kind = "rollback"
    /\ r.pc = "probe" => r.kind \in {"contain", "rollback"}

(* A response acts for the row it was asked about. *)
Responds(r) ==
    /\ r.pc \in {"recommend", "decide"} => r.row.born = r.flow
    /\ r.pc = "decide" => r.book \in DOMAIN books /\ books[r.book].candidate = r.flow
    /\ r.pc \in Calling => Approved(r.book) /\ books[r.book].candidate = r.flow
    /\ r.pc \in {"callback", "await_callback", "webhook", "await_n8n", "record"} =>
          r.case \in DOMAIN cases /\ cases[r.case] = r.flow
    /\ r.pc = "record" => books[r.book].timed /\ Key("callback", r.book) \in keys.answered

(* A contract request is for an approved playbook, and accepted once. *)
Contracted(p) ==
    /\ p \in PostRecord /\ Approved(p.book) /\ p.key = Key(p.scope, p.book)
    /\ p.status # 0 => p.pc = "done"
    /\ p.status = 200 => p.key \in keys.answered
    /\ p.fresh \/ p.key \in keys.answered
    /\ p.pc \in {"ledger", "commit"} \/ p.status = 200 => p.fresh \/ p.key \in keys.unsure
    /\ p.scope = "callback" /\ (p.pc = "commit" \/ p.status = 200) => books[p.book].timed

(* A dispatch waits for the answer to its own contract request. *)
Awaits(r, p) ==
    r.pc \in {"await_verify", "await_callback", "await_n8n"} =>
        /\ p # NoPost /\ p.book = r.book
        /\ r.pc = "await_callback" => p.scope = "callback"

(* Advice is of the row it was asked about. *)
Advises(r) ==
    /\ r.pc \in {"cache", "cache_disk", "ask", "brief_disk"} => r.row.born = r.flow
    /\ r.outcome = "gemini_grounded" => r.row.born = r.flow /\ r.brief.born = r.flow
    /\ r.pc = "handoff_events" /\ r.row.triage # None =>
          <<"triage", r.flow, r.row.triage>> \in notes.log
    /\ r.outcome = "grounded_brief" /\ r.row.triage # None =>
          <<"triage", r.flow, r.row.triage>> \in r.read

(* What a request that runs alone has done so far is still there. *)
Word(r) == <<r.kind, r.flow, r.actor>>
Holds(r) == r.flow \in DOMAIN flows /\ r.row.shape = flows[r.flow].shape
Signs(r) ==
    /\ r.flow \in DOMAIN flows
    /\ r.kind \in {"verdict", "triage"} => flows[r.flow][r.kind] = r.actor
    /\ r.kind = "assignment" => flows[r.flow].assignee = r.actor
    /\ r.kind = "triage" => Word(r) \in notes.log
RecordsAlone(r) ==
    /\ r.pc = r.kind /\ r.kind \in {"verdict", "assignment", "memory"} => Holds(r)
    /\ r.pc = "stamp" /\ r.kind # "approve" => Signs(r) /\ (r.kind = "verdict" => Holds(r))
    /\ r.pc = "memory" /\ r.kind = "verdict" =>
          Signs(r) /\ Holds(r) /\ flows[r.flow].stamp = r.actor
    /\ r.pc = "reply" /\ r.outcome = "recorded" =>
          /\ r.kind \in {"verdict", "triage", "assignment"} =>
                Signs(r) /\ flows[r.flow].stamp = r.actor
          /\ r.kind \in {"verdict", "memory"} =>
                \A e \in Entities(flows[r.flow]) : notes.memory[e] = Word(r)
          /\ r.kind = "note" => Word(r) \in notes.log

RangeAlone(r) ==
    /\ r.pc \in {"drop_check", "drop", "probe", "applied", "remove", "rolled_back"} =>
          r.flow \in DOMAIN flows
    /\ r.kind = "contain" /\ r.pc \in {"probe", "applied"} => range.rules > 0
    /\ r.pc = "rolled_back" => range.rules = 0
    /\ r.pc = "reply" /\ r.outcome = "applied" =>
          range.rules > 0 /\ flows[r.flow].containment = "applied"
    /\ r.pc = "reply" /\ r.outcome = "rolled_back" =>
          range.rules = 0 /\ flows[r.flow].containment = "rolled_back"

EventAlone(r) ==
    r.kind = "sensor" =>
        /\ r.pc \in Stitching \cup {"event_campaign"} => BridgeRows(r.shape) # {}
        /\ r.pc \in Stitching => r.shape \in campaigns
        /\ r.pc = "reply" /\ r.outcome \in {"stored", "duplicate"} =>
              BridgeRows(r.shape) # {} /\ (r.outcome = "stored" => r.shape \in campaigns)

ScenarioAlone(r) ==
    r.kind = "scenarios" =>
        /\ r.pc # "seed_insert"
        /\ r.pc = "scenario_insert" => ScenarioRows = {}
        /\ \/ r.pc \in Stitching \cup Sensing \cup {"candidate", "seed", "notable"}
           \/ r.pc = "reply" /\ r.outcome = "correlated"
           => \E f \in DOMAIN flows : ScenarioRows = {f}

AloneTrue(r) == RecordsAlone(r) /\ RangeAlone(r) /\ EventAlone(r) /\ ScenarioAlone(r)

TrueRequest(r, p) ==
    /\ DOMAIN r = RequestFields
    /\ Control(r) /\ Responds(r) /\ Awaits(r, p) /\ Advises(r)
    /\ r.alone => AloneTrue(r)
RequestTrue(t) ==
    req[t] # Idle => TrueRequest(req[t], post[t]) /\ (req[t].alone => Alone(t))
PostTrue(t) == post[t] # NoPost => Contracted(post[t])

(* The inductive invariant of the console. *)
ConsoleInv == SharedTrue /\ \A t \in Threads : RequestTrue(t) /\ PostTrue(t)

-----------------------------------------------------------------------------
(* What other threads rely on only grows: playbooks stay approved, for the   *)
(* row they were made for, cases and log entries stay, keys stay answered.   *)
Grows ==
    /\ \A b \in DOMAIN books :
          /\ b \in DOMAIN books' /\ books'[b].candidate = books[b].candidate
          /\ books[b].state = "approved" =>
                /\ books'[b].state = "approved" /\ books'[b].version = books[b].version
                /\ books[b].timed => books'[b].timed
    /\ \A c \in DOMAIN cases : c \in DOMAIN cases' /\ cases'[c] = cases[c]
    /\ keys.answered \subseteq keys'.answered /\ keys.unsure \subseteq keys'.unsure
    /\ notes.log \subseteq notes'.log

(* What thread t does is not seen in the place of another thread. *)
Elsewhere(t) ==
    /\ DOMAIN req' = Threads /\ DOMAIN post' = Threads
    /\ \A u \in Threads \ {t} : req'[u] = req[u] /\ post'[u] = post[u]

(* A request keeps what it knows while the others only add to it, except     *)
(* that it is no longer alone.                                               *)
LEMMA OtherRequest ==
    ASSUME ConsoleInv, Grows, NEW u \in Threads, req[u] # Idle, NEW r,
           DOMAIN r = RequestFields, \A x \in RequestFields \ {"alone"} : r[x] = req[u][x],
           ~r.alone, post'[u] = post[u]
    PROVE  TrueRequest(r, post[u])'
  <1> DEFINE q == req[u]
  <1>1. /\ DOMAIN q = RequestFields /\ Control(q) /\ Responds(q) /\ Awaits(q, post[u])
        /\ Advises(q)
    BY DEF ConsoleInv, RequestTrue, TrueRequest
  <1>2. /\ r.kind = q.kind /\ r.pc = q.pc /\ r.flow = q.flow /\ r.shape = q.shape
        /\ r.actor = q.actor /\ r.row = q.row /\ r.book = q.book /\ r.case = q.case
        /\ r.todo = q.todo /\ r.read = q.read /\ r.outcome = q.outcome
        /\ r.brief = q.brief /\ r.then = q.then
    BY DEF RequestFields
  <1> HIDE DEF q
  <1>3. Control(r)
    BY <1>1, <1>2 DEF Control
  <1>4. Responds(r)'
    BY <1>1, <1>2 DEF Responds, Grows, Approved, Key, Calling
  <1>5. Advises(r)'
    BY <1>1, <1>2 DEF Advises, Grows
  <1>6. Awaits(r, post[u])'
    BY <1>1, <1>2 DEF Awaits
  <1> QED
    BY <1>3, <1>4, <1>5, <1>6 DEF TrueRequest, Control

(* So does a contract request. *)
LEMMA OtherPost ==
    ASSUME ConsoleInv, Grows, NEW u \in Threads, post'[u] = post[u]
    PROVE  PostTrue(u)'
  <1>1. PostTrue(u)
    BY DEF ConsoleInv
  <1> QED
    BY <1>1 DEF PostTrue, Contracted, Grows, Approved, Key

(* A step of one thread keeps the invariant when it keeps its own part. *)
LEMMA ThreadMoves ==
    ASSUME ConsoleInv, SharedTrue', Grows, NEW t \in Threads, ~Quiet(t), Elsewhere(t),
           PostTrue(t)',
           req'[t] # Idle => TrueRequest(req[t], post[t])'
                             /\ (req'[t].alone => req[t] # Idle /\ req[t].alone)
    PROVE  ConsoleInv'
  <1>1. ASSUME NEW u \in Threads \ {t} PROVE RequestTrue(u)' /\ PostTrue(u)'
    <2>1. req'[u] = req[u] /\ post'[u] = post[u]
      BY DEF Elsewhere
    <2>2. PostTrue(u)'
      BY <2>1, OtherPost
    <2>3. CASE req[u] = Idle
      BY <2>1, <2>2, <2>3 DEF RequestTrue, Idle
    <2>4. CASE req[u] # Idle
      <3>1. DOMAIN req[u] = RequestFields /\ ~req[u].alone
        BY <2>4 DEF ConsoleInv, RequestTrue, TrueRequest, Alone
      <3>2. TrueRequest(req[u], post[u])'
        <4>1. PICK r : r = req[u]
          OBVIOUS
        <4>2. TrueRequest(r, post[u])'
          BY <2>1, <2>4, <3>1, <4>1, OtherRequest
        <4> QED
          BY <2>1, <4>1, <4>2
      <3> QED
        BY <2>1, <2>2, <3>1, <3>2 DEF RequestTrue
    <2> QED BY <2>3, <2>4
  <1>2. RequestTrue(t)'
    <2>1. ASSUME req'[t] # Idle, req'[t].alone PROVE Alone(t)'
      <3>1. Alone(t)
        BY <2>1 DEF ConsoleInv, RequestTrue
      <3> QED
        BY <3>1 DEF Alone, Quiet, Elsewhere, Idle, NoPost
    <2> QED
      BY <2>1 DEF RequestTrue
  <1> QED
    BY <1>1, <1>2 DEF ConsoleInv

(* Nothing that threads share changes. *)
Still == UNCHANGED <<flows, lastId, books, keys, cases, range, notes>>

(* What a step that leaves the tables alone leaves true of them. *)
LEMMA StillShared ==
    ASSUME ConsoleInv, Still, DOMAIN req' = Threads, DOMAIN post' = Threads
    PROVE  SharedTrue' /\ Grows
  <1>1. SharedTrue
    BY DEF ConsoleInv
  <1>2. /\ flows' = flows /\ lastId' = lastId /\ books' = books /\ keys' = keys
        /\ cases' = cases /\ range' = range /\ notes' = notes
    BY DEF Still
  <1>3. RowsTrue' /\ LedgerTrue' /\ KeysTrue' /\ RangeTrue'
    BY <1>1, <1>2 DEF SharedTrue, RowsTrue, LedgerTrue, KeysTrue, RangeTrue, Approved
  <1>4. ReceiptsTrue' /\ NotesTrue' /\ TriageLogged'
    BY <1>1, <1>2 DEF SharedTrue, ReceiptsTrue, NotesTrue, TriageLogged, Key
  <1>5. Grows
    BY <1>2 DEF Grows
  <1> QED
    BY <1>3, <1>4, <1>5 DEF SharedTrue

(* The request of one thread goes on, its contract request does not. *)
LEMMA RequestMoves ==
    ASSUME ConsoleInv, SharedTrue', Grows, NEW t \in Threads, req[t] # Idle, NEW r,
           req' = [req EXCEPT ![t] = r], post' = post,
           r = Idle \/ (TrueRequest(r, post[t])' /\ (r.alone => req[t].alone))
    PROVE  ConsoleInv'
  <1>1. DOMAIN req = Threads /\ DOMAIN post = Threads
    BY DEF ConsoleInv, SharedTrue
  <1>2. Elsewhere(t) /\ req'[t] = r /\ ~Quiet(t)
    BY <1>1 DEF Elsewhere, Quiet
  <1>3. PostTrue(t)'
    BY OtherPost
  <1>4. req'[t] # Idle => TrueRequest(req[t], post[t])'
                          /\ (req'[t].alone => req[t] # Idle /\ req[t].alone)
    BY <1>2
  <1> QED
    BY <1>2, <1>3, <1>4, ThreadMoves

(* A step that changes only where a request is keeps the invariant when the *)
(* request is true in its new place.                                        *)
LEMMA ControlMoves ==
    ASSUME ConsoleInv, Still, NEW t \in Threads, req[t] # Idle, NEW r,
           req' = [req EXCEPT ![t] = r], post' = post,
           r = Idle \/ (TrueRequest(r, post[t])' /\ (r.alone => req[t].alone))
    PROVE  ConsoleInv'
  <1>1. DOMAIN req' = Threads /\ DOMAIN post' = Threads
    BY DEF ConsoleInv, SharedTrue
  <1> QED
    BY <1>1, StillShared, RequestMoves

(* What a request carries from one place to the next. *)
Carries(r, q) ==
    /\ DOMAIN r = RequestFields
    /\ r.kind = q.kind /\ r.alone = q.alone /\ r.flow = q.flow /\ r.shape = q.shape
    /\ r.actor = q.actor /\ r.row = q.row /\ r.book = q.book /\ r.case = q.case
    /\ r.todo = q.todo /\ r.read = q.read /\ r.brief = q.brief /\ r.then = q.then

(* What is known of a request under way. *)
LEMMA RequestKnown ==
    ASSUME ConsoleInv, NEW t \in Threads, req[t] # Idle
    PROVE  /\ DOMAIN req[t] = RequestFields
           /\ Control(req[t]) /\ Responds(req[t]) /\ Awaits(req[t], post[t]) /\ Advises(req[t])
           /\ req[t].alone => Alone(t) /\ AloneTrue(req[t])
  BY DEF ConsoleInv, RequestTrue, TrueRequest

(* A request that goes on carries what it knows with it. *)
LEMMA GotoCarries ==
    ASSUME ConsoleInv, NEW t \in Threads, req[t] # Idle, NEW pc, Goto(t, pc)
    PROVE  \E r : /\ req' = [req EXCEPT ![t] = r] /\ Carries(r, req[t])
                  /\ r.pc = pc /\ r.outcome = req[t].outcome
  <1>1. DOMAIN req[t] = RequestFields /\ DOMAIN req = Threads
    BY RequestKnown DEF ConsoleInv, SharedTrue
  <1> DEFINE r == [req[t] EXCEPT !.pc = pc]
  <1>2. req' = [req EXCEPT ![t] = r]
    BY DEF Goto
  <1>3. Carries(r, req[t]) /\ r.pc = pc /\ r.outcome = req[t].outcome
    BY <1>1 DEF Carries, RequestFields
  <1> QED
    BY <1>2, <1>3

MovesTo(t, pc, outcome) == req' = [req EXCEPT ![t].pc = pc, ![t].outcome = outcome]

(* So does one that answers. *)
LEMMA AnswerCarries ==
    ASSUME ConsoleInv, NEW t \in Threads, req[t] # Idle, NEW pc, NEW outcome,
           MovesTo(t, pc, outcome)
    PROVE  \E r : /\ req' = [req EXCEPT ![t] = r] /\ Carries(r, req[t])
                  /\ r.pc = pc /\ r.outcome = outcome
  <1>1. DOMAIN req[t] = RequestFields /\ DOMAIN req = Threads
    BY RequestKnown DEF ConsoleInv, SharedTrue
  <1> DEFINE r == [req[t] EXCEPT !.pc = pc, !.outcome = outcome]
  <1>2. req' = [req EXCEPT ![t] = r]
    BY <1>1 DEF MovesTo
  <1>3. Carries(r, req[t]) /\ r.pc = pc /\ r.outcome = outcome
    BY <1>1 DEF Carries, RequestFields
  <1> QED
    BY <1>2, <1>3

-----------------------------------------------------------------------------
(* The outcomes that the properties are about. *)
Heeded == {"recorded", "gemini_grounded", "grounded_brief", "applied", "rolled_back"}
Noticed == Heeded \cup {"stored", "duplicate", "correlated"}

(* A request at the end with any other outcome. *)
LEMMA PlainReply ==
    ASSUME NEW r, NEW t, DOMAIN r = RequestFields, r.flow \in Nat, r.pc = "reply",
           r.outcome \notin Noticed
    PROVE  TrueRequest(r, post[t])'
  <1>1. Control(r)
    BY DEF Control, Sensing, Seeding, Stitching, Calling
  <1>2. Responds(r)' /\ Awaits(r, post[t])' /\ Advises(r)'
    BY DEF Responds, Awaits, Advises, Calling, Noticed, Heeded
  <1>3. RecordsAlone(r)' /\ RangeAlone(r)'
    BY DEF RecordsAlone, RangeAlone, Noticed, Heeded
  <1>4. EventAlone(r)' /\ ScenarioAlone(r)'
    BY DEF EventAlone, ScenarioAlone, Noticed, Heeded, Stitching, Sensing
  <1> QED
    BY <1>1, <1>2, <1>3, <1>4 DEF TrueRequest, AloneTrue, Control

(* An outcome nobody relies on can always be answered, whatever else the step *)
(* did.                                                                       *)
LEMMA Refuses ==
    ASSUME ConsoleInv, SharedTrue', Grows, NEW t \in Threads, req[t] # Idle, post' = post,
           NEW outcome, outcome \notin Noticed, Answer(t, outcome)
    PROVE  ConsoleInv'
  <1>0. MovesTo(t, "reply", outcome)
    BY DEF Answer, MovesTo
  <1>1. PICK r : /\ req' = [req EXCEPT ![t] = r] /\ Carries(r, req[t])
                 /\ r.pc = "reply" /\ r.outcome = outcome
    BY <1>0, AnswerCarries
  <1>2. r.flow \in Nat
    BY <1>1, RequestKnown DEF Carries, Control
  <1>3. TrueRequest(r, post[t])'
    BY <1>1, <1>2, PlainReply DEF Carries
  <1> QED
    BY <1>1, <1>3, RequestMoves DEF Carries

(* Also by a step that did nothing else. *)
LEMMA RefusesStill ==
    ASSUME ConsoleInv, Still, NEW t \in Threads, req[t] # Idle, post' = post,
           NEW outcome, outcome \notin Noticed, Answer(t, outcome)
    PROVE  ConsoleInv'
  <1>1. DOMAIN req' = Threads /\ DOMAIN post' = Threads
    BY DEF ConsoleInv, SharedTrue, Answer
  <1> QED
    BY <1>1, StillShared, Refuses

-----------------------------------------------------------------------------
(* A request begins: with what it was asked, and nothing else; whoever runs  *)
(* is no longer alone.                                                       *)
Given == {"pc", "shape", "todo", "actor", "then", "flow"}

(* What a new request starts with. *)
LEMMA BeginCarries ==
    ASSUME ConsoleInv, NEW t \in Threads, NEW kind, NEW fields, Begin(t, kind, fields),
           DOMAIN fields \subseteq Given
    PROVE  /\ DOMAIN req' = Threads /\ DOMAIN req'[t] = RequestFields
           /\ \A x \in DOMAIN fields : req'[t][x] = fields[x]
           /\ req'[t].kind = kind /\ req'[t].outcome = None /\ (req'[t].alone <=> Alone(t))
           /\ "flow" \notin DOMAIN fields => req'[t].flow = 0
           /\ "then" \notin DOMAIN fields => req'[t].then = "reply"
           /\ \A u \in Threads \ {t} :
                 req'[u] = IF req[u] = Idle THEN Idle ELSE [req[u] EXCEPT !.alone = FALSE]
  <1>1. DOMAIN req = Threads
    BY DEF ConsoleInv, SharedTrue
  <1> QED
    BY <1>1 DEF Begin, Over, Disturbed, RequestFields, Given

(* A request that has just begun has nothing to show yet. *)
LEMMA Starts ==
    ASSUME NEW r, NEW t, DOMAIN r = RequestFields, r.outcome = None, Control(r),
           r.pc \in {"event", "rows", "scenario", "purge", "correlate", "reply", "look",
                     "triage", "note", "advice", "handoff_row", "approve", "dispatch",
                     "contain", "rollback"},
           r.pc = "correlate" => r.kind = "correlate",
           r.pc = "event" => r.kind = "sensor"
    PROVE  TrueRequest(r, post[t])'
  <1>0. r.outcome \notin Noticed
    BY ConsoleAssumption DEF Noticed, Heeded
  <1>1. Responds(r)' /\ Awaits(r, post[t])' /\ Advises(r)'
    BY <1>0 DEF Responds, Awaits, Advises, Calling, Noticed, Heeded
  <1>2. RecordsAlone(r)'
    BY <1>0 DEF RecordsAlone, Noticed, Heeded
  <1>3. RangeAlone(r)'
    BY <1>0 DEF RangeAlone, Noticed, Heeded
  <1>4. EventAlone(r)' /\ ScenarioAlone(r)'
    BY <1>0 DEF EventAlone, ScenarioAlone, Noticed, Heeded, Stitching, Sensing
  <1> QED
    BY <1>1, <1>2, <1>3, <1>4 DEF TrueRequest, AloneTrue, Control

(* A route that begins a request keeps the invariant. *)
LEMMA BeginMoves ==
    ASSUME ConsoleInv, Still, post' = post, NEW t \in Threads, NEW kind, NEW fields,
           Begin(t, kind, fields), DOMAIN fields \subseteq Given, Control(req[t])',
           req'[t].pc \in {"event", "rows", "scenario", "purge", "correlate", "reply", "look",
                     "triage", "note", "advice", "handoff_row", "approve", "dispatch",
                     "contain", "rollback"},
           req'[t].pc = "correlate" => kind = "correlate",
           req'[t].pc = "event" => kind = "sensor"
    PROVE  ConsoleInv'
  <1>1. DOMAIN req' = Threads /\ DOMAIN post' = Threads
    BY BeginCarries DEF ConsoleInv, SharedTrue
  <1>2. SharedTrue' /\ Grows
    BY <1>1, StillShared
  <1>3. ASSUME NEW u \in Threads PROVE PostTrue(u)'
    BY <1>2, OtherPost
  <1>4. Quiet(t)
    BY DEF Begin, MayBegin
  <1>5. ASSUME NEW u \in Threads \ {t} PROVE RequestTrue(u)'
    <2>1. req'[u] = IF req[u] = Idle THEN Idle ELSE [req[u] EXCEPT !.alone = FALSE]
      BY BeginCarries
    <2>2. CASE req[u] = Idle
      BY <2>1, <2>2 DEF RequestTrue, Idle
    <2>3. CASE req[u] # Idle
      <3>1. DOMAIN req[u] = RequestFields
        BY <2>3, RequestKnown
      <3>2. PICK r : r = [req[u] EXCEPT !.alone = FALSE]
        OBVIOUS
      <3>3. /\ DOMAIN r = RequestFields /\ ~r.alone
            /\ \A x \in RequestFields \ {"alone"} : r[x] = req[u][x]
        BY <3>1, <3>2 DEF RequestFields
      <3>4. TrueRequest(r, post[u])'
        BY <1>2, <2>3, <3>3, OtherRequest
      <3>5. req'[u] = r
        BY <2>1, <2>3, <3>2
      <3> QED
        BY <3>3, <3>4, <3>5 DEF RequestTrue
    <2> QED BY <2>2, <2>3
  <1>6. RequestTrue(t)'
    <2>1. TrueRequest(req[t], post[t])'
      <3>1. PICK r : r = req'[t]
        OBVIOUS
      <3>2. DOMAIN r = RequestFields /\ r.outcome = None /\ Control(r) /\ r.kind = kind
        BY <3>1, BeginCarries
      <3>3. TrueRequest(r, post[t])'
        BY <3>1, <3>2, Starts
      <3> QED
        BY <3>1, <3>3
    <2>2. req'[t].alone => Alone(t)'
      <3>1. req'[t].alone => Alone(t)
        BY BeginCarries
      <3>2. \A u \in Threads \ {t} : req[u] = Idle => req'[u] = Idle
        BY BeginCarries
      <3> QED
        BY <3>1, <3>2 DEF Alone, Quiet, Idle, NoPost
    <2> QED BY <2>1, <2>2 DEF RequestTrue
  <1> QED
    BY <1>2, <1>3, <1>5, <1>6 DEF ConsoleInv

(* The routes. *)
LEMMA BeginIntakeStill ==
    ASSUME NEW t, NEW kind, NEW fields, BeginIntake(t, kind, fields)
    PROVE  Still /\ post' = post /\ Begin(t, kind, fields)
  BY DEF BeginIntake, Still, Rest

(* The sensor route. *)
LEMMA SensorBegins ==
    ASSUME ConsoleInv, NEW t \in Threads, NEW s \in Shapes,
           BeginIntake(t, "sensor", [pc |-> "event", shape |-> s])
    PROVE  ConsoleInv'
  <1> DEFINE fields == [pc |-> "event", shape |-> s]
  <1>1. Still /\ post' = post /\ Begin(t, "sensor", fields)
    BY BeginIntakeStill
  <1>2. DOMAIN fields \subseteq Given
    BY DEF Given
  <1>3. /\ req'[t].pc = "event" /\ req'[t].shape = s /\ req'[t].then = "reply"
        /\ req'[t].kind = "sensor" /\ req'[t].outcome = None /\ req'[t].flow = 0
    BY <1>1, <1>2, BeginCarries
  <1>4. Control(req[t])'
    BY <1>3 DEF Control, Sensing, Seeding, Stitching, Calling
  <1> HIDE DEF fields
  <1> QED
    BY <1>1, <1>2, <1>3, <1>4, BeginMoves

(* The ingest and replay routes: what they are to store are shapes. *)
LEMMA IngestBegins ==
    ASSUME ConsoleInv, NEW t \in Threads, NEW todo \in Seq(Shapes),
           NEW kind \in {"ingest", "replay"}, NEW actor \in {"replayed", "recorded"},
           BeginIntake(t, kind, [pc |-> "rows", todo |-> todo, actor |-> actor])
    PROVE  ConsoleInv'
  <1> DEFINE fields == [pc |-> "rows", todo |-> todo, actor |-> actor]
  <1>1. Still /\ post' = post /\ Begin(t, kind, fields)
    BY BeginIntakeStill
  <1>2. DOMAIN fields \subseteq Given
    BY DEF Given
  <1>3. /\ req'[t].pc = "rows" /\ req'[t].todo = todo /\ req'[t].actor = actor
        /\ req'[t].kind = kind /\ req'[t].outcome = None /\ req'[t].flow = 0
    BY <1>1, <1>2, BeginCarries
  <1>4. Control(req[t])'
    BY <1>3 DEF Control, Sensing, Seeding, Stitching, Calling
  <1> HIDE DEF fields
  <1> QED
    BY <1>1, <1>2, <1>3, <1>4, BeginMoves

(* Every route by which rows come in or go. *)
LEMMA IntakeRoutes ==
    ASSUME ConsoleInv, NEW t \in Threads,
           \/ SensorRoute(t) \/ IngestRoute(t) \/ ReplayRoute(t)
           \/ ScenariosRoute(t) \/ PurgeRoute(t) \/ ScanRoute(t)
    PROVE  ConsoleInv'
  <1>1. CASE SensorRoute(t)
    BY <1>1, SensorBegins DEF SensorRoute
  <1>2. CASE IngestRoute(t)
    <2>1. PICK s \in Supplied :
              BeginIntake(t, "ingest", [pc |-> "rows", todo |-> <<s>>, actor |-> "replayed"])
      BY <1>2 DEF IngestRoute
    <2>2. <<s>> \in Seq(Shapes)
      BY ConsoleAssumption
    <2> QED
      BY <2>1, <2>2, IngestBegins
  <1>3. CASE ReplayRoute(t)
    <2>1. PICK todo : todo = [i \in 1 .. BurstSize |-> Recorded]
      OBVIOUS
    <2>2. todo \in Seq(Shapes)
      BY <2>1, ConsoleAssumption
    <2>3. BeginIntake(t, "replay", [pc |-> "rows", todo |-> todo, actor |-> "recorded"])
      BY <1>3, <2>1 DEF ReplayRoute
    <2> QED
      BY <2>2, <2>3, IngestBegins
  <1>4. CASE ScenariosRoute(t)
    <2> DEFINE fields == [pc |-> "scenario", then |-> "correlate"]
    <2>1. Still /\ post' = post /\ Begin(t, "scenarios", fields)
      BY <1>4, BeginIntakeStill DEF ScenariosRoute
    <2>2. DOMAIN fields \subseteq Given
      BY DEF Given
    <2>3. /\ req'[t].pc = "scenario" /\ req'[t].then = "correlate"
          /\ req'[t].kind = "scenarios" /\ req'[t].outcome = None /\ req'[t].flow = 0
      BY <2>1, <2>2, BeginCarries
    <2>4. Control(req[t])'
      BY <2>3 DEF Control, Sensing, Seeding, Stitching, Calling
    <2> HIDE DEF fields
    <2> QED
      BY <2>1, <2>2, <2>3, <2>4, BeginMoves
  <1>5. CASE PurgeRoute(t) \/ ScanRoute(t)
    <2> DEFINE fields == [pc |-> "purge"]
    <2>1. PICK kind \in {"purge", "scan"} : BeginIntake(t, kind, fields)
      BY <1>5 DEF PurgeRoute, ScanRoute
    <2>2. Still /\ post' = post /\ Begin(t, kind, fields)
      BY <2>1, BeginIntakeStill
    <2>3. DOMAIN fields \subseteq Given
      BY DEF Given
    <2>4. /\ req'[t].pc = "purge" /\ req'[t].then = "reply"
          /\ req'[t].kind = kind /\ req'[t].outcome = None /\ req'[t].flow = 0
      BY <2>2, <2>3, BeginCarries
    <2>5. Control(req[t])'
      BY <2>4 DEF Control, Sensing, Seeding, Stitching, Calling
    <2> HIDE DEF fields
    <2> QED
      BY <2>2, <2>3, <2>4, <2>5, BeginMoves
  <1> QED
    BY <1>1, <1>2, <1>3, <1>4, <1>5

(* A request about a row that was given an id. *)
LEMMA FlowBegins ==
    ASSUME ConsoleInv, Still, post' = post, NEW t \in Threads, NEW kind, NEW fields,
           Begin(t, kind, fields), DOMAIN fields \subseteq Given, {"pc", "flow"} \subseteq DOMAIN fields,
           fields.flow \in Nat,
           \/ fields.pc = "look" /\ kind \in {"verdict", "assignment", "memory"}
                /\ "then" \in DOMAIN fields /\ fields.then = kind
           \/ fields.pc = kind /\ kind \in {"triage", "note", "approve", "dispatch", "contain", "rollback"}
           \/ fields.pc \in {"advice", "handoff_row", "reply"}
    PROVE  ConsoleInv'
  <1>1. /\ req'[t].pc = fields.pc /\ req'[t].flow = fields.flow
        /\ "then" \in DOMAIN fields => req'[t].then = fields.then
        /\ req'[t].kind = kind /\ req'[t].outcome = None
    BY BeginCarries
  <1>2. Control(req[t])'
    BY <1>1 DEF Control, Sensing, Seeding, Stitching, Calling
  <1> QED
    BY <1>1, <1>2, BeginMoves

(* The routes of analyst records. *)
LEMMA RecordRoutes ==
    ASSUME ConsoleInv, NEW t \in Threads,
           \/ VerdictRoute(t) \/ AssignmentRoute(t) \/ MemoryRoute(t) \/ TriageRoute(t)
           \/ NotesRoute(t)
    PROVE  ConsoleInv'
  <1>1. lastId \in Nat
    BY DEF ConsoleInv, SharedTrue, RowsTrue
  <1>2. ASSUME NEW kind, NEW pc, BeginRecord(t, kind, pc),
               \/ pc = "look" /\ kind \in {"verdict", "assignment", "memory"}
               \/ pc = kind /\ kind \in {"triage", "note"}
        PROVE  ConsoleInv'
    <2>1. PICK f \in 1 .. lastId, a \in Actors :
              Begin(t, kind, [pc |-> pc, then |-> kind, flow |-> f, actor |-> a])
      BY <1>2 DEF BeginRecord
    <2>2. PICK fields : fields = [pc |-> pc, then |-> kind, flow |-> f, actor |-> a]
      OBVIOUS
    <2>3. Still /\ post' = post /\ Begin(t, kind, fields)
      BY <1>2, <2>1, <2>2 DEF BeginRecord, Still
    <2>4. /\ DOMAIN fields \subseteq Given /\ {"pc", "flow", "then"} \subseteq DOMAIN fields
          /\ fields.pc = pc /\ fields.flow \in Nat /\ fields.then = kind
      BY <1>1, <2>2 DEF Given
    <2> QED
      BY <1>2, <2>3, <2>4, FlowBegins
  <1> QED
    BY <1>2 DEF VerdictRoute, AssignmentRoute, MemoryRoute, TriageRoute, NotesRoute

(* The routes of the response. *)
LEMMA ResponseRoutes ==
    ASSUME ConsoleInv, NEW t \in Threads, ApproveRoute(t) \/ DispatchRoute(t) \/ RangeRoute(t)
    PROVE  ConsoleInv'
  <1>1. lastId \in Nat
    BY DEF ConsoleInv, SharedTrue, RowsTrue
  <1>2. ASSUME NEW kind \in {"approve", "dispatch", "contain", "rollback"}, NEW actors,
               BeginResponse(t, kind, actors)
        PROVE  ConsoleInv'
    <2>1. PICK f \in 1 .. lastId, a \in actors :
              Begin(t, kind, [pc |-> kind, flow |-> f, actor |-> a])
      BY <1>2 DEF BeginResponse
    <2>2. PICK fields : fields = [pc |-> kind, flow |-> f, actor |-> a]
      OBVIOUS
    <2>3. Still /\ post' = post /\ Begin(t, kind, fields)
      BY <1>2, <2>1, <2>2 DEF BeginResponse, Still
    <2>4. /\ DOMAIN fields \subseteq Given /\ {"pc", "flow"} \subseteq DOMAIN fields
          /\ fields.pc = kind /\ fields.flow \in Nat
      BY <1>1, <2>2 DEF Given
    <2> QED
      BY <2>3, <2>4, FlowBegins
  <1> QED
    BY <1>2 DEF ApproveRoute, DispatchRoute, RangeRoute

(* The copilot's routes. *)
LEMMA AdviceRoutes ==
    ASSUME ConsoleInv, NEW t \in Threads, CopilotRoute(t) \/ HandoffRoute(t)
    PROVE  ConsoleInv'
  <1>1. lastId \in Nat
    BY DEF ConsoleInv, SharedTrue, RowsTrue
  <1>2. Still /\ post' = post
    BY DEF CopilotRoute, HandoffRoute, AdviceOnly, Still
  <1>3. ASSUME NEW kind, NEW pc \in {"advice", "handoff_row"}, NEW f \in 1 .. lastId,
               Begin(t, kind, [pc |-> pc, flow |-> f])
        PROVE  ConsoleInv'
    <2>1. PICK fields : fields = [pc |-> pc, flow |-> f]
      OBVIOUS
    <2>2. /\ DOMAIN fields \subseteq Given /\ {"pc", "flow"} \subseteq DOMAIN fields
          /\ fields.pc \in {"advice", "handoff_row"} /\ fields.flow \in Nat
      BY <1>1, <2>1 DEF Given
    <2>3. Begin(t, kind, fields)
      BY <1>3, <2>1
    <2> QED
      BY <1>2, <2>2, <2>3, FlowBegins
  <1>4. CASE CopilotRoute(t)
    BY <1>3, <1>4 DEF CopilotRoute
  <1>5. CASE HandoffRoute(t)
    BY <1>3, <1>5 DEF HandoffRoute
  <1> QED
    BY <1>4, <1>5

(* The routes of the stitch and of an analyst's correction. *)
LEMMA StitchRoutes ==
    ASSUME ConsoleInv, NEW t \in Threads,
           \/ BeginCorrelate(t)
           \/ \E a \in DOMAIN flows, id \in CorrectionIds : Correct(t, a, id)
    PROVE  ConsoleInv'
  <1>1. CASE BeginCorrelate(t)
    <2>1. PICK fields : fields = [pc |-> "correlate"]
      OBVIOUS
    <2>2. Still /\ post' = post /\ Begin(t, "correlate", fields)
      BY <1>1, <2>1 DEF BeginCorrelate, Still
    <2>3. DOMAIN fields \subseteq Given /\ fields.pc = "correlate" /\ DOMAIN fields = {"pc"}
      BY <2>1 DEF Given
    <2>4. /\ req'[t].pc = "correlate" /\ req'[t].kind = "correlate"
          /\ req'[t].outcome = None /\ req'[t].flow = 0
      BY <2>2, <2>3, BeginCarries
    <2>5. Control(req[t])'
      BY <2>4 DEF Control, Sensing, Seeding, Stitching, Calling
    <2> QED
      BY <2>2, <2>3, <2>4, <2>5, BeginMoves
  <1>2. ASSUME NEW a \in DOMAIN flows, NEW id, Correct(t, a, id) PROVE ConsoleInv'
    <2>1. PICK fields : fields = [pc |-> "reply", flow |-> a]
      OBVIOUS
    <2>2. Still /\ post' = post /\ Begin(t, "correct", fields)
      BY <1>2, <2>1 DEF Correct, Still
    <2>3. a \in Nat
      BY DEF ConsoleInv, SharedTrue, RowsTrue
    <2>4. /\ DOMAIN fields \subseteq Given /\ {"pc", "flow"} \subseteq DOMAIN fields
          /\ fields.pc = "reply" /\ fields.flow \in Nat
      BY <2>1, <2>3 DEF Given
    <2> QED
      BY <2>2, <2>4, FlowBegins
  <1> QED
    BY <1>1, <1>2

-----------------------------------------------------------------------------
(* A set of numbers has a smallest one. *)
LEMMA SmallestOf ==
    ASSUME NEW T, T \subseteq Nat, T # {}
    PROVE  \E x \in T : \A y \in T : x <= y
  <1> DEFINE R == OpToRel(<, Nat)
  <1>1. IsWellFoundedOn(R, Nat)
    BY NatLessThanWellFounded
  <1> HIDE DEF R
  <1>2. PICK x \in T : \A y \in T : ~(<<y, x>> \in R)
    BY <1>1, WFMin
  <1>3. \A y \in T : ~(y < x)
    BY <1>2 DEF R, OpToRel
  <1> QED
    BY <1>3

(* Rows are deleted, or columns written that nothing is concluded from. *)
Rewrites ==
    /\ lastId' = lastId /\ DOMAIN flows' \subseteq DOMAIN flows
    /\ \A f \in DOMAIN flows' :
          /\ DOMAIN flows'[f] = RowFields /\ flows'[f].label = flows[f].label
          /\ flows'[f].shape = flows[f].shape /\ flows'[f].event = flows[f].event
          /\ flows'[f].born = flows[f].born

(* Rewriting fields of rows keeps what no field rewritten tells. *)
LEMMA RewriteKeeps ==
    ASSUME ConsoleInv, Rewrites, UNCHANGED <<books, keys, cases, range, notes>>,
           \A f \in DOMAIN flows' : /\ flows'[f].recorded = flows[f].recorded
                                    /\ flows'[f].triage = flows[f].triage,
           DOMAIN req' = Threads, DOMAIN post' = Threads
    PROVE  SharedTrue' /\ Grows
  <1>1. SharedTrue
    BY DEF ConsoleInv
  <1>2. RowsTrue'
    BY <1>1 DEF SharedTrue, RowsTrue, Rewrites
  <1>3. LedgerTrue' /\ KeysTrue' /\ NotesTrue' /\ RangeTrue'
    BY <1>1 DEF SharedTrue, LedgerTrue, KeysTrue, NotesTrue, RangeTrue, Approved
  <1>4. ReceiptsTrue'
    BY <1>1 DEF SharedTrue, ReceiptsTrue, Key, Rewrites
  <1>5. TriageLogged'
    BY <1>1 DEF SharedTrue, TriageLogged, Rewrites
  <1>6. Grows
    BY DEF Grows
  <1> QED
    BY <1>2, <1>3, <1>4, <1>5, <1>6 DEF SharedTrue

(* A row is added under an id that was never given. *)
LEMMA InsertKeeps ==
    ASSUME ConsoleInv, NEW label, NEW s \in Shapes, NEW e, Insert(label, s, e),
           label = "scenario" => s \in {Scenario, Recorded},
           e # None => \A f \in DOMAIN flows : flows[f].event # e,
           UNCHANGED <<books, keys, cases, range, notes>>,
           DOMAIN req' = Threads, DOMAIN post' = Threads
    PROVE  /\ SharedTrue' /\ Grows
           /\ DOMAIN flows' = DOMAIN flows \cup {lastId + 1} /\ lastId + 1 \notin DOMAIN flows
           /\ \A f \in DOMAIN flows : flows'[f] = flows[f]
           /\ flows'[lastId + 1].label = label /\ flows'[lastId + 1].event = e
  <1>1. SharedTrue
    BY DEF ConsoleInv
  <1>2. /\ lastId \in Nat /\ lastId' = lastId + 1 /\ DOMAIN flows' = DOMAIN flows \cup {lastId + 1}
        /\ DOMAIN flows \subseteq 1 .. lastId /\ lastId + 1 \notin DOMAIN flows
        /\ \A f \in DOMAIN flows : flows'[f] = flows[f]
        /\ flows'[lastId + 1] = Row(label, s, e, lastId + 1)
    BY <1>1 DEF SharedTrue, RowsTrue, Insert, NextFlowId
  <1>3. /\ DOMAIN flows'[lastId + 1] = RowFields /\ flows'[lastId + 1].label = label
        /\ flows'[lastId + 1].shape = s /\ flows'[lastId + 1].event = e
        /\ flows'[lastId + 1].born = lastId + 1 /\ flows'[lastId + 1].recorded = 0
        /\ flows'[lastId + 1].triage = None
    BY <1>2 DEF Row, RowFields
  <1>4. RowsTrue'
    <2>1. lastId' \in Nat /\ DOMAIN flows' \subseteq 1 .. lastId'
      BY <1>2
    <2>2. \A f \in DOMAIN flows' :
              /\ DOMAIN flows'[f] = RowFields /\ flows'[f].born = f /\ flows'[f].shape \in Shapes
              /\ flows'[f].label = "scenario" => flows'[f].shape \in {Scenario, Recorded}
      BY <1>1, <1>2, <1>3 DEF SharedTrue, RowsTrue
    <2>3. \A f, g \in DOMAIN flows' :
              flows'[f].event = flows'[g].event /\ flows'[f].event # None => f = g
      BY <1>1, <1>2, <1>3 DEF SharedTrue, RowsTrue
    <2> QED
      BY <2>1, <2>2, <2>3 DEF RowsTrue
  <1>5. LedgerTrue' /\ KeysTrue' /\ NotesTrue' /\ RangeTrue'
    BY <1>1 DEF SharedTrue, LedgerTrue, KeysTrue, NotesTrue, RangeTrue, Approved
  <1>6. ReceiptsTrue'
    BY <1>1, <1>2, <1>3 DEF SharedTrue, ReceiptsTrue, Key
  <1>7. TriageLogged'
    BY <1>1, <1>2, <1>3 DEF SharedTrue, TriageLogged
  <1>8. Grows
    BY DEF Grows
  <1> QED
    BY <1>2, <1>3, <1>4, <1>5, <1>6, <1>7, <1>8 DEF SharedTrue

-----------------------------------------------------------------------------
(* A request of the intake or the stitch, wherever it is. *)
LEMMA IntakeRequest ==
    ASSUME NEW r, NEW t, DOMAIN r = RequestFields, Control(r),
           r.kind \in {"sensor", "ingest", "replay", "scenarios", "scan", "purge", "correlate"},
           r.pc \in Sensing \cup Seeding \cup Stitching
                    \cup {"rows", "burst", "purge", "scan", "reply"},
           r.outcome \notin Heeded,
           r.alone => EventAlone(r)' /\ ScenarioAlone(r)'
    PROVE  TrueRequest(r, post[t])'
  <1>1. Responds(r)' /\ Awaits(r, post[t])' /\ Advises(r)'
    BY DEF Responds, Awaits, Advises, Calling, Heeded, Sensing, Seeding, Stitching
  <1>2. RecordsAlone(r)' /\ RangeAlone(r)'
    BY DEF RecordsAlone, RangeAlone, Heeded, Sensing, Seeding, Stitching
  <1> QED
    BY <1>1, <1>2 DEF TrueRequest, AloneTrue, Control

(* What the sensor route and the scenarios leave alone stays as it is. *)
LEMMA RowsSeen ==
    ASSUME ConsoleInv, flows' = flows \/ (Rewrites /\ DOMAIN flows' = DOMAIN flows)
    PROVE  ScenarioRows' = ScenarioRows /\ \A s : BridgeRows(s)' = BridgeRows(s)
  <1>1. CASE flows' = flows
    BY <1>1 DEF ScenarioRows, BridgeRows
  <1>2. CASE Rewrites /\ DOMAIN flows' = DOMAIN flows
    BY <1>2 DEF Rewrites, ScenarioRows, BridgeRows
  <1> QED BY <1>1, <1>2

(* What follows a stored event depends on who asked. *)
LEMMA AfterGoes ==
    ASSUME NEW t, NEW outcome, req' = After(t, outcome)
    PROVE  IF req[t].kind = "sensor"
           THEN MovesTo(t, IF outcome = "stored" THEN "correlate" ELSE "reply", outcome)
           ELSE Goto(t, req[t].then)
  BY DEF After, MovesTo, Goto

-----------------------------------------------------------------------------
(* The steps of the intake and the stitch. *)
LEMMA IntakeGoes ==
    ASSUME ConsoleInv, SharedTrue', Grows, post' = post, NEW t \in Threads, req[t] # Idle, NEW r,
           req' = [req EXCEPT ![t] = r], DOMAIN r = RequestFields, Control(r),
           r.kind \in {"sensor", "ingest", "replay", "scenarios", "scan", "purge", "correlate"},
           r.pc \in Sensing \cup Seeding \cup Stitching
                    \cup {"rows", "burst", "purge", "scan", "reply"},
           r.outcome \notin Heeded, r.alone => req[t].alone,
           r.alone => EventAlone(r)' /\ ScenarioAlone(r)'
    PROVE  ConsoleInv'
  <1>1. TrueRequest(r, post[t])'
    BY IntakeRequest
  <1> QED
    BY <1>1, RequestMoves

(* A request whose outcome is open is heeded by nobody. *)
LEMMA OpenOutcome ==
    ASSUME NEW outcome \in {None, "stored", "approved"}
    PROVE  outcome \notin Heeded
  BY ConsoleAssumption DEF Heeded

(* A step of one thread that touches no table keeps what is shared. *)
LEMMA StillThreads ==
    ASSUME ConsoleInv, Still, post' = post, NEW t, NEW r, req' = [req EXCEPT ![t] = r]
    PROVE  SharedTrue' /\ Grows
  <1>1. DOMAIN req' = Threads /\ DOMAIN post' = Threads
    BY DEF ConsoleInv, SharedTrue
  <1> QED
    BY <1>1, StillShared

(* The sensor's look for a known event. *)
LEMMA SensorReads ==
    ASSUME ConsoleInv, NEW t \in Threads, SensorRead(t)
    PROVE  ConsoleInv'
  <1> DEFINE q == req[t]
  <1>1. Still /\ post' = post /\ req[t] # Idle /\ flows' = flows /\ campaigns' = campaigns
    BY DEF SensorRead, Still, Rest, At
  <1>2. /\ q.pc = "event" /\ DOMAIN q = RequestFields /\ Control(q)
        /\ q.alone => EventAlone(q) /\ ScenarioAlone(q)
    BY <1>1, RequestKnown DEF SensorRead, At, AloneTrue
  <1>3. ScenarioRows' = ScenarioRows /\ \A s : BridgeRows(s)' = BridgeRows(s)
    BY <1>1, RowsSeen
  <1>4. CASE q.kind = "sensor" /\ (\/ BridgeRows(q.shape) # {} /\ req' = After(t, "duplicate")
                                   \/ req' = After(t, "refused"))
    <2>1. PICK outcome \in {"duplicate", "refused"} :
              /\ outcome = "duplicate" => BridgeRows(q.shape) # {}
              /\ MovesTo(t, "reply", outcome)
      BY <1>4, AfterGoes
    <2>2. PICK r : /\ req' = [req EXCEPT ![t] = r] /\ Carries(r, q)
                   /\ r.pc = "reply" /\ r.outcome = outcome
      BY <1>1, <2>1, AnswerCarries
    <2>3. Control(r) /\ r.outcome \notin Heeded
      BY <1>2, <2>2 DEF Control, Carries, Sensing, Seeding, Stitching, Calling, Heeded
    <2>4. EventAlone(r)' /\ ScenarioAlone(r)'
      BY <1>3, <1>4, <2>1, <2>2 DEF EventAlone, ScenarioAlone, Carries, Stitching, Sensing
    <2>5. SharedTrue' /\ Grows
      BY <1>1, <2>2, StillThreads
    <2> QED
      BY <1>1, <1>4, <2>2, <2>3, <2>4, <2>5, IntakeGoes DEF Carries
  <1>5. CASE (q.kind # "sensor" /\ Goto(t, q.then)) \/ Goto(t, "event_insert")
    <2>1. PICK pc \in {"reply", "correlate", "event_insert"} :
              /\ pc \in {"reply", "correlate"} => q.kind # "sensor" /\ pc = q.then
              /\ Goto(t, pc)
      BY <1>2, <1>5 DEF Control, Sensing
    <2>2. PICK r : /\ req' = [req EXCEPT ![t] = r] /\ Carries(r, q)
                   /\ r.pc = pc /\ r.outcome = q.outcome
      BY <1>1, <2>1, GotoCarries
    <2>3. Control(r) /\ r.kind \in {"sensor", "scenarios", "scan"}
      BY <1>2, <2>1, <2>2 DEF Control, Carries, Sensing, Seeding, Stitching, Calling
    <2>4. r.outcome \notin Heeded
      BY <1>2, <2>2, OpenOutcome DEF Control
    <2>5. r.alone => EventAlone(r)' /\ ScenarioAlone(r)'
      BY <1>1, <1>2, <1>3, <2>1, <2>2 DEF EventAlone, ScenarioAlone, Carries, Stitching, Sensing
    <2>6. SharedTrue' /\ Grows
      BY <1>1, <2>2, StillThreads
    <2>7. r.pc \in Sensing \cup Stitching \cup {"reply"}
      BY <2>1, <2>2 DEF Sensing, Stitching
    <2> QED
      BY <1>1, <2>2, <2>3, <2>4, <2>5, <2>6, <2>7, IntakeGoes DEF Carries
  <1> QED
    BY <1>4, <1>5, AfterGoes DEF SensorRead

(* Its row, unless another sender's came first. *)
LEMMA SensorInserts ==
    ASSUME ConsoleInv, NEW t \in Threads, SensorInsert(t)
    PROVE  ConsoleInv'
  <1> DEFINE q == req[t]
  <1>1. /\ post' = post /\ req[t] # Idle /\ campaigns' = campaigns
        /\ UNCHANGED <<books, keys, cases, range, notes>>
    BY DEF SensorInsert, Rest, At
  <1>2. /\ q.pc = "event_insert" /\ DOMAIN q = RequestFields /\ Control(q)
        /\ q.alone => EventAlone(q) /\ ScenarioAlone(q)
    BY <1>1, RequestKnown DEF SensorInsert, At, AloneTrue
  <1>3. CASE Answer(t, "error") /\ UNCHANGED <<flows, lastId>>
    <2>1. Still
      BY <1>1, <1>3 DEF Still
    <2>2. "error" \notin Noticed
      BY DEF Noticed, Heeded
    <2> QED
      BY <1>1, <1>3, <2>1, <2>2, RefusesStill
  <1>4. CASE BridgeRows(q.shape) = {} /\ Insert("bridge", q.shape, q.shape) /\ Goto(t, "event_campaign")
    <2>1. PICK r : /\ req' = [req EXCEPT ![t] = r] /\ Carries(r, q)
                   /\ r.pc = "event_campaign" /\ r.outcome = q.outcome
      BY <1>1, <1>4, GotoCarries
    <2>2. DOMAIN req' = Threads /\ DOMAIN post' = Threads
      BY <1>1, <2>1 DEF ConsoleInv, SharedTrue
    <2>3. q.shape \in Shapes /\ \A f \in DOMAIN flows : flows[f].event # q.shape
      BY <1>2, <1>4 DEF Control, Sensing, BridgeRows
    <2>4. /\ SharedTrue' /\ Grows
          /\ DOMAIN flows' = DOMAIN flows \cup {lastId + 1} /\ lastId + 1 \notin DOMAIN flows
          /\ \A f \in DOMAIN flows : flows'[f] = flows[f]
          /\ flows'[lastId + 1].label = "bridge" /\ flows'[lastId + 1].event = q.shape
      BY <1>1, <1>4, <2>2, <2>3, InsertKeeps
    <2>5. ScenarioRows' = ScenarioRows /\ DOMAIN flows \subseteq DOMAIN flows'
      BY <2>4 DEF ScenarioRows
    <2>6. r.shape = q.shape /\ BridgeRows(r.shape)' # {}
      BY <2>1, <2>4 DEF BridgeRows, Carries
    <2>7. Control(r) /\ r.kind \in {"sensor", "scenarios", "scan"}
      BY <1>2, <2>1 DEF Control, Carries, Sensing, Seeding, Stitching, Calling
    <2>8. r.outcome \notin Heeded
      BY <1>2, <2>1, OpenOutcome DEF Control
    <2>9. r.alone => EventAlone(r)'
      BY <1>1, <2>1, <2>6 DEF EventAlone, Carries, Stitching
    <2>10. r.alone => ScenarioAlone(r)'
      BY <1>2, <2>1, <2>5 DEF ScenarioAlone, Carries, Stitching, Sensing
    <2>11. r.pc \in Sensing
      BY <2>1 DEF Sensing
    <2> QED
      BY <1>1, <2>1, <2>4, <2>7, <2>8, <2>9, <2>10, <2>11, IntakeGoes DEF Carries
  <1> QED
    BY <1>3, <1>4 DEF SensorInsert, EventTaken

(* Its campaign, and the seed's. *)
LEMMA SensorCampaigns ==
    ASSUME ConsoleInv, NEW t \in Threads, SensorCampaign(t)
    PROVE  ConsoleInv'
  <1> DEFINE q == req[t]
  <1>1. Still /\ post' = post /\ req[t] # Idle /\ flows' = flows /\ lastId' = lastId
    BY DEF SensorCampaign, Still, At
  <1>2. /\ q.pc = "event_campaign" /\ DOMAIN q = RequestFields /\ Control(q)
        /\ q.alone => EventAlone(q) /\ ScenarioAlone(q)
    BY <1>1, RequestKnown DEF SensorCampaign, At, AloneTrue
  <1>3. ScenarioRows' = ScenarioRows /\ \A s : BridgeRows(s)' = BridgeRows(s)
    BY <1>1, RowsSeen
  <1>4. CASE Answer(t, "error")
    <2>1. "error" \notin Noticed
      BY DEF Noticed, Heeded
    <2> QED
      BY <1>1, <1>4, <2>1, RefusesStill
  <1>5. CASE campaigns' = campaigns \cup {q.shape} /\ req' = After(t, "stored")
    <2>1. PICK pc, outcome :
              IF q.kind = "sensor" THEN pc = "correlate" /\ outcome = "stored"
              ELSE pc = q.then /\ outcome = q.outcome
      OBVIOUS
    <2>2. PICK r : /\ req' = [req EXCEPT ![t] = r] /\ Carries(r, q)
                   /\ r.pc = pc /\ r.outcome = outcome
      <3>1. CASE q.kind = "sensor"
        <4>1. MovesTo(t, pc, outcome)
          BY <1>5, <2>1, <3>1, AfterGoes
        <4> QED BY <1>1, <4>1, AnswerCarries
      <3>2. CASE q.kind # "sensor"
        <4>1. Goto(t, pc)
          BY <1>5, <2>1, <3>2, AfterGoes
        <4> QED BY <1>1, <2>1, <3>2, <4>1, GotoCarries
      <3> QED BY <3>1, <3>2
    <2>3. pc \in {"reply", "correlate"} /\ outcome \in {None, "stored", "approved"}
      BY <1>2, <2>1 DEF Control, Sensing
    <2>4. Control(r) /\ r.kind \in {"sensor", "scenarios", "scan"}
      BY <1>2, <2>1, <2>2, <2>3 DEF Control, Carries, Sensing, Seeding, Stitching, Calling
    <2>5. r.outcome \notin Heeded
      BY <2>2, <2>3, OpenOutcome
    <2>6. r.alone => EventAlone(r)'
      BY <1>2, <1>3, <1>5, <2>1, <2>2 DEF EventAlone, Carries, Stitching
    <2>7. r.alone => ScenarioAlone(r)'
      BY <1>1, <1>2, <1>3, <2>2, <2>3 DEF ScenarioAlone, Carries, Stitching, Sensing
    <2>8. SharedTrue' /\ Grows
      BY <1>1, <2>2, StillThreads
    <2>9. r.pc \in Stitching \cup {"reply"}
      BY <2>2, <2>3 DEF Stitching
    <2> QED
      BY <1>1, <2>2, <2>4, <2>5, <2>6, <2>7, <2>8, <2>9, IntakeGoes DEF Carries
  <1> QED
    BY <1>4, <1>5 DEF SensorCampaign

(* Ingest, replays, the scan and the purge: nothing is concluded about them. *)
LEMMA PlainIntakeGoes ==
    ASSUME ConsoleInv, SharedTrue', Grows, post' = post, NEW t \in Threads, req[t] # Idle, NEW r,
           req' = [req EXCEPT ![t] = r], DOMAIN r = RequestFields, Control(r),
           r.alone => r.kind \notin {"sensor", "scenarios"} /\ req[t].alone,
           r.kind \in {"sensor", "ingest", "replay", "scenarios", "scan", "purge", "correlate"},
           r.pc \in Sensing \cup Seeding \cup Stitching
                    \cup {"rows", "burst", "purge", "scan", "reply"},
           r.outcome \in {None, "stored", "approved"}
    PROVE  ConsoleInv'
  <1>1. r.outcome \notin Heeded
    BY OpenOutcome
  <1>2. r.alone => EventAlone(r)' /\ ScenarioAlone(r)'
    BY DEF EventAlone, ScenarioAlone
  <1> QED
    BY <1>1, <1>2, IntakeGoes

(* A row of a replay or an ingest. *)
LEMMA ReplayInserts ==
    ASSUME ConsoleInv, NEW t \in Threads, ReplayInsert(t)
    PROVE  ConsoleInv'
  <1> DEFINE q == req[t]
  <1>1. /\ post' = post /\ req[t] # Idle /\ UNCHANGED <<books, keys, cases, range, notes>>
    BY DEF ReplayInsert, Rest, At
  <1>2. /\ q.pc = "rows" /\ DOMAIN q = RequestFields /\ Control(q)
    BY <1>1, RequestKnown DEF ReplayInsert, At
  <1>3. /\ q.kind \in {"ingest", "replay"} /\ q.todo \in Seq(Shapes) /\ q.actor # "scenario"
        /\ q.flow \in Nat /\ q.outcome \in {None, "stored", "approved"}
    BY <1>2 DEF Control
  <1>4. CASE q.todo = <<>>
    <2>1. PICK pc \in {"burst", "correlate"} : Goto(t, pc)
      BY <1>4 DEF ReplayInsert
    <2>2. PICK r : /\ req' = [req EXCEPT ![t] = r] /\ Carries(r, q)
                   /\ r.pc = pc /\ r.outcome = q.outcome
      BY <1>1, <2>1, GotoCarries
    <2>3. Still
      BY <1>1, <1>4 DEF Still, ReplayInsert
    <2>4. Control(r) /\ r.pc \in Stitching \cup {"burst"}
      BY <1>3, <2>1, <2>2 DEF Control, Carries, Sensing, Seeding, Stitching, Calling
    <2>5. SharedTrue' /\ Grows
      BY <1>1, <2>2, <2>3, StillThreads
    <2> QED
      BY <1>1, <1>3, <2>2, <2>4, <2>5, PlainIntakeGoes DEF Carries
  <1>5. CASE q.todo # <<>>
    <2>1. PICK r : r = [q EXCEPT !.todo = Tail(q.todo), !.outcome = "stored"]
      OBVIOUS
    <2>2. req' = [req EXCEPT ![t] = r]
      BY <1>5, <2>1 DEF ReplayInsert
    <2>3. /\ DOMAIN r = RequestFields /\ r.kind = q.kind /\ r.pc = "rows" /\ r.alone = q.alone
          /\ r.todo = Tail(q.todo) /\ r.outcome = "stored" /\ r.actor = q.actor
          /\ r.flow = q.flow
      BY <1>2, <2>1 DEF RequestFields
    <2>4. Tail(q.todo) \in Seq(Shapes) /\ Head(q.todo) \in Shapes
      BY <1>3, <1>5
    <2>5. Control(r)
      BY <1>3, <2>3, <2>4 DEF Control, Sensing, Seeding, Stitching, Calling
    <2>6. DOMAIN req' = Threads /\ DOMAIN post' = Threads
      BY <1>1, <2>2 DEF ConsoleInv, SharedTrue
    <2>7. Insert(q.actor, Head(q.todo), None)
      BY <1>5 DEF ReplayInsert
    <2>8. SharedTrue' /\ Grows
      BY <1>1, <1>3, <2>4, <2>6, <2>7, InsertKeeps
    <2> QED
      BY <1>1, <1>3, <2>2, <2>3, <2>5, <2>8, PlainIntakeGoes
  <1> QED
    BY <1>4, <1>5

(* The campaign of a replay. *)
LEMMA RecordedBursts ==
    ASSUME ConsoleInv, NEW t \in Threads, RecordedBurst(t)
    PROVE  ConsoleInv'
  <1> DEFINE q == req[t]
  <1>1. Still /\ post' = post /\ req[t] # Idle /\ Goto(t, "correlate")
    BY DEF RecordedBurst, Still, At
  <1>2. q.pc = "burst" /\ DOMAIN q = RequestFields /\ Control(q)
    BY <1>1, RequestKnown DEF RecordedBurst, At
  <1>3. PICK r : /\ req' = [req EXCEPT ![t] = r] /\ Carries(r, q)
                 /\ r.pc = "correlate" /\ r.outcome = q.outcome
    BY <1>1, GotoCarries
  <1>4. Control(r) /\ r.pc \in Stitching /\ r.kind \in {"ingest", "replay"}
        /\ r.outcome \in {None, "stored", "approved"}
    BY <1>2, <1>3 DEF Control, Carries, Sensing, Seeding, Stitching, Calling
  <1>5. SharedTrue' /\ Grows
    BY <1>1, <1>3, StillThreads
  <1> QED
    BY <1>1, <1>3, <1>4, <1>5, PlainIntakeGoes DEF Carries

-----------------------------------------------------------------------------
(* The scenarios and the seeds. *)
LEMMA OldestIs ==
    ASSUME ConsoleInv, ScenarioRows # {}
    PROVE  Oldest(ScenarioRows) \in ScenarioRows /\ Oldest(ScenarioRows) \in Nat
  <1>1. ScenarioRows \subseteq Nat
    BY DEF ConsoleInv, SharedTrue, RowsTrue, ScenarioRows
  <1>2. \E x \in ScenarioRows : \A y \in ScenarioRows : x <= y
    BY <1>1, SmallestOf
  <1> QED
    BY <1>1, <1>2 DEF Oldest

(* Deleted rows take nothing with them that other rows need. *)
LEMMA DeleteKeeps ==
    ASSUME ConsoleInv, NEW doomed, Delete(doomed), lastId' = lastId,
           UNCHANGED <<books, keys, cases, range, notes>>,
           DOMAIN req' = Threads, DOMAIN post' = Threads
    PROVE  /\ SharedTrue' /\ Grows /\ DOMAIN flows' = DOMAIN flows \ doomed
           /\ \A f \in DOMAIN flows' : flows'[f] = flows[f]
  <1>1. RowsTrue
    BY DEF ConsoleInv, SharedTrue
  <1>2. DOMAIN flows' = DOMAIN flows \ doomed /\ \A f \in DOMAIN flows' : flows'[f] = flows[f]
    BY DEF Delete
  <1>3. Rewrites
    BY <1>1, <1>2 DEF Rewrites, RowsTrue
  <1> QED
    BY <1>2, <1>3, RewriteKeeps

(* The replayed scenario takes the row it has and deletes copies. *)
LEMMA ScenarioReuses ==
    ASSUME ConsoleInv, NEW t \in Threads, ScenarioReuse(t)
    PROVE  ConsoleInv'
  <1> DEFINE q == req[t]
  <1>1. /\ post' = post /\ req[t] # Idle /\ UNCHANGED <<lastId, books, keys, cases, range, notes>>
    BY DEF ScenarioReuse, Rest, At
  <1>2. /\ q.pc = "scenario" /\ DOMAIN q = RequestFields /\ Control(q)
    BY <1>1, RequestKnown DEF ScenarioReuse, At
  <1>3. q.outcome \notin Heeded
    BY <1>2, OpenOutcome DEF Control
  <1>4. CASE ScenarioRows = {}
    <2>1. Goto(t, "scenario_insert") /\ Still /\ flows' = flows
      BY <1>1, <1>4 DEF ScenarioReuse, Still
    <2>2. PICK r : /\ req' = [req EXCEPT ![t] = r] /\ Carries(r, q)
                   /\ r.pc = "scenario_insert" /\ r.outcome = q.outcome
      BY <1>1, <2>1, GotoCarries
    <2>3. Control(r) /\ r.pc \in Seeding /\ r.kind \in {"scenarios", "scan"}
      BY <1>2, <2>2 DEF Control, Carries, Sensing, Seeding, Stitching, Calling
    <2>4. SharedTrue' /\ Grows
      BY <1>1, <2>1, <2>2, StillThreads
    <2>5. ScenarioRows' = {}
      BY <1>4, <2>1, RowsSeen
    <2>6. EventAlone(r)' /\ ScenarioAlone(r)'
      BY <2>2, <2>3, <2>5 DEF EventAlone, ScenarioAlone, Stitching, Sensing
    <2> QED
      BY <1>1, <1>3, <2>2, <2>3, <2>4, <2>6, IntakeGoes DEF Carries
  <1>5. CASE ScenarioRows # {}
    <2>1. PICK o : o = Oldest(ScenarioRows)
      OBVIOUS
    <2>2. o \in ScenarioRows /\ o \in Nat
      BY <1>5, <2>1, OldestIs
    <2>3. PICK r : r = [q EXCEPT !.pc = "candidate", !.flow = o]
      OBVIOUS
    <2>4. Delete(ScenarioRows \ {o}) /\ req' = [req EXCEPT ![t] = r]
      BY <1>5, <2>1, <2>3 DEF ScenarioReuse, Copies
    <2>5. /\ DOMAIN r = RequestFields /\ r.kind = q.kind /\ r.pc = "candidate"
          /\ r.alone = q.alone /\ r.outcome = q.outcome /\ r.flow = o /\ r.then = q.then
      BY <1>2, <2>3 DEF RequestFields
    <2>6. Control(r) /\ r.pc \in Seeding /\ r.kind \in {"scenarios", "scan"}
      BY <1>2, <2>2, <2>5 DEF Control, Sensing, Seeding, Stitching, Calling
    <2>7. DOMAIN req' = Threads /\ DOMAIN post' = Threads
      BY <1>1, <2>4 DEF ConsoleInv, SharedTrue
    <2>8. /\ SharedTrue' /\ Grows /\ DOMAIN flows' = DOMAIN flows \ (ScenarioRows \ {o})
          /\ \A f \in DOMAIN flows' : flows'[f] = flows[f]
      BY <1>1, <2>4, <2>7, DeleteKeeps
    <2>9. o \in DOMAIN flows' /\ ScenarioRows' = {o}
      BY <2>2, <2>8 DEF ScenarioRows
    <2>10. EventAlone(r)' /\ ScenarioAlone(r)'
      BY <2>5, <2>6, <2>9 DEF EventAlone, ScenarioAlone, Stitching, Sensing
    <2> QED
      BY <1>1, <1>3, <2>4, <2>5, <2>6, <2>8, <2>10, IntakeGoes
  <1> QED
    BY <1>4, <1>5

(* Or it stores one. *)
LEMMA ScenarioInserts ==
    ASSUME ConsoleInv, NEW t \in Threads, ScenarioInsert(t)
    PROVE  ConsoleInv'
  <1> DEFINE q == req[t]
  <1>1. /\ post' = post /\ req[t] # Idle /\ UNCHANGED <<books, keys, cases, range, notes>>
        /\ Insert("scenario", Scenario, None)
    BY DEF ScenarioInsert, Rest, At
  <1>2. /\ q.pc = "scenario_insert" /\ DOMAIN q = RequestFields /\ Control(q)
        /\ q.alone => ScenarioAlone(q)
    BY <1>1, RequestKnown DEF ScenarioInsert, At, AloneTrue
  <1>3. q.outcome \notin Heeded
    BY <1>2, OpenOutcome DEF Control
  <1>4. PICK r : r = [q EXCEPT !.pc = "candidate", !.flow = lastId + 1]
    OBVIOUS
  <1>5. req' = [req EXCEPT ![t] = r]
    BY <1>4 DEF ScenarioInsert, NextFlowId
  <1>6. /\ DOMAIN r = RequestFields /\ r.kind = q.kind /\ r.pc = "candidate"
        /\ r.alone = q.alone /\ r.outcome = q.outcome /\ r.flow = lastId + 1 /\ r.then = q.then
    BY <1>2, <1>4 DEF RequestFields
  <1>7. lastId \in Nat
    BY DEF ConsoleInv, SharedTrue, RowsTrue
  <1>8. Control(r) /\ r.pc \in Seeding /\ r.kind \in {"scenarios", "scan"}
    BY <1>2, <1>6, <1>7 DEF Control, Sensing, Seeding, Stitching, Calling
  <1>9. DOMAIN req' = Threads /\ DOMAIN post' = Threads
    BY <1>1, <1>5 DEF ConsoleInv, SharedTrue
  <1>10. /\ SharedTrue' /\ Grows
         /\ DOMAIN flows' = DOMAIN flows \cup {lastId + 1} /\ lastId + 1 \notin DOMAIN flows
         /\ \A f \in DOMAIN flows : flows'[f] = flows[f]
         /\ flows'[lastId + 1].label = "scenario"
    BY <1>1, <1>9, ConsoleAssumption, InsertKeeps
  <1>11. ScenarioRows = {} => lastId + 1 \in DOMAIN flows' /\ ScenarioRows' = {lastId + 1}
    BY <1>10 DEF ScenarioRows
  <1>12. r.alone => EventAlone(r)' /\ ScenarioAlone(r)'
    BY <1>2, <1>6, <1>8, <1>11 DEF EventAlone, ScenarioAlone, Stitching, Sensing
  <1> QED
    BY <1>1, <1>3, <1>5, <1>6, <1>8, <1>10, <1>12, IntakeGoes

(* A step of a seeding request that leaves the rows of the scenarios. *)
LEMMA SeedingGoes ==
    ASSUME ConsoleInv, SharedTrue', Grows, post' = post, NEW t \in Threads, req[t] # Idle, NEW r,
           req' = [req EXCEPT ![t] = r], DOMAIN r = RequestFields, Control(r),
           req[t].kind \in {"scenarios", "scan"}, req[t].pc \in {"candidate", "seed", "notable"},
           r.kind = req[t].kind, r.alone = req[t].alone, r.outcome = req[t].outcome,
           r.pc \in Sensing \cup {"candidate", "seed", "notable", "correlate", "reply"},
           DOMAIN flows' = DOMAIN flows, ScenarioRows' = ScenarioRows
    PROVE  ConsoleInv'
  <1>1. Control(req[t]) /\ (r.alone => ScenarioAlone(req[t]))
    BY RequestKnown DEF AloneTrue
  <1>2. r.outcome \notin Heeded
    BY <1>1, OpenOutcome DEF Control
  <1>3. r.alone => EventAlone(r)' /\ ScenarioAlone(r)'
    BY <1>1 DEF EventAlone, ScenarioAlone, Stitching, Sensing
  <1>4. r.pc \in Sensing \cup Seeding \cup Stitching \cup {"reply"}
    BY DEF Seeding, Stitching
  <1> QED
    BY <1>2, <1>3, <1>4, IntakeGoes

(* The playbook candidate of the scenario's row. *)
LEMMA CandidatesStored ==
    ASSUME ConsoleInv, NEW t \in Threads, CandidateStored(t)
    PROVE  ConsoleInv'
  <1> DEFINE q == req[t]
  <1>1. /\ post' = post /\ req[t] # Idle /\ UNCHANGED <<lastId, books, keys, cases, range, notes>>
        /\ Goto(t, "seed") /\ q.pc = "candidate"
    BY DEF CandidateStored, Rest, At
  <1>2. DOMAIN q = RequestFields /\ Control(q)
    BY <1>1, RequestKnown
  <1>3. PICK r : /\ req' = [req EXCEPT ![t] = r] /\ Carries(r, q)
                 /\ r.pc = "seed" /\ r.outcome = q.outcome
    BY <1>1, GotoCarries
  <1>4. Control(r) /\ q.kind \in {"scenarios", "scan"}
    BY <1>1, <1>2, <1>3 DEF Control, Carries, Sensing, Seeding, Stitching, Calling
  <1>5. DOMAIN req' = Threads /\ DOMAIN post' = Threads
    BY <1>1, <1>3 DEF ConsoleInv, SharedTrue
  <1>6. /\ Rewrites /\ DOMAIN flows' = DOMAIN flows
        /\ \A f \in DOMAIN flows' : /\ flows'[f].recorded = flows[f].recorded
                                    /\ flows'[f].triage = flows[f].triage
    BY <1>1 DEF CandidateStored, Rewrites, ConsoleInv, SharedTrue, RowsTrue, RowFields
  <1>7. SharedTrue' /\ Grows
    BY <1>1, <1>5, <1>6, RewriteKeeps
  <1>8. ScenarioRows' = ScenarioRows
    BY <1>6, RowsSeen
  <1> QED
    BY <1>1, <1>3, <1>4, <1>6, <1>7, <1>8, SeedingGoes DEF Carries

(* The seed's look for the scenario. *)
LEMMA SeedReads ==
    ASSUME ConsoleInv, NEW t \in Threads, SeedRead(t)
    PROVE  ConsoleInv'
  <1> DEFINE q == req[t]
  <1>1. Still /\ flows' = flows /\ post' = post /\ req[t] # Idle /\ q.pc = "seed"
    BY DEF SeedRead, Still, Rest, At
  <1>2. /\ DOMAIN q = RequestFields /\ Control(q)
        /\ q.alone /\ q.kind = "scenarios" => \E f \in DOMAIN flows : ScenarioRows = {f}
    BY <1>1, RequestKnown DEF AloneTrue, ScenarioAlone
  <1>3. ScenarioRows' = ScenarioRows
    BY <1>1, RowsSeen
  <1>4. CASE Goto(t, "notable")
    <2>1. PICK r : /\ req' = [req EXCEPT ![t] = r] /\ Carries(r, q)
                   /\ r.pc = "notable" /\ r.outcome = q.outcome
      BY <1>1, <1>4, GotoCarries
    <2>2. Control(r) /\ q.kind \in {"scenarios", "scan"}
      BY <1>1, <1>2, <2>1 DEF Control, Carries, Sensing, Seeding, Stitching, Calling
    <2>3. SharedTrue' /\ Grows
      BY <1>1, <2>1, StillThreads
    <2> QED
      BY <1>1, <1>3, <2>1, <2>2, <2>3, SeedingGoes DEF Carries
  <1>5. CASE Goto(t, "seed_insert") /\ ~(\E f \in Attacks : flows[f].label \in {"recorded", "scenario"})
    <2>1. ~(q.alone /\ q.kind = "scenarios")
      <3>1. ASSUME NEW f \in DOMAIN flows, ScenarioRows = {f} PROVE FALSE
        <4>1. flows[f].label = "scenario"
          BY <3>1 DEF ScenarioRows
        <4>2. f \in Attacks
          BY <4>1, ConsoleAssumption DEF Attacks, ConsoleInv, SharedTrue, RowsTrue
        <4> QED BY <1>5, <4>1, <4>2
      <3> QED BY <1>2, <3>1
    <2>2. PICK r : /\ req' = [req EXCEPT ![t] = r] /\ Carries(r, q)
                   /\ r.pc = "seed_insert" /\ r.outcome = q.outcome
      BY <1>1, <1>5, GotoCarries
    <2>3. /\ Control(r) /\ r.kind \in {"scenarios", "scan"} /\ r.pc \in Seeding
          /\ r.outcome \in {None, "stored", "approved"}
      BY <1>1, <1>2, <2>2 DEF Control, Carries, Sensing, Seeding, Stitching, Calling
    <2>4. SharedTrue' /\ Grows
      BY <1>1, <2>2, StillThreads
    <2> QED
      BY <1>1, <2>1, <2>2, <2>3, <2>4, PlainIntakeGoes DEF Carries
  <1> QED
    BY <1>4, <1>5 DEF SeedRead

(* Its row. *)
LEMMA SeedInserts ==
    ASSUME ConsoleInv, NEW t \in Threads, SeedInsert(t)
    PROVE  ConsoleInv'
  <1> DEFINE q == req[t]
  <1>1. /\ post' = post /\ req[t] # Idle /\ UNCHANGED <<books, keys, cases, range, notes>>
        /\ q.pc = "seed_insert" /\ Goto(t, "notable")
    BY DEF SeedInsert, Rest, At
  <1>2. /\ DOMAIN q = RequestFields /\ Control(q) /\ ~(q.alone /\ q.kind = "scenarios")
    BY <1>1, RequestKnown DEF AloneTrue, ScenarioAlone
  <1>3. PICK r : /\ req' = [req EXCEPT ![t] = r] /\ Carries(r, q)
                 /\ r.pc = "notable" /\ r.outcome = q.outcome
    BY <1>1, GotoCarries
  <1>4. /\ Control(r) /\ r.kind \in {"scenarios", "scan"} /\ r.pc \in Seeding
        /\ r.outcome \in {None, "stored", "approved"}
    BY <1>1, <1>2, <1>3 DEF Control, Carries, Sensing, Seeding, Stitching, Calling
  <1>5. DOMAIN req' = Threads /\ DOMAIN post' = Threads
    BY <1>1, <1>3 DEF ConsoleInv, SharedTrue
  <1>6. PICK label \in {"recorded", "scenario"} : Insert(label, Recorded, None)
    BY DEF SeedInsert
  <1>7. SharedTrue' /\ Grows
    BY <1>1, <1>5, <1>6, ConsoleAssumption, InsertKeeps
  <1> QED
    BY <1>1, <1>2, <1>3, <1>4, <1>7, PlainIntakeGoes DEF Carries

(* The bridge row that is seeded. *)
LEMMA NotableReads ==
    ASSUME ConsoleInv, NEW t \in Threads, NotableRead(t)
    PROVE  ConsoleInv'
  <1> DEFINE q == req[t]
  <1>1. Still /\ flows' = flows /\ post' = post /\ req[t] # Idle /\ q.pc = "notable"
    BY DEF NotableRead, Still, Rest, At
  <1>2. DOMAIN q = RequestFields /\ Control(q)
    BY <1>1, RequestKnown
  <1>3. q.kind \in {"scenarios", "scan"} /\ q.then \in {"reply", "correlate"}
    BY <1>1, <1>2 DEF Control, Seeding
  <1>4. ScenarioRows' = ScenarioRows
    BY <1>1, RowsSeen
  <1>5. CASE Goto(t, q.then)
    <2>1. PICK r : /\ req' = [req EXCEPT ![t] = r] /\ Carries(r, q)
                   /\ r.pc = q.then /\ r.outcome = q.outcome
      BY <1>1, <1>5, GotoCarries
    <2>2. Control(r)
      BY <1>1, <1>2, <1>3, <2>1 DEF Control, Carries, Sensing, Seeding, Stitching, Calling
    <2>3. SharedTrue' /\ Grows
      BY <1>1, <2>1, StillThreads
    <2> QED
      BY <1>1, <1>3, <1>4, <2>1, <2>2, <2>3, SeedingGoes DEF Carries
  <1>6. CASE req' = [req EXCEPT ![t].pc = "event", ![t].shape = Notable]
    <2>1. PICK r : r = [q EXCEPT !.pc = "event", !.shape = Notable]
      OBVIOUS
    <2>2. req' = [req EXCEPT ![t] = r]
      BY <1>6, <2>1
    <2>3. /\ DOMAIN r = RequestFields /\ r.kind = q.kind /\ r.pc = "event" /\ r.shape = Notable
          /\ r.alone = q.alone /\ r.outcome = q.outcome /\ r.then = q.then /\ r.flow = q.flow
      BY <1>2, <2>1 DEF RequestFields
    <2>4. Control(r) /\ r.pc \in Sensing
      BY <1>1, <1>2, <1>3, <2>3, ConsoleAssumption
         DEF Control, Sensing, Seeding, Stitching, Calling
    <2>5. SharedTrue' /\ Grows
      BY <1>1, <2>2, StillThreads
    <2> QED
      BY <1>1, <1>3, <1>4, <2>2, <2>3, <2>4, <2>5, SeedingGoes
  <1> QED
    BY <1>5, <1>6 DEF NotableRead, Goto

-----------------------------------------------------------------------------
(* The purge takes noisy rows only. *)
LEMMA Purges ==
    ASSUME ConsoleInv, NEW t \in Threads, Purge(t)
    PROVE  ConsoleInv'
  <1> DEFINE q == req[t]
  <1>1. /\ post' = post /\ req[t] # Idle /\ UNCHANGED <<lastId, books, keys, cases, range, notes>>
        /\ q.pc = "purge" /\ Delete(Noise)
    BY DEF Purge, Rest, At
  <1>2. DOMAIN q = RequestFields /\ Control(q)
    BY <1>1, RequestKnown
  <1>3. DOMAIN req' = Threads /\ DOMAIN post' = Threads
    BY <1>1 DEF ConsoleInv, SharedTrue, Purge, Goto, Answer
  <1>4. SharedTrue' /\ Grows
    BY <1>1, <1>3, DeleteKeeps
  <1>5. CASE Goto(t, "scan") /\ q.kind = "scan"
    <2>1. PICK r : /\ req' = [req EXCEPT ![t] = r] /\ Carries(r, q)
                   /\ r.pc = "scan" /\ r.outcome = q.outcome
      BY <1>1, <1>5, GotoCarries
    <2>2. Control(r) /\ r.outcome \in {None, "stored", "approved"}
      BY <1>1, <1>2, <1>5, <2>1 DEF Control, Carries, Sensing, Seeding, Stitching, Calling
    <2> QED
      BY <1>1, <1>4, <1>5, <2>1, <2>2, PlainIntakeGoes DEF Carries
  <1>6. CASE Answer(t, "purged")
    <2>1. "purged" \notin Noticed
      BY DEF Noticed, Heeded
    <2> QED
      BY <1>1, <1>4, <1>6, <2>1, Refuses
  <1> QED
    BY <1>5, <1>6 DEF Purge

(* The end of a scan. *)
LEMMA ScansEnd ==
    ASSUME ConsoleInv, NEW t \in Threads, ScanEnds(t)
    PROVE  ConsoleInv'
  <1> DEFINE q == req[t]
  <1>1. Still /\ post' = post /\ req[t] # Idle /\ q.pc = "scan"
    BY DEF ScanEnds, Still, Rest, At
  <1>2. DOMAIN q = RequestFields /\ Control(q)
    BY <1>1, RequestKnown
  <1>3. CASE Goto(t, "seed")
    <2>1. PICK r : /\ req' = [req EXCEPT ![t] = r] /\ Carries(r, q)
                   /\ r.pc = "seed" /\ r.outcome = q.outcome
      BY <1>1, <1>3, GotoCarries
    <2>2. /\ Control(r) /\ r.kind = "scan" /\ r.pc \in Seeding
          /\ r.outcome \in {None, "stored", "approved"}
      BY <1>1, <1>2, <2>1 DEF Control, Carries, Sensing, Seeding, Stitching, Calling
    <2>3. SharedTrue' /\ Grows
      BY <1>1, <2>1, StillThreads
    <2> QED
      BY <1>1, <2>1, <2>2, <2>3, PlainIntakeGoes DEF Carries
  <1>4. CASE Answer(t, "not_ingested")
    <2>1. "not_ingested" \notin Noticed
      BY DEF Noticed, Heeded
    <2> QED
      BY <1>1, <1>4, <2>1, RefusesStill
  <1> QED
    BY <1>3, <1>4 DEF ScanEnds

(* A step of the stitch. *)
LEMMA StitchGoes ==
    ASSUME ConsoleInv, SharedTrue', Grows, post' = post, NEW t \in Threads, req[t] # Idle, NEW r,
           req' = [req EXCEPT ![t] = r], DOMAIN r = RequestFields, req[t].pc \in Stitching,
           r.kind = req[t].kind, r.alone = req[t].alone, r.flow = req[t].flow,
           r.shape = req[t].shape, r.pc \in Stitching \cup {"reply"},
           \/ r.outcome = req[t].outcome
           \/ r.pc = "reply" /\ r.outcome = "correlated" /\ req[t].outcome = None,
           campaigns' = campaigns, DOMAIN flows' = DOMAIN flows,
           ScenarioRows' = ScenarioRows, \A s : BridgeRows(s)' = BridgeRows(s)
    PROVE  ConsoleInv'
  <1> DEFINE q == req[t]
  <1>1. Control(q) /\ (q.alone => EventAlone(q) /\ ScenarioAlone(q))
    BY RequestKnown DEF AloneTrue
  <1>2. q.outcome \in {None, "stored", "approved"}
    BY <1>1 DEF Control, Stitching
  <1>3. r.outcome \notin Heeded
    BY <1>2, OpenOutcome DEF Heeded
  <1>4. Control(r) /\ r.kind \in {"sensor", "ingest", "replay", "scenarios", "correlate"}
    BY <1>1, <1>2 DEF Control, Sensing, Seeding, Stitching, Calling
  <1>5. r.alone => EventAlone(r)'
    BY <1>1 DEF EventAlone, Stitching
  <1>6. r.alone => ScenarioAlone(r)'
    BY <1>1 DEF ScenarioAlone, Stitching
  <1> QED
    BY <1>3, <1>4, <1>5, <1>6, IntakeGoes

(* The stitch reads the attack rows. *)
LEMMA CorrelateReads ==
    ASSUME ConsoleInv, NEW t \in Threads, CorrelateRead(t)
    PROVE  ConsoleInv'
  <1> DEFINE q == req[t]
  <1>1. /\ Still /\ flows' = flows /\ campaigns' = campaigns /\ post' = post /\ req[t] # Idle
        /\ q.pc = "correlate" /\ q.pc \in Stitching
    BY DEF CorrelateRead, Still, At, Stitching
  <1>2. DOMAIN q = RequestFields
    BY <1>1, RequestKnown
  <1>3. ScenarioRows' = ScenarioRows /\ \A s : BridgeRows(s)' = BridgeRows(s)
    BY <1>1, RowsSeen
  <1>4. CASE Answer(t, "no_attack_flows")
    <2>1. "no_attack_flows" \notin Noticed
      BY DEF Noticed, Heeded
    <2> QED
      BY <1>1, <1>4, <2>1, RefusesStill
  <1>5. CASE Goto(t, "reply")
    <2>1. PICK r : /\ req' = [req EXCEPT ![t] = r] /\ Carries(r, q)
                   /\ r.pc = "reply" /\ r.outcome = q.outcome
      BY <1>1, <1>5, GotoCarries
    <2>2. SharedTrue' /\ Grows
      BY <1>1, <2>1, StillThreads
    <2> QED
      BY <1>1, <1>3, <2>1, <2>2, StitchGoes DEF Carries
  <1>6. CASE req' = [req EXCEPT ![t].pc = "group", ![t].read = AttackAlerts]
    <2>1. PICK r : r = [q EXCEPT !.pc = "group", !.read = AttackAlerts]
      OBVIOUS
    <2>2. req' = [req EXCEPT ![t] = r]
      BY <1>6, <2>1
    <2>3. /\ DOMAIN r = RequestFields /\ r.kind = q.kind /\ r.pc = "group" /\ r.shape = q.shape
          /\ r.alone = q.alone /\ r.outcome = q.outcome /\ r.flow = q.flow
      BY <1>2, <2>1 DEF RequestFields
    <2>4. SharedTrue' /\ Grows
      BY <1>1, <2>2, StillThreads
    <2>5. r.pc \in Stitching
      BY <2>3 DEF Stitching
    <2> QED
      BY <1>1, <1>3, <2>2, <2>3, <2>4, <2>5, StitchGoes
  <1> QED
    BY <1>4, <1>5, <1>6 DEF CorrelateRead

(* It stores their incidents. *)
LEMMA CorrelateStores ==
    ASSUME ConsoleInv, NEW t \in Threads, CorrelateStore(t)
    PROVE  ConsoleInv'
  <1> DEFINE q == req[t]
  <1>1. /\ Still /\ flows' = flows /\ campaigns' = campaigns /\ post' = post /\ req[t] # Idle
        /\ q.pc \in Stitching
    BY DEF CorrelateStore, Still, At, Stitching
  <1>2. DOMAIN q = RequestFields
    BY <1>1, RequestKnown
  <1>3. ScenarioRows' = ScenarioRows /\ \A s : BridgeRows(s)' = BridgeRows(s)
    BY <1>1, RowsSeen
  <1>4. PICK keep : req' = [req EXCEPT ![t].pc = "mark", ![t].keep = keep]
    BY DEF CorrelateStore
  <1>5. PICK r : r = [q EXCEPT !.pc = "mark", !.keep = keep]
    OBVIOUS
  <1>6. req' = [req EXCEPT ![t] = r]
    BY <1>4, <1>5
  <1>7. /\ DOMAIN r = RequestFields /\ r.kind = q.kind /\ r.pc = "mark" /\ r.shape = q.shape
        /\ r.alone = q.alone /\ r.outcome = q.outcome /\ r.flow = q.flow
    BY <1>2, <1>5 DEF RequestFields
  <1>8. SharedTrue' /\ Grows
    BY <1>1, <1>6, StillThreads
  <1>9. r.pc \in Stitching
    BY <1>7 DEF Stitching
  <1> QED
    BY <1>1, <1>3, <1>6, <1>7, <1>8, <1>9, StitchGoes

(* It marks the rows as checked. *)
LEMMA CorrelateMarks ==
    ASSUME ConsoleInv, NEW t \in Threads, CorrelateMark(t)
    PROVE  ConsoleInv'
  <1> DEFINE q == req[t]
  <1>1. /\ campaigns' = campaigns /\ post' = post /\ req[t] # Idle /\ q.pc \in Stitching
        /\ UNCHANGED <<lastId, books, keys, cases, range, notes>> /\ Goto(t, "drop_stale")
    BY DEF CorrelateMark, At, Stitching
  <1>2. PICK r : /\ req' = [req EXCEPT ![t] = r] /\ Carries(r, q)
                 /\ r.pc = "drop_stale" /\ r.outcome = q.outcome
    BY <1>1, GotoCarries
  <1>3. /\ Rewrites /\ DOMAIN flows' = DOMAIN flows
        /\ \A f \in DOMAIN flows' : /\ flows'[f].recorded = flows[f].recorded
                                    /\ flows'[f].triage = flows[f].triage
    BY <1>1 DEF CorrelateMark, Rewrites, ConsoleInv, SharedTrue, RowsTrue, RowFields
  <1>4. DOMAIN req' = Threads /\ DOMAIN post' = Threads
    BY <1>1, <1>2 DEF ConsoleInv, SharedTrue
  <1>5. SharedTrue' /\ Grows
    BY <1>1, <1>3, <1>4, RewriteKeeps
  <1>6. ScenarioRows' = ScenarioRows /\ \A s : BridgeRows(s)' = BridgeRows(s)
    BY <1>3, RowsSeen
  <1>7. r.pc \in Stitching
    BY <1>2 DEF Stitching
  <1> QED
    BY <1>1, <1>2, <1>3, <1>5, <1>6, <1>7, StitchGoes DEF Carries

(* It drops the incidents of earlier stitches. *)
LEMMA StaleDropped ==
    ASSUME ConsoleInv, NEW t \in Threads, DropStale(t)
    PROVE  ConsoleInv'
  <1> DEFINE q == req[t]
  <1>1. /\ Still /\ flows' = flows /\ campaigns' = campaigns /\ post' = post /\ req[t] # Idle
        /\ q.pc \in Stitching
    BY DEF DropStale, Still, At, Stitching
  <1>2. ScenarioRows' = ScenarioRows /\ \A s : BridgeRows(s)' = BridgeRows(s)
    BY <1>1, RowsSeen
  <1>3. PICK outcome : outcome = IF q.outcome = None THEN "correlated" ELSE q.outcome
    OBVIOUS
  <1>4. MovesTo(t, "reply", outcome)
    BY <1>3 DEF DropStale, MovesTo
  <1>5. PICK r : /\ req' = [req EXCEPT ![t] = r] /\ Carries(r, q)
                 /\ r.pc = "reply" /\ r.outcome = outcome
    BY <1>1, <1>4, AnswerCarries
  <1>6. SharedTrue' /\ Grows
    BY <1>1, <1>5, StillThreads
  <1> QED
    BY <1>1, <1>2, <1>3, <1>5, <1>6, StitchGoes DEF Carries

(* The intake and the stitch keep the invariant. *)
LEMMA IntakeKeeps ==
    ASSUME ConsoleInv, NEW t \in Threads, IntakeStep(t) \/ CorrelationStep(t)
    PROVE  ConsoleInv'
  BY IntakeRoutes, StitchRoutes, SensorReads, SensorInserts, SensorCampaigns, ReplayInserts,
     RecordedBursts, ScenarioReuses, ScenarioInserts, CandidatesStored, SeedReads, SeedInserts,
     NotableReads, Purges, ScansEnd, CorrelateReads, CorrelateStores, CorrelateMarks,
     StaleDropped DEF IntakeStep, CorrelationStep

-----------------------------------------------------------------------------
(* What analysts record. *)
Recording == {"verdict", "triage", "assignment", "memory", "note", "approve"}

(* A record goes on to its next step. *)
LEMMA RecordGoes ==
    ASSUME ConsoleInv, SharedTrue', Grows, post' = post, NEW t \in Threads, req[t] # Idle, NEW r,
           req' = [req EXCEPT ![t] = r], DOMAIN r = RequestFields, Control(r),
           r.kind \in Recording,
           r.pc \in {"look", "verdict", "triage", "assignment", "note", "memory", "stamp", "reply"},
           r.outcome \in {None, "stored", "approved", "recorded"},
           r.alone => req[t].alone /\ RecordsAlone(r)'
    PROVE  ConsoleInv'
  <1>1. r.outcome \notin Heeded \ {"recorded"}
    BY ConsoleAssumption DEF Heeded
  <1>2. Responds(r)' /\ Awaits(r, post[t])' /\ Advises(r)'
    BY <1>1 DEF Responds, Awaits, Advises, Calling, Heeded
  <1>3. RangeAlone(r)' /\ EventAlone(r)' /\ ScenarioAlone(r)'
    BY <1>1 DEF RangeAlone, EventAlone, ScenarioAlone, Recording, Heeded
  <1>4. TrueRequest(r, post[t])'
    BY <1>2, <1>3 DEF TrueRequest, AloneTrue, Control
  <1> QED
    BY <1>4, RequestMoves

(* An UPDATE of one column of the row, if it is there. *)
LEMMA SignedRow ==
    ASSUME ConsoleInv, NEW t \in Threads, NEW field \in {"verdict", "triage", "assignee", "stamp"},
           Signed(t, field), lastId' = lastId
    PROVE  /\ Rewrites /\ DOMAIN flows' = DOMAIN flows
           /\ \A f \in DOMAIN flows : \A x \in RowFields \ {field} : flows'[f][x] = flows[f][x]
           /\ \A f \in DOMAIN flows : f # req[t].flow => flows'[f] = flows[f]
           /\ req[t].flow \in DOMAIN flows => flows'[req[t].flow][field] = req[t].actor
  <1>1. \A f \in DOMAIN flows : DOMAIN flows[f] = RowFields
    BY DEF ConsoleInv, SharedTrue, RowsTrue
  <1>2. /\ DOMAIN flows' = DOMAIN flows
        /\ \A f \in DOMAIN flows : DOMAIN flows'[f] = RowFields
        /\ \A f \in DOMAIN flows : \A x \in RowFields \ {field} : flows'[f][x] = flows[f][x]
        /\ \A f \in DOMAIN flows : f # req[t].flow => flows'[f] = flows[f]
        /\ req[t].flow \in DOMAIN flows => flows'[req[t].flow][field] = req[t].actor
    BY <1>1 DEF Signed, RowFields
  <1>3. Rewrites
    BY <1>2 DEF Rewrites, RowFields
  <1> QED BY <1>2, <1>3

(* Signing a field of a row keeps what is shared. *)
LEMMA SignedKeeps ==
    ASSUME ConsoleInv, NEW t \in Threads, NEW field \in {"verdict", "assignee", "stamp"},
           Signed(t, field), UNCHANGED <<notes, RecordsOnly>>, NEW r, req' = [req EXCEPT ![t] = r]
    PROVE  SharedTrue' /\ Grows
  <1>1. DOMAIN req' = Threads /\ DOMAIN post' = Threads
    BY DEF ConsoleInv, SharedTrue, RecordsOnly
  <1>2. UNCHANGED <<lastId, books, keys, cases, range, notes>>
    BY DEF RecordsOnly
  <1>3. /\ Rewrites
        /\ \A f \in DOMAIN flows' : /\ flows'[f].recorded = flows[f].recorded
                                    /\ flows'[f].triage = flows[f].triage
    BY <1>2, SignedRow DEF RowFields
  <1> QED
    BY <1>1, <1>2, <1>3, RewriteKeeps

(* A record loads its row. *)
LEMMA RowsLoaded ==
    ASSUME ConsoleInv, NEW t \in Threads, RowLoaded(t)
    PROVE  ConsoleInv'
  <1> DEFINE q == req[t]
  <1>1. Still /\ post' = post /\ flows' = flows /\ req[t] # Idle /\ q.pc = "look"
    BY DEF RowLoaded, RecordsOnly, Still, At
  <1>2. DOMAIN q = RequestFields /\ Control(q)
    BY <1>1, RequestKnown
  <1>3. ASSUME NEW outcome \in {"flow_not_stored", "explanation_not_grounded"}, Answer(t, outcome)
        PROVE  ConsoleInv'
    <2>1. outcome \notin Noticed
      BY DEF Noticed, Heeded
    <2> QED
      BY <1>1, <1>3, <2>1, RefusesStill
  <1>4. CASE /\ q.flow \in DOMAIN flows
             /\ req' = [req EXCEPT ![t].row = flows[q.flow], ![t].pc = q.then]
    <2>1. PICK r : r = [q EXCEPT !.row = flows[q.flow], !.pc = q.then]
      OBVIOUS
    <2>2. req' = [req EXCEPT ![t] = r]
      BY <1>4, <2>1
    <2>3. /\ DOMAIN r = RequestFields /\ r.kind = q.kind /\ r.pc = q.then /\ r.flow = q.flow
          /\ r.alone = q.alone /\ r.outcome = q.outcome /\ r.row = flows[q.flow]
      BY <1>2, <2>1 DEF RequestFields
    <2>4. /\ r.kind \in {"verdict", "assignment", "memory"} /\ r.pc = r.kind
          /\ r.outcome \in {None, "stored", "approved"} /\ r.flow \in Nat
      BY <1>1, <1>2, <2>3 DEF Control
    <2>5. Control(r)
      BY <2>4 DEF Control, Sensing, Seeding, Stitching, Calling
    <2>6. SharedTrue' /\ Grows
      BY <1>1, <2>2, StillThreads
    <2>7. RecordsAlone(r)'
      BY <1>1, <1>4, <2>3, <2>4 DEF RecordsAlone, Holds
    <2> QED
      BY <1>1, <2>2, <2>3, <2>4, <2>5, <2>6, <2>7, RecordGoes DEF Recording
  <1> QED
    BY <1>3, <1>4 DEF RowLoaded

(* The verdict and the assignment, on a row that was there. *)
LEMMA VerdictsStored ==
    ASSUME ConsoleInv, NEW t \in Threads, VerdictStored(t) \/ AssignmentStored(t)
    PROVE  ConsoleInv'
  <1> DEFINE q == req[t]
  <1>1. PICK field \in {"verdict", "assignee"} :
            /\ q.pc = IF field = "verdict" THEN "verdict" ELSE "assignment"
            /\ Signed(t, field) /\ Goto(t, "stamp")
    BY DEF VerdictStored, AssignmentStored, At
  <1>2. /\ req[t] # Idle /\ UNCHANGED <<notes, RecordsOnly>>
    BY DEF VerdictStored, AssignmentStored, At
  <1>3. UNCHANGED <<lastId, post, notes>>
    BY <1>2 DEF RecordsOnly
  <1>4. /\ DOMAIN q = RequestFields /\ Control(q) /\ (q.alone => RecordsAlone(q))
    BY <1>2, RequestKnown DEF AloneTrue
  <1>5. PICK r : /\ req' = [req EXCEPT ![t] = r] /\ Carries(r, q)
                 /\ r.pc = "stamp" /\ r.outcome = q.outcome
    BY <1>1, <1>2, GotoCarries
  <1>6. /\ r.kind = q.pc /\ r.outcome \in {None, "stored", "approved"} /\ r.flow \in Nat
    BY <1>1, <1>4, <1>5 DEF Control, Carries
  <1>7. Control(r) /\ r.kind \in Recording
    BY <1>1, <1>5, <1>6 DEF Control, Sensing, Seeding, Stitching, Calling, Recording
  <1>8. SharedTrue' /\ Grows
    BY <1>1, <1>2, <1>5, SignedKeeps
  <1>9. /\ DOMAIN flows' = DOMAIN flows
        /\ \A f \in DOMAIN flows : \A x \in RowFields \ {field} : flows'[f][x] = flows[f][x]
        /\ q.flow \in DOMAIN flows => flows'[q.flow][field] = q.actor
    BY <1>1, <1>3, SignedRow
  <1>10. ASSUME r.alone PROVE RecordsAlone(r)'
    <2>1. q.flow \in DOMAIN flows /\ q.row.shape = flows[q.flow].shape
      BY <1>1, <1>4, <1>5, <1>6, <1>10 DEF RecordsAlone, Holds, Carries
    <2>2. Signs(r)' /\ Holds(r)'
      BY <1>1, <1>5, <1>6, <1>9, <2>1 DEF Signs, Holds, Carries, RowFields
    <2> QED
      BY <1>5, <1>6, <2>2 DEF RecordsAlone
  <1> QED
    BY <1>2, <1>3, <1>5, <1>6, <1>7, <1>8, <1>10, RecordGoes DEF Carries

(* The triage and its event, in one transaction. *)
LEMMA TriagesStored ==
    ASSUME ConsoleInv, NEW t \in Threads, TriageStored(t)
    PROVE  ConsoleInv'
  <1> DEFINE q == req[t]
  <1>1. /\ req[t] # Idle /\ q.pc = "triage" /\ UNCHANGED <<lastId, books, keys, cases, range, post>>
    BY DEF TriageStored, At, RecordsOnly
  <1>2. DOMAIN q = RequestFields /\ Control(q)
    BY <1>1, RequestKnown
  <1>3. CASE Answer(t, "flow_not_stored") /\ UNCHANGED <<flows, notes>>
    <2>1. Still
      BY <1>1, <1>3 DEF Still
    <2>2. "flow_not_stored" \notin Noticed
      BY DEF Noticed, Heeded
    <2> QED
      BY <1>1, <1>3, <2>1, <2>2, RefusesStill
  <1>4. CASE q.flow \in DOMAIN flows /\ notes' = Logged(t) /\ Signed(t, "triage") /\ Goto(t, "stamp")
    <2>1. PICK r : /\ req' = [req EXCEPT ![t] = r] /\ Carries(r, q)
                   /\ r.pc = "stamp" /\ r.outcome = q.outcome
      BY <1>1, <1>4, GotoCarries
    <2>2. /\ r.kind = "triage" /\ q.kind = "triage" /\ r.outcome \in {None, "stored", "approved"}
          /\ r.flow \in Nat /\ r.flow = q.flow /\ r.actor = q.actor /\ r.alone = q.alone
      BY <1>1, <1>2, <2>1 DEF Control, Carries
    <2>3. Control(r) /\ r.kind \in Recording
      BY <2>1, <2>2 DEF Control, Sensing, Seeding, Stitching, Calling, Recording
    <2>4. /\ Rewrites /\ DOMAIN flows' = DOMAIN flows
          /\ \A f \in DOMAIN flows : \A x \in RowFields \ {"triage"} : flows'[f][x] = flows[f][x]
          /\ \A f \in DOMAIN flows : f # r.flow => flows'[f] = flows[f]
          /\ flows'[r.flow].triage = r.actor
      BY <1>1, <1>4, <2>2, SignedRow
    <2>5. SharedTrue
      BY DEF ConsoleInv
    <2>6. /\ notes' = [notes EXCEPT !.log = notes.log \cup {<<"triage", r.flow, r.actor>>}]
      BY <1>4, <2>2 DEF Logged
    <2>7. /\ DOMAIN notes' = DOMAIN notes /\ notes'.memory = notes.memory
          /\ notes'.briefs = notes.briefs /\ notes'.briefsOnDisk = notes.briefsOnDisk
          /\ notes'.log = notes.log \cup {<<"triage", r.flow, r.actor>>}
      BY <2>5, <2>6 DEF SharedTrue, NotesTrue
    <2>8. SharedTrue'
      <3>1. RowsTrue'
        BY <2>4, <2>5 DEF SharedTrue, RowsTrue, Rewrites
      <3>2. LedgerTrue' /\ KeysTrue' /\ RangeTrue'
        BY <1>1, <2>5 DEF SharedTrue, LedgerTrue, KeysTrue, RangeTrue, Approved
      <3>3. ReceiptsTrue'
        BY <1>1, <2>4, <2>5 DEF SharedTrue, ReceiptsTrue, Key, RowFields
      <3>4. NotesTrue'
        BY <2>5, <2>7 DEF SharedTrue, NotesTrue
      <3>5. TriageLogged'
        BY <2>4, <2>5, <2>7 DEF SharedTrue, TriageLogged
      <3>6. DOMAIN req' = Threads /\ DOMAIN post' = Threads
        BY <1>1, <2>1, <2>5 DEF SharedTrue
      <3> QED
        BY <3>1, <3>2, <3>3, <3>4, <3>5, <3>6 DEF SharedTrue
    <2>9. Grows
      BY <1>1, <2>7 DEF Grows
    <2>10. RecordsAlone(r)'
      BY <1>4, <2>1, <2>2, <2>4, <2>7 DEF RecordsAlone, Signs, Word
    <2> QED
      BY <1>1, <2>1, <2>2, <2>3, <2>8, <2>9, <2>10, RecordGoes DEF Carries
  <1> QED
    BY <1>3, <1>4 DEF TriageStored

(* Only notes, rules and briefs change. *)
LEMMA NotesKeep ==
    ASSUME ConsoleInv, UNCHANGED <<flows, lastId, books, keys, cases, range, post>>, NotesTrue',
           notes.log \subseteq notes'.log, NEW t, NEW r, req' = [req EXCEPT ![t] = r]
    PROVE  SharedTrue' /\ Grows
  <1>1. SharedTrue
    BY DEF ConsoleInv
  <1>2. RowsTrue' /\ LedgerTrue' /\ KeysTrue' /\ RangeTrue'
    BY <1>1 DEF SharedTrue, RowsTrue, LedgerTrue, KeysTrue, RangeTrue, Approved
  <1>3. ReceiptsTrue' /\ TriageLogged'
    BY <1>1 DEF SharedTrue, ReceiptsTrue, TriageLogged, Key
  <1>4. DOMAIN req' = Threads /\ DOMAIN post' = Threads
    BY <1>1 DEF SharedTrue
  <1>5. Grows
    BY DEF Grows
  <1> QED
    BY <1>2, <1>3, <1>4, <1>5 DEF SharedTrue

(* The note. *)
LEMMA NotesStored ==
    ASSUME ConsoleInv, NEW t \in Threads, NoteStored(t)
    PROVE  ConsoleInv'
  <1> DEFINE q == req[t]
  <1>1. /\ req[t] # Idle /\ q.pc = "note"
        /\ UNCHANGED <<flows, lastId, books, keys, cases, range, post>>
    BY DEF NoteStored, At, RecordsOnly
  <1>2. DOMAIN q = RequestFields /\ Control(q)
    BY <1>1, RequestKnown
  <1>3. CASE Answer(t, "flow_not_stored") /\ UNCHANGED notes
    <2>1. Still
      BY <1>1, <1>3 DEF Still
    <2>2. "flow_not_stored" \notin Noticed
      BY DEF Noticed, Heeded
    <2> QED
      BY <1>1, <1>3, <2>1, <2>2, RefusesStill
  <1>4. CASE notes' = Logged(t) /\ Answer(t, "recorded")
    <2>1. MovesTo(t, "reply", "recorded")
      BY <1>4 DEF Answer, MovesTo
    <2>2. PICK r : /\ req' = [req EXCEPT ![t] = r] /\ Carries(r, q)
                   /\ r.pc = "reply" /\ r.outcome = "recorded"
      BY <1>1, <2>1, AnswerCarries
    <2>3. r.kind = "note" /\ r.flow \in Nat
      BY <1>1, <1>2, <2>2 DEF Control, Carries
    <2>4. Control(r) /\ r.kind \in Recording
      BY <2>2, <2>3 DEF Control, Sensing, Seeding, Stitching, Calling, Recording
    <2>5. notes' = [notes EXCEPT !.log = notes.log \cup {Word(r)}]
      BY <1>4, <2>2 DEF Logged, Word, Carries
    <2>6. NotesTrue
      BY DEF ConsoleInv, SharedTrue
    <2>7. NotesTrue' /\ notes'.log = notes.log \cup {Word(r)}
      BY <2>5, <2>6 DEF NotesTrue
    <2>8. SharedTrue' /\ Grows
      BY <1>1, <2>2, <2>7, NotesKeep
    <2>9. RecordsAlone(r)'
      BY <2>2, <2>3, <2>7 DEF RecordsAlone, Word
    <2> QED
      BY <1>1, <2>2, <2>4, <2>8, <2>9, RecordGoes DEF Carries
  <1> QED
    BY <1>3, <1>4 DEF NoteStored

(* The analyst's stamp. *)
LEMMA StampsStored ==
    ASSUME ConsoleInv, NEW t \in Threads, StampStored(t)
    PROVE  ConsoleInv'
  <1> DEFINE q == req[t]
  <1>1. /\ req[t] # Idle /\ q.pc = "stamp" /\ UNCHANGED <<notes, RecordsOnly>>
        /\ Signed(t, "stamp")
    BY DEF StampStored, At
  <1>2. UNCHANGED <<lastId, post, notes>>
    BY <1>1 DEF RecordsOnly
  <1>3. /\ DOMAIN q = RequestFields /\ Control(q) /\ (q.alone => RecordsAlone(q))
    BY <1>1, RequestKnown DEF AloneTrue
  <1>4. /\ q.kind \in {"verdict", "triage", "assignment", "approve"} /\ q.flow \in Nat
        /\ q.outcome \in {None, "stored", "approved"}
    BY <1>1, <1>3 DEF Control
  <1>5. /\ DOMAIN flows' = DOMAIN flows
        /\ \A f \in DOMAIN flows : \A x \in RowFields \ {"stamp"} : flows'[f][x] = flows[f][x]
        /\ q.flow \in DOMAIN flows => flows'[q.flow].stamp = q.actor
    BY <1>1, <1>2, SignedRow
  <1>6. PICK pc, outcome :
            IF q.kind = "verdict" THEN pc = "memory" /\ outcome = q.outcome
            ELSE pc = "reply" /\ outcome = IF q.outcome = None THEN "recorded" ELSE q.outcome
    OBVIOUS
  <1>7. PICK r : /\ req' = [req EXCEPT ![t] = r] /\ Carries(r, q)
                 /\ r.pc = pc /\ r.outcome = outcome
    <2>1. CASE q.kind = "verdict"
      <3>1. Goto(t, pc)
        BY <1>6, <2>1 DEF StampStored, Goto
      <3> QED BY <1>1, <1>6, <2>1, <3>1, GotoCarries
    <2>2. CASE q.kind # "verdict"
      <3>1. MovesTo(t, pc, outcome)
        BY <1>6, <2>2 DEF StampStored, MovesTo
      <3> QED BY <1>1, <3>1, AnswerCarries
    <2> QED BY <2>1, <2>2
  <1>8. r.kind = q.kind /\ r.flow = q.flow /\ r.actor = q.actor /\ r.row = q.row /\ r.alone = q.alone
    BY <1>7 DEF Carries
  <1>9. Control(r) /\ r.kind \in Recording /\ r.outcome \in {None, "stored", "approved", "recorded"}
    BY <1>4, <1>6, <1>7, <1>8 DEF Control, Sensing, Seeding, Stitching, Calling, Recording
  <1>10. SharedTrue' /\ Grows
    BY <1>1, <1>7, SignedKeeps
  <1>11. ASSUME r.alone PROVE RecordsAlone(r)'
    <2>1. CASE q.kind = "approve"
      BY <1>6, <1>7, <1>8, <2>1 DEF RecordsAlone
    <2>2. CASE q.kind # "approve"
      <3>1. Signs(q) /\ (q.kind = "verdict" => Holds(q))
        BY <1>1, <1>3, <1>8, <1>11, <2>2 DEF RecordsAlone
      <3>2. Signs(r)' /\ flows'[r.flow].stamp = r.actor
        BY <1>2, <1>5, <1>8, <3>1 DEF Signs, Word, RowFields
      <3>3. q.kind = "verdict" => Holds(r)'
        BY <1>5, <1>8, <3>1 DEF Holds, RowFields
      <3> QED
        BY <1>4, <1>6, <1>7, <1>8, <3>2, <3>3 DEF RecordsAlone
    <2> QED BY <2>1, <2>2
  <1>12. r.pc \in {"memory", "reply"}
    BY <1>6, <1>7
  <1> QED
    BY <1>1, <1>2, <1>7, <1>9, <1>10, <1>11, <1>12, RecordGoes DEF Carries

(* What the endpoints of the row are remembered for. *)
LEMMA MemoriesStored ==
    ASSUME ConsoleInv, NEW t \in Threads, MemoryStored(t)
    PROVE  ConsoleInv'
  <1> DEFINE q == req[t]
  <1>1. /\ req[t] # Idle /\ q.pc = "memory" /\ Answer(t, "recorded")
        /\ UNCHANGED <<flows, lastId, books, keys, cases, range, post>>
        /\ notes' = Remembered(q.row, Word(q))
    BY DEF MemoryStored, At, RecordsOnly, Word
  <1>2. /\ DOMAIN q = RequestFields /\ Control(q) /\ (q.alone => RecordsAlone(q))
    BY <1>1, RequestKnown DEF AloneTrue
  <1>3. MovesTo(t, "reply", "recorded")
    BY <1>1 DEF Answer, MovesTo
  <1>4. PICK r : /\ req' = [req EXCEPT ![t] = r] /\ Carries(r, q)
                 /\ r.pc = "reply" /\ r.outcome = "recorded"
    BY <1>1, <1>3, AnswerCarries
  <1>5. r.kind \in {"memory", "verdict"} /\ r.flow \in Nat
    BY <1>1, <1>2, <1>4 DEF Control, Carries
  <1>6. Control(r) /\ r.kind \in Recording
    BY <1>4, <1>5 DEF Control, Sensing, Seeding, Stitching, Calling, Recording
  <1>7. NotesTrue
    BY DEF ConsoleInv, SharedTrue
  <1>8. /\ DOMAIN notes' = DOMAIN notes /\ notes'.log = notes.log
        /\ notes'.briefs = notes.briefs /\ notes'.briefsOnDisk = notes.briefsOnDisk
        /\ DOMAIN notes'.memory = Endpoints
        /\ \A e \in Endpoints : e \in Entities(q.row) => notes'.memory[e] = Word(q)
    BY <1>1, <1>7 DEF Remembered, NotesTrue
  <1>9. NotesTrue'
    BY <1>7, <1>8 DEF NotesTrue
  <1>10. SharedTrue' /\ Grows
    BY <1>1, <1>4, <1>8, <1>9, NotesKeep
  <1>11. ASSUME r.alone PROVE RecordsAlone(r)'
    <2>1. r.flow = q.flow /\ r.actor = q.actor /\ r.kind = q.kind /\ r.row = q.row /\ Word(r) = Word(q)
      BY <1>4 DEF Carries, Word
    <2>2. /\ q.flow \in DOMAIN flows /\ q.row.shape = flows[q.flow].shape
          /\ q.kind = "verdict" => Signs(q) /\ flows[q.flow].stamp = q.actor
      BY <1>1, <1>2, <1>4, <1>5, <1>11, <2>1 DEF RecordsAlone, Holds, Carries
    <2>3. Entities(q.row) = Entities(flows[r.flow])
      BY <2>1, <2>2 DEF Entities
    <2>4. Entities(flows[r.flow]) \subseteq Endpoints
      <3>1. flows[r.flow].shape \in Shapes
        BY <2>1, <2>2 DEF ConsoleInv, SharedTrue, RowsTrue
      <3> QED BY <3>1 DEF Entities, Endpoints
    <2>5. \A e \in Entities(flows'[r.flow]) : notes'.memory[e] = Word(r)
      BY <1>1, <1>8, <2>1, <2>3, <2>4
    <2>6. r.kind = "verdict" => Signs(r)' /\ flows'[r.flow].stamp = r.actor
      BY <1>1, <2>1, <2>2 DEF Signs
    <2> QED
      BY <1>4, <1>5, <2>5, <2>6 DEF RecordsAlone, Word
  <1> QED
    BY <1>1, <1>4, <1>6, <1>10, <1>11, RecordGoes DEF Carries

(* Every step of an analyst's record keeps the invariant. *)
LEMMA RecordKeeps ==
    ASSUME ConsoleInv, NEW t \in Threads, RecordStep(t)
    PROVE  ConsoleInv'
  BY RecordRoutes, RowsLoaded, VerdictsStored, TriagesStored, NotesStored, StampsStored,
     MemoriesStored DEF RecordStep

-----------------------------------------------------------------------------
(* What the console tells about a row. *)
LEMMA AdviceGoes ==
    ASSUME ConsoleInv, SharedTrue', Grows, post' = post, NEW t \in Threads, req[t] # Idle, NEW r,
           req' = [req EXCEPT ![t] = r], DOMAIN r = RequestFields, r.flow \in Nat,
           \/ /\ r.pc \in {"cache", "cache_disk", "ask", "brief_disk", "handoff_events"}
              /\ r.outcome \in {None, "stored", "approved"}
           \/ r.pc = "reply" /\ r.outcome \in {"gemini_grounded", "grounded_brief"},
           Advises(r)', r.alone => req[t].alone
    PROVE  ConsoleInv'
  <1>1. r.outcome \notin Noticed \ {"stored", "gemini_grounded", "grounded_brief"}
    BY ConsoleAssumption DEF Noticed, Heeded
  <1>2. Control(r)
    BY <1>1 DEF Control, Sensing, Seeding, Stitching, Calling
  <1>3. Responds(r)' /\ Awaits(r, post[t])'
    BY DEF Responds, Awaits, Calling
  <1>4. RecordsAlone(r)' /\ RangeAlone(r)'
    BY <1>1 DEF RecordsAlone, RangeAlone, Noticed, Heeded
  <1>5. EventAlone(r)' /\ ScenarioAlone(r)'
    BY <1>1 DEF EventAlone, ScenarioAlone, Stitching, Sensing, Noticed, Heeded
  <1>6. TrueRequest(r, post[t])'
    BY <1>2, <1>3, <1>4, <1>5 DEF TrueRequest, AloneTrue, Control
  <1> QED
    BY <1>6, RequestMoves

(* Briefs are kept under the row they are of. *)
LEMMA CacheKeeps ==
    ASSUME NotesTrue, NEW where \in {"briefs", "briefsOnDisk"}, NEW f, NEW brief, brief.born = f,
           notes' = Cache(where, f, brief)
    PROVE  NotesTrue' /\ notes'.log = notes.log
  <1>1. PICK c : c = Over([k \in {CacheKey(f)} |-> brief], notes[where])
    OBVIOUS
  <1>2. notes' = [notes EXCEPT ![where] = c]
    BY <1>1 DEF Cache
  <1>3. \A g \in DOMAIN c : c[g].born = g
    BY <1>1 DEF Over, CacheKey, NotesTrue
  <1> QED
    BY <1>2, <1>3 DEF NotesTrue

(* A brief is served. *)
LEMMA AdvisedGoes ==
    ASSUME ConsoleInv, SharedTrue', Grows, post' = post, NEW t \in Threads, req[t] # Idle,
           req[t].pc \in {"cache", "cache_disk", "ask", "brief_disk"},
           NEW brief, brief.born = req[t].flow, Advised(t, brief)
    PROVE  ConsoleInv'
  <1> DEFINE q == req[t]
  <1>1. DOMAIN q = RequestFields /\ Control(q) /\ Advises(q)
    BY RequestKnown
  <1>2. PICK r : r = [q EXCEPT !.pc = "reply", !.outcome = "gemini_grounded", !.brief = brief]
    OBVIOUS
  <1>3. req' = [req EXCEPT ![t] = r]
    BY <1>2 DEF Advised
  <1>4. /\ DOMAIN r = RequestFields /\ r.pc = "reply" /\ r.outcome = "gemini_grounded"
        /\ r.brief = brief /\ r.row = q.row /\ r.flow = q.flow /\ r.alone = q.alone
    BY <1>1, <1>2 DEF RequestFields
  <1>5. Advises(r)' /\ r.flow \in Nat
    BY <1>1, <1>4 DEF Advises, Control
  <1> QED
    BY <1>3, <1>4, <1>5, AdviceGoes

(* A row is read, to be told about. *)
LEMMA AdviceReads ==
    ASSUME ConsoleInv, NEW t \in Threads, AdviceRead(t) \/ HandoffRow(t)
    PROVE  ConsoleInv'
  <1> DEFINE q == req[t]
  <1>1. /\ Still /\ post' = post /\ flows' = flows /\ req[t] # Idle
        /\ q.pc \in {"advice", "handoff_row"}
    BY DEF AdviceRead, HandoffRow, AdviceOnly, Still, At
  <1>2. DOMAIN q = RequestFields /\ Control(q)
    BY <1>1, RequestKnown
  <1>3. ASSUME NEW outcome \in {"local_corpus", "local_flow_brief", "flow_not_stored"},
               Answer(t, outcome)
        PROVE  ConsoleInv'
    <2>1. outcome \notin Noticed
      BY DEF Noticed, Heeded
    <2> QED
      BY <1>1, <1>3, <2>1, RefusesStill
  <1>4. ASSUME NEW pc \in {"cache", "handoff_events"}, q.flow \in DOMAIN flows,
               req' = [req EXCEPT ![t].row = flows[q.flow], ![t].pc = pc]
        PROVE  ConsoleInv'
    <2>1. PICK r : r = [q EXCEPT !.row = flows[q.flow], !.pc = pc]
      OBVIOUS
    <2>2. req' = [req EXCEPT ![t] = r]
      BY <1>4, <2>1
    <2>3. /\ DOMAIN r = RequestFields /\ r.pc = pc /\ r.flow = q.flow
          /\ r.alone = q.alone /\ r.outcome = q.outcome /\ r.row = flows[q.flow]
      BY <1>2, <2>1 DEF RequestFields
    <2>4. r.outcome \in {None, "stored", "approved"} /\ r.flow \in Nat
      BY <1>1, <1>2, <2>3 DEF Control
    <2>5. /\ r.row.born = r.flow
          /\ r.row.triage # None => <<"triage", r.flow, r.row.triage>> \in notes.log
      BY <1>4, <2>3 DEF ConsoleInv, SharedTrue, RowsTrue, TriageLogged
    <2>6. Advises(r)'
      BY <1>1, <2>3, <2>4, <2>5, OpenOutcome DEF Advises, Heeded, Still
    <2>7. SharedTrue' /\ Grows
      BY <1>1, <2>2, StillThreads
    <2> QED
      BY <1>1, <2>2, <2>3, <2>4, <2>6, <2>7, AdviceGoes
  <1> QED
    BY <1>3, <1>4 DEF AdviceRead, HandoffRow

(* A request for a brief goes on with its row. *)
LEMMA AdviceGoesOn ==
    ASSUME ConsoleInv, SharedTrue', Grows, post' = post, NEW t \in Threads, req[t] # Idle,
           req[t].pc \in {"cache", "cache_disk", "ask", "brief_disk"},
           NEW pc \in {"cache", "cache_disk", "ask", "brief_disk"}, Goto(t, pc)
    PROVE  ConsoleInv'
  <1> DEFINE q == req[t]
  <1>1. DOMAIN q = RequestFields /\ Control(q) /\ Advises(q)
    BY RequestKnown
  <1>2. PICK r : /\ req' = [req EXCEPT ![t] = r] /\ Carries(r, q)
                 /\ r.pc = pc /\ r.outcome = q.outcome
    BY GotoCarries
  <1>3. r.outcome \in {None, "stored", "approved"} /\ r.flow \in Nat
    BY <1>1, <1>2 DEF Control, Carries
  <1>4. Advises(r)'
    BY <1>1, <1>2, <1>3, OpenOutcome DEF Advises, Heeded, Carries
  <1> QED
    BY <1>2, <1>3, <1>4, AdviceGoes DEF Carries

(* The brief in memory, else the one on disk, else Gemini's. *)
LEMMA CacheReads ==
    ASSUME ConsoleInv, NEW t \in Threads, CacheRead(t) \/ DiskCacheRead(t)
    PROVE  ConsoleInv'
  <1> DEFINE q == req[t]
  <1>1. /\ post' = post /\ req[t] # Idle /\ q.pc \in {"cache", "cache_disk", "ask", "brief_disk"}
        /\ UNCHANGED <<flows, lastId, books, keys, cases, range, post>>
    BY DEF CacheRead, DiskCacheRead, AdviceOnly, At
  <1>2. NotesTrue /\ SharedTrue
    BY DEF ConsoleInv, SharedTrue
  <1>3. PICK r : req' = [req EXCEPT ![t] = r]
    BY DEF CacheRead, DiskCacheRead, Advised, Goto
  <1>4. ASSUME UNCHANGED notes PROVE SharedTrue' /\ Grows
    <2>1. Still
      BY <1>1, <1>4 DEF Still
    <2> QED BY <1>1, <1>3, <2>1, StillThreads
  <1>5. CASE UNCHANGED notes /\ (Goto(t, "cache_disk") \/ Goto(t, "ask"))
    BY <1>1, <1>4, <1>5, AdviceGoesOn
  <1>6. CASE /\ UNCHANGED notes /\ Cached("briefs", q.flow)
             /\ Advised(t, notes.briefs[CacheKey(q.flow)])
    <2>1. notes.briefs[CacheKey(q.flow)].born = q.flow
      BY <1>2, <1>6 DEF NotesTrue, Cached, CacheKey
    <2> QED
      BY <1>1, <1>4, <1>6, <2>1, AdvisedGoes
  <1>7. CASE /\ Cached("briefsOnDisk", q.flow)
             /\ notes' = Cache("briefs", q.flow, notes.briefsOnDisk[CacheKey(q.flow)])
             /\ Advised(t, notes.briefsOnDisk[CacheKey(q.flow)])
    <2>1. notes.briefsOnDisk[CacheKey(q.flow)].born = q.flow
      BY <1>2, <1>7 DEF NotesTrue, Cached, CacheKey
    <2>2. NotesTrue' /\ notes'.log = notes.log
      BY <1>2, <1>7, <2>1, CacheKeeps
    <2>3. SharedTrue' /\ Grows
      BY <1>1, <1>3, <2>2, NotesKeep
    <2> QED
      BY <1>1, <1>7, <2>1, <2>3, AdvisedGoes
  <1> QED
    BY <1>5, <1>6, <1>7 DEF CacheRead, DiskCacheRead

(* A new brief is stored. *)
LEMMA BriefsStored ==
    ASSUME ConsoleInv, NEW t \in Threads, Asked(t) \/ BriefStored(t)
    PROVE  ConsoleInv'
  <1> DEFINE q == req[t]
  <1>1. /\ post' = post /\ req[t] # Idle /\ q.pc \in {"cache", "cache_disk", "ask", "brief_disk"}
        /\ UNCHANGED <<flows, lastId, books, keys, cases, range, post>>
    BY DEF Asked, BriefStored, AdviceOnly, At
  <1>2. NotesTrue /\ SharedTrue
    BY DEF ConsoleInv, SharedTrue
  <1>3. Brief(q.row).born = q.flow
    BY <1>1, RequestKnown DEF Advises, Brief
  <1>4. PICK r : req' = [req EXCEPT ![t] = r]
    BY DEF Asked, BriefStored, Advised, Goto, Answer
  <1>5. ASSUME UNCHANGED notes PROVE Still /\ SharedTrue' /\ Grows
    <2>1. Still
      BY <1>1, <1>5 DEF Still
    <2> QED BY <1>1, <1>4, <2>1, StillThreads
  <1>6. ASSUME NEW where \in {"briefs", "briefsOnDisk"}, notes' = Cache(where, q.flow, Brief(q.row))
        PROVE  SharedTrue' /\ Grows
    <2>1. NotesTrue' /\ notes'.log = notes.log
      BY <1>2, <1>3, <1>6, CacheKeeps
    <2> QED
      BY <1>1, <1>4, <2>1, NotesKeep
  <1>7. CASE Answer(t, "local_flow_brief") /\ UNCHANGED notes
    <2>1. "local_flow_brief" \notin Noticed
      BY DEF Noticed, Heeded
    <2> QED
      BY <1>1, <1>5, <1>7, <2>1, RefusesStill
  <1>8. CASE notes' = Cache("briefs", q.flow, Brief(q.row)) /\ Goto(t, "brief_disk")
    BY <1>1, <1>6, <1>8, AdviceGoesOn
  <1>9. CASE BriefStored(t)
    <2>1. SharedTrue' /\ Grows
      BY <1>5, <1>6, <1>9 DEF BriefStored
    <2>2. Advised(t, Brief(q.row))
      BY <1>9 DEF BriefStored
    <2> QED
      BY <1>1, <1>3, <2>1, <2>2, AdvisedGoes
  <1> QED
    BY <1>7, <1>8, <1>9 DEF Asked

(* The handoff reads the row, then its events. *)
LEMMA HandoffsTold ==
    ASSUME ConsoleInv, NEW t \in Threads, HandoffEvents(t)
    PROVE  ConsoleInv'
  <1> DEFINE q == req[t]
  <1>1. /\ Still /\ post' = post /\ req[t] # Idle /\ q.pc = "handoff_events"
    BY DEF HandoffEvents, AdviceOnly, Still, At
  <1>2. DOMAIN q = RequestFields /\ Control(q) /\ Advises(q)
    BY <1>1, RequestKnown
  <1>3. PICK outcome \in {"grounded_brief", "explanation_not_grounded"} :
            req' = [req EXCEPT ![t].read = TriageEvents(q.flow), ![t].pc = "reply",
                               ![t].outcome = outcome]
    BY DEF HandoffEvents
  <1>4. PICK r : r = [q EXCEPT !.read = TriageEvents(q.flow), !.pc = "reply", !.outcome = outcome]
    OBVIOUS
  <1>5. req' = [req EXCEPT ![t] = r]
    BY <1>3, <1>4
  <1>6. /\ DOMAIN r = RequestFields /\ r.pc = "reply" /\ r.flow = q.flow /\ r.outcome = outcome
        /\ r.alone = q.alone /\ r.row = q.row /\ r.read = TriageEvents(q.flow)
    BY <1>2, <1>4 DEF RequestFields
  <1>7. r.flow \in Nat
    BY <1>2, <1>6 DEF Control
  <1>8. SharedTrue' /\ Grows
    BY <1>1, <1>5, StillThreads
  <1>9. CASE outcome = "grounded_brief"
    <2>1. Advises(r)'
      BY <1>1, <1>2, <1>6, <1>9 DEF Advises, TriageEvents
    <2> QED
      BY <1>1, <1>5, <1>6, <1>7, <1>8, <1>9, <2>1, AdviceGoes
  <1>10. CASE outcome = "explanation_not_grounded"
    <2>1. TrueRequest(r, post[t])'
      BY <1>6, <1>7, <1>10, PlainReply DEF Noticed, Heeded
    <2> QED
      BY <1>1, <1>5, <1>6, <1>8, <2>1, RequestMoves
  <1> QED BY <1>9, <1>10

(* Every step of the copilot keeps the invariant. *)
LEMMA AdviceKeeps ==
    ASSUME ConsoleInv, NEW t \in Threads, AdviceStep(t)
    PROVE  ConsoleInv'
  BY AdviceRoutes, AdviceReads, CacheReads, BriefsStored, HandoffsTold DEF AdviceStep

-----------------------------------------------------------------------------
(* The response. *)
Responding == {"approve", "dispatch", "contain", "rollback"}
Ranging == {"drop_check", "drop", "probe", "applied", "undo", "remove", "rolled_back"}

(* A request of the response has nothing to show of records, events or *)
(* scenarios.                                                          *)
LEMMA ResponseRequest ==
    ASSUME NEW r, NEW t, DOMAIN r = RequestFields, Control(r), r.kind \in Responding,
           r.pc \in {"recommend", "decide", "receipt", "stamp"} \cup Calling \cup Ranging,
           r.outcome \in {None, "stored", "approved"}, Responds(r)', Awaits(r, post[t])',
           r.alone => RangeAlone(r)'
    PROVE  TrueRequest(r, post[t])'
  <1>1. r.outcome \notin Heeded
    BY OpenOutcome
  <1>2. Advises(r)'
    BY <1>1 DEF Advises, Heeded, Calling, Ranging
  <1>3. RecordsAlone(r)'
    BY <1>1 DEF RecordsAlone, Heeded, Calling, Ranging, Control, Responding
  <1>4. EventAlone(r)' /\ ScenarioAlone(r)'
    BY DEF EventAlone, ScenarioAlone, Responding
  <1> QED
    BY <1>2, <1>3, <1>4 DEF TrueRequest, AloneTrue, Control

(* Outside the range there is nothing to say about it. *)
LEMMA OutOfRange ==
    ASSUME NEW r, r.pc \in {"recommend", "decide", "receipt", "stamp"} \cup Calling
    PROVE  RangeAlone(r)'
  BY DEF RangeAlone, Calling

(* The oldest playbook of a row in given states is one of them. *)
LEMMA FirstBook ==
    ASSUME ConsoleInv, NEW f, NEW states, Books(f, states) # {}
    PROVE  /\ FirstOf(Books(f, states)) \in DOMAIN books /\ FirstOf(Books(f, states)) \in Nat
           /\ books[FirstOf(Books(f, states))].candidate = f
           /\ books[FirstOf(Books(f, states))].state \in states
  <1>1. books \in Seq(BookRecord)
    BY DEF ConsoleInv, SharedTrue, LedgerTrue
  <1>2. Books(f, states) \subseteq Nat
    BY <1>1 DEF Books
  <1>3. \E x \in Books(f, states) : \A y \in Books(f, states) : x <= y
    BY <1>2, SmallestOf
  <1>4. FirstOf(Books(f, states)) \in Books(f, states)
    BY <1>3 DEF FirstOf
  <1> QED
    BY <1>2, <1>4 DEF Books, Candidate

(* The approval reads its row. *)
LEMMA ApproveReads ==
    ASSUME ConsoleInv, NEW t \in Threads, ApproveRead(t)
    PROVE  ConsoleInv'
  <1> DEFINE q == req[t]
  <1>1. /\ Still /\ post' = post /\ req[t] # Idle /\ q.pc = "approve"
    BY DEF ApproveRead, FlowsOnly, Still, At
  <1>2. DOMAIN q = RequestFields /\ Control(q)
    BY <1>1, RequestKnown
  <1>3. CASE Answer(t, "flow_not_stored")
    <2>1. "flow_not_stored" \notin Noticed
      BY DEF Noticed, Heeded
    <2> QED
      BY <1>1, <1>3, <2>1, RefusesStill
  <1>4. CASE q.flow \in DOMAIN flows
    <2> DEFINE approved == Books(q.flow, {"approved"})
               pending == Books(q.flow, {"pending"})
    <2>1. PICK pc, b :
              /\ pc = IF approved # {} THEN "receipt" ELSE IF pending # {} THEN "decide" ELSE "recommend"
              /\ b = IF approved # {} THEN FirstOf(approved) ELSE IF pending # {} THEN FirstOf(pending) ELSE 0
      OBVIOUS
    <2>2. PICK r : r = [q EXCEPT !.row = flows[q.flow], !.pc = pc, !.book = b]
      OBVIOUS
    <2>3. req' = [req EXCEPT ![t] = r]
      BY <1>4, <2>1, <2>2 DEF ApproveRead
    <2>4. /\ DOMAIN r = RequestFields /\ r.kind = q.kind /\ r.pc = pc /\ r.flow = q.flow
          /\ r.alone = q.alone /\ r.outcome = q.outcome /\ r.row = flows[q.flow] /\ r.book = b
      BY <1>2, <2>2 DEF RequestFields
    <2>5. pc \in {"receipt", "decide", "recommend"}
      BY <2>1
    <2>6. r.kind = "approve" /\ r.outcome \in {None, "stored", "approved"} /\ r.flow \in Nat
      BY <1>1, <1>2, <2>4 DEF Control
    <2>7. Control(r)
      BY <2>4, <2>5, <2>6 DEF Control, Sensing, Seeding, Stitching, Calling
    <2>8. pc = "decide" => b \in DOMAIN books /\ books[b].candidate = q.flow
      BY <2>1, FirstBook
    <2>9. flows[q.flow].born = q.flow
      BY <1>4 DEF ConsoleInv, SharedTrue, RowsTrue
    <2>10. Responds(r)' /\ Awaits(r, post[t])'
      BY <1>1, <2>4, <2>5, <2>8, <2>9 DEF Responds, Awaits, Calling, Still
    <2>11. SharedTrue' /\ Grows
      BY <1>1, <2>3, StillThreads
    <2>12. TrueRequest(r, post[t])'
      BY <2>4, <2>5, <2>6, <2>7, <2>10, OutOfRange, ResponseRequest DEF Responding
    <2> QED
      BY <1>1, <2>3, <2>4, <2>11, <2>12, RequestMoves
  <1> QED
    BY <1>3, <1>4 DEF ApproveRead

(* Only the ledger changes, and only grows. *)
LEMMA LedgerKeeps ==
    ASSUME ConsoleInv, UNCHANGED <<flows, lastId, keys, range, notes>>, LedgerTrue', Grows,
           DOMAIN req' = Threads, DOMAIN post' = Threads
    PROVE  SharedTrue'
  <1>1. SharedTrue
    BY DEF ConsoleInv
  <1>2. RowsTrue' /\ RangeTrue' /\ NotesTrue' /\ TriageLogged'
    BY <1>1 DEF SharedTrue, RowsTrue, RangeTrue, NotesTrue, TriageLogged
  <1>3. KeysTrue'
    BY <1>1 DEF SharedTrue, KeysTrue, Approved, Grows
  <1>4. ReceiptsTrue'
    <2>1. SUFFICES ASSUME NEW f \in DOMAIN flows, flows[f].recorded # 0
                   PROVE  /\ flows[f].recorded \in DOMAIN cases'
                          /\ cases'[flows[f].recorded] = f
                          /\ \E b \in DOMAIN books' :
                                /\ books'[b].state = "approved" /\ books'[b].candidate = f
                                /\ books'[b].timed /\ Key("callback", b)' \in keys.answered
      BY DEF ReceiptsTrue
    <2>2. flows[f].recorded \in DOMAIN cases /\ cases[flows[f].recorded] = f
      BY <1>1, <2>1 DEF SharedTrue, ReceiptsTrue
    <2>3. PICK b \in DOMAIN books :
              /\ books[b].state = "approved" /\ books[b].candidate = f /\ books[b].timed
              /\ Key("callback", b) \in keys.answered
      BY <1>1, <2>1 DEF SharedTrue, ReceiptsTrue
    <2>4. /\ b \in DOMAIN books' /\ books'[b].state = "approved" /\ books'[b].candidate = f
          /\ books'[b].timed /\ books'[b].version = books[b].version
      BY <2>3 DEF Grows
    <2>5. Key("callback", b)' \in keys.answered
      BY <2>3, <2>4 DEF Key
    <2> QED
      BY <2>2, <2>4, <2>5 DEF Grows
  <1> QED
    BY <1>2, <1>3, <1>4 DEF SharedTrue

(* A playbook is recommended for the row that was read. *)
LEMMA Recommends ==
    ASSUME ConsoleInv, NEW t \in Threads, Recommend(t)
    PROVE  ConsoleInv'
  <1> DEFINE q == req[t]
  <1>1. /\ req[t] # Idle /\ q.pc = "recommend"
        /\ UNCHANGED <<flows, lastId, keys, cases, range, notes, post>>
    BY DEF Recommend, At
  <1>2. DOMAIN q = RequestFields /\ Control(q) /\ Responds(q)
    BY <1>1, RequestKnown
  <1>3. /\ q.kind = "approve" /\ q.outcome \in {None, "stored", "approved"} /\ q.flow \in Nat
        /\ q.row.born = q.flow
    BY <1>1, <1>2 DEF Control, Responds
  <1>4. PICK b : b = [candidate |-> q.flow, state |-> "pending", version |-> 1, born |-> 0, timed |-> FALSE]
    OBVIOUS
  <1>5. books' = Append(books, b) /\ b \in BookRecord /\ b.state = "pending" /\ b.candidate = q.flow
    BY <1>3, <1>4 DEF Recommend, Candidate, BookRecord
  <1>6. LedgerTrue
    BY DEF ConsoleInv, SharedTrue
  <1>7. /\ DOMAIN books = 1 .. Len(books) /\ Len(books) \in Nat
        /\ DOMAIN books' = 1 .. Len(books) + 1 /\ books'[Len(books) + 1] = b
        /\ \A i \in DOMAIN books : books'[i] = books[i]
        /\ books' \in Seq(BookRecord)
    BY <1>5, <1>6 DEF LedgerTrue
  <1>8. LedgerTrue'
    BY <1>1, <1>5, <1>6, <1>7 DEF LedgerTrue
  <1>9. Grows
    BY <1>1, <1>7 DEF Grows
  <1>10. PICK r : r = [q EXCEPT !.pc = "decide", !.book = Len(books) + 1]
    OBVIOUS
  <1>11. req' = [req EXCEPT ![t] = r]
    BY <1>10 DEF Recommend
  <1>12. /\ DOMAIN r = RequestFields /\ r.kind = q.kind /\ r.pc = "decide" /\ r.flow = q.flow
         /\ r.alone = q.alone /\ r.outcome = q.outcome /\ r.row = q.row /\ r.book = Len(books) + 1
    BY <1>2, <1>10 DEF RequestFields
  <1>13. Control(r)
    BY <1>3, <1>12 DEF Control, Sensing, Seeding, Stitching, Calling
  <1>14. Responds(r)' /\ Awaits(r, post[t])'
    BY <1>3, <1>5, <1>7, <1>12 DEF Responds, Awaits, Calling
  <1>15. SharedTrue'
    <2>1. DOMAIN req' = Threads /\ DOMAIN post' = Threads
      BY <1>1, <1>11 DEF ConsoleInv, SharedTrue
    <2> QED
      BY <1>1, <1>8, <1>9, <2>1, LedgerKeeps
  <1>16. TrueRequest(r, post[t])'
    BY <1>3, <1>12, <1>13, <1>14, OutOfRange, ResponseRequest DEF Responding
  <1> QED
    BY <1>1, <1>9, <1>11, <1>12, <1>15, <1>16, RequestMoves

(* The analyst's decision, of the oldest pending playbook. *)
LEMMA Decides ==
    ASSUME ConsoleInv, NEW t \in Threads, Decide(t)
    PROVE  ConsoleInv'
  <1> DEFINE q == req[t]
             b == q.book
  <1>1. /\ req[t] # Idle /\ q.pc = "decide"
        /\ UNCHANGED <<flows, lastId, keys, cases, range, notes, post>>
    BY DEF Decide, At
  <1>2. DOMAIN q = RequestFields /\ Control(q) /\ Responds(q)
    BY <1>1, RequestKnown
  <1>3. /\ q.kind = "approve" /\ q.outcome \in {None, "stored", "approved"} /\ q.flow \in Nat
        /\ q.row.born = q.flow /\ b \in DOMAIN books /\ books[b].candidate = q.flow
    BY <1>1, <1>2 DEF Control, Responds
  <1>4. CASE Answer(t, "conflict") /\ UNCHANGED books
    <2>1. "conflict" \notin Noticed
      BY DEF Noticed, Heeded
    <2>2. Still
      BY <1>1, <1>4 DEF Still
    <2> QED
      BY <1>1, <1>4, <2>1, <2>2, RefusesStill
  <1>5. CASE /\ books[b].state = "pending" /\ Goto(t, "receipt")
             /\ books' = [books EXCEPT ![b].state = "approved", ![b].version = 2,
                                       ![b].born = q.row.born]
    <2>1. LedgerTrue
      BY DEF ConsoleInv, SharedTrue
    <2>2. PICK n : n = [books[b] EXCEPT !.state = "approved", !.version = 2, !.born = q.row.born]
      OBVIOUS
    <2>3. books' = [books EXCEPT ![b] = n]
      BY <1>5, <2>2
    <2>4. books[b] \in BookRecord
      BY <1>3, <2>1 DEF LedgerTrue
    <2>5. /\ n \in BookRecord /\ n.state = "approved" /\ n.version = 2 /\ n.born = q.flow
          /\ n.candidate = q.flow
      BY <1>3, <2>2, <2>4 DEF BookRecord
    <2>6. /\ DOMAIN books' = DOMAIN books /\ books'[b] = n /\ books' \in Seq(BookRecord)
          /\ \A i \in DOMAIN books : i # b => books'[i] = books[i]
      BY <1>3, <2>1, <2>3, <2>5 DEF LedgerTrue
    <2>7. LedgerTrue'
      BY <1>1, <2>1, <2>5, <2>6 DEF LedgerTrue
    <2>8. Grows
      BY <1>1, <1>3, <1>5, <2>5, <2>6 DEF Grows
    <2>9. PICK r : /\ req' = [req EXCEPT ![t] = r] /\ Carries(r, q)
                   /\ r.pc = "receipt" /\ r.outcome = q.outcome
      BY <1>1, <1>5, GotoCarries
    <2>10. Control(r)
      BY <1>3, <2>9 DEF Control, Carries, Sensing, Seeding, Stitching, Calling
    <2>11. Responds(r)' /\ Awaits(r, post[t])'
      BY <2>9 DEF Responds, Awaits, Calling
    <2>12. SharedTrue'
      <3>1. DOMAIN req' = Threads /\ DOMAIN post' = Threads
        BY <1>1, <2>9 DEF ConsoleInv, SharedTrue
      <3> QED
        BY <1>1, <2>7, <2>8, <3>1, LedgerKeeps
    <2>13. TrueRequest(r, post[t])'
      BY <1>3, <2>9, <2>10, <2>11, OutOfRange, ResponseRequest DEF Responding, Carries
    <2> QED
      BY <1>1, <2>8, <2>9, <2>12, <2>13, RequestMoves DEF Carries
  <1> QED
    BY <1>4, <1>5 DEF Decide

(* The row's receipt. *)
LEMMA ReceiptsStored ==
    ASSUME ConsoleInv, NEW t \in Threads, ReceiptStored(t)
    PROVE  ConsoleInv'
  <1> DEFINE q == req[t]
  <1>1. /\ req[t] # Idle /\ q.pc = "receipt" /\ flows' = FlowReceipt(q.flow, q.book)
        /\ UNCHANGED <<lastId, books, keys, cases, range, notes, post>>
        /\ MovesTo(t, "stamp", "approved")
    BY DEF ReceiptStored, FlowsOnly, At, MovesTo
  <1>2. DOMAIN q = RequestFields /\ Control(q)
    BY <1>1, RequestKnown
  <1>3. PICK r : /\ req' = [req EXCEPT ![t] = r] /\ Carries(r, q)
                 /\ r.pc = "stamp" /\ r.outcome = "approved"
    BY <1>1, AnswerCarries
  <1>4. r.kind = "approve" /\ r.flow \in Nat
    BY <1>1, <1>2, <1>3 DEF Control, Carries
  <1>5. Control(r)
    BY <1>3, <1>4 DEF Control, Sensing, Seeding, Stitching, Calling
  <1>6. Responds(r)' /\ Awaits(r, post[t])'
    BY <1>3 DEF Responds, Awaits, Calling
  <1>7. TrueRequest(r, post[t])'
    BY <1>3, <1>4, <1>5, <1>6, OutOfRange, ResponseRequest DEF Responding, Carries
  <1>8. DOMAIN req' = Threads /\ DOMAIN post' = Threads
    BY <1>1, <1>3 DEF ConsoleInv, SharedTrue
  <1>9. /\ Rewrites
        /\ \A f \in DOMAIN flows' : /\ flows'[f].recorded = flows[f].recorded
                                    /\ flows'[f].triage = flows[f].triage
    BY <1>1 DEF FlowReceipt, Rewrites, ConsoleInv, SharedTrue, RowsTrue, RowFields
  <1>10. SharedTrue' /\ Grows
    BY <1>1, <1>8, <1>9, RewriteKeeps
  <1> QED
    BY <1>1, <1>3, <1>7, <1>10, RequestMoves DEF Carries

-----------------------------------------------------------------------------
(* The dispatch. *)
LEMMA DispatchReads ==
    ASSUME ConsoleInv, NEW t \in Threads, DispatchRead(t)
    PROVE  ConsoleInv'
  <1> DEFINE q == req[t]
  <1>1. /\ Still /\ post' = post /\ req[t] # Idle /\ q.pc = "dispatch"
    BY DEF DispatchRead, FlowsOnly, Still, At
  <1>2. DOMAIN q = RequestFields /\ Control(q)
    BY <1>1, RequestKnown
  <1>3. ASSUME NEW outcome \in {"flow_not_stored", "already_recorded", "playbook_not_approved"},
               Answer(t, outcome)
        PROVE  ConsoleInv'
    <2>1. outcome \notin Noticed
      BY DEF Noticed, Heeded
    <2> QED
      BY <1>1, <1>3, <2>1, RefusesStill
  <1>4. CASE /\ q.flow \in DOMAIN flows /\ Books(q.flow, {"approved"}) # {}
             /\ req' = [req EXCEPT ![t].row = flows[q.flow],
                                   ![t].book = FirstOf(Books(q.flow, {"approved"})),
                                   ![t].pc = IF keys.webhook THEN "case" ELSE "verify"]
    <2>1. PICK b, pc : /\ b = FirstOf(Books(q.flow, {"approved"}))
                       /\ pc = IF keys.webhook THEN "case" ELSE "verify"
      OBVIOUS
    <2>2. PICK r : r = [q EXCEPT !.row = flows[q.flow], !.book = b, !.pc = pc]
      OBVIOUS
    <2>3. req' = [req EXCEPT ![t] = r]
      BY <1>4, <2>1, <2>2
    <2>4. /\ DOMAIN r = RequestFields /\ r.kind = q.kind /\ r.pc = pc /\ r.flow = q.flow
          /\ r.alone = q.alone /\ r.outcome = q.outcome /\ r.book = b
      BY <1>2, <2>2 DEF RequestFields
    <2>5. pc \in {"case", "verify"}
      BY <2>1
    <2>6. r.kind = "dispatch" /\ r.outcome \in {None, "stored", "approved"} /\ r.flow \in Nat
      BY <1>1, <1>2, <2>4 DEF Control
    <2>7. Control(r) /\ r.pc \in Calling
      BY <2>4, <2>5, <2>6 DEF Control, Sensing, Seeding, Stitching, Calling
    <2>8. Approved(b) /\ books[b].candidate = q.flow
      BY <1>4, <2>1, FirstBook DEF Approved
    <2>9. Responds(r)' /\ Awaits(r, post[t])'
      BY <1>1, <2>4, <2>5, <2>8 DEF Responds, Awaits, Calling, Still, Approved
    <2>10. SharedTrue' /\ Grows
      BY <1>1, <2>3, StillThreads
    <2>11. TrueRequest(r, post[t])'
      BY <2>4, <2>6, <2>7, <2>9, OutOfRange, ResponseRequest DEF Responding
    <2> QED
      BY <1>1, <2>3, <2>4, <2>10, <2>11, RequestMoves
  <1> QED
    BY <1>3, <1>4 DEF DispatchRead

(* A contract request for an approved playbook begins. *)
LEMMA ContractTrue ==
    ASSUME ConsoleInv, NEW scope \in Scopes, NEW b, Approved(b), NEW chained \in BOOLEAN
    PROVE  /\ Contract(scope, b, chained) # NoPost
           /\ Contract(scope, b, chained).book = b /\ Contract(scope, b, chained).scope = scope
           /\ Contracted(Contract(scope, b, chained))
  <1>1. b \in Nat /\ books[b] \in BookRecord
    BY DEF ConsoleInv, SharedTrue, LedgerTrue, Approved
  <1>2. Key(scope, b) \in KeyOf
    BY <1>1 DEF Key, KeyOf, BookRecord
  <1> DEFINE p == Contract(scope, b, chained)
  <1>3. /\ p \in PostRecord /\ p.book = b /\ p.scope = scope /\ p.key = Key(scope, b)
        /\ p.pc = "check" /\ p.status = 0
    BY <1>1, <1>2 DEF Contract, PostRecord
  <1>4. p.fresh \/ p.key \in keys.answered
    BY DEF Contract
  <1>5. p # NoPost
    <2>1. "book" \in DOMAIN p
      BY DEF Contract
    <2>2. "book" \notin DOMAIN NoPost
      BY DEF NoPost
    <2> QED BY <2>1, <2>2
  <1> HIDE DEF p
  <1>6. Contracted(p)
    BY <1>3, <1>4 DEF Contracted
  <1> QED BY <1>3, <1>5, <1>6 DEF p

(* A contract request is remembered as sent. *)
LEMMA SentKeeps ==
    ASSUME ConsoleInv, NEW scope \in Scopes, NEW b, Approved(b),
           keys' = [keys EXCEPT !.sent = @ \cup {<<scope, b>>}],
           UNCHANGED <<flows, lastId, books, cases, range, notes>>,
           DOMAIN req' = Threads, DOMAIN post' = Threads
    PROVE  /\ SharedTrue' /\ Grows /\ keys'.answered = keys.answered
           /\ keys'.unsure = keys.unsure
  <1>1. SharedTrue
    BY DEF ConsoleInv
  <1>2. b \in Nat
    BY <1>1 DEF SharedTrue, LedgerTrue, Approved
  <1>3. /\ keys'.memory = keys.memory /\ keys'.disk = keys.disk /\ keys'.answered = keys.answered
        /\ keys'.unsure = keys.unsure /\ keys'.sent = keys.sent \cup {<<scope, b>>}
        /\ keys' \in [memory : SUBSET KeyOf, disk : SUBSET KeyOf, answered : SUBSET KeyOf,
                      sent : SUBSET (Scopes \X Nat), unsure : SUBSET KeyOf, webhook : BOOLEAN]
    BY <1>1, <1>2 DEF SharedTrue, KeysTrue
  <1>4. KeysTrue'
    BY <1>1, <1>3 DEF SharedTrue, KeysTrue, Approved
  <1>5. RowsTrue' /\ LedgerTrue' /\ NotesTrue' /\ TriageLogged' /\ RangeTrue'
    BY <1>1 DEF SharedTrue, RowsTrue, LedgerTrue, NotesTrue, TriageLogged, RangeTrue
  <1>6. ReceiptsTrue'
    BY <1>1, <1>3 DEF SharedTrue, ReceiptsTrue, Key
  <1>7. Grows
    BY <1>3 DEF Grows
  <1> QED
    BY <1>3, <1>4, <1>5, <1>6, <1>7 DEF SharedTrue

(* A contract request is sent for an approved playbook. *)
LEMMA ContractsSent ==
    ASSUME ConsoleInv, NEW t \in Threads, VerifySent(t) \/ CallbackSent(t) \/ WebhookSent(t)
    PROVE  ConsoleInv'
  <1> DEFINE q == req[t]
  <1>1. PICK scope \in Scopes, chained \in BOOLEAN, pc \in {"await_verify", "await_callback", "await_n8n"} :
            /\ Sent(t, scope, chained, pc)
            /\ q.pc = CASE pc = "await_verify" -> "verify" [] pc = "await_callback" -> "callback"
                        [] OTHER -> "webhook"
            /\ pc = "await_callback" => scope = "callback"
    <2>1. CASE VerifySent(t)
      BY <2>1 DEF VerifySent, At, Scopes
    <2>2. CASE CallbackSent(t)
      BY <2>2 DEF CallbackSent, At, Scopes
    <2>3. CASE WebhookSent(t)
      BY <2>3 DEF WebhookSent, At, Scopes
    <2> QED BY <2>1, <2>2, <2>3
  <1>2. req[t] # Idle
    BY DEF VerifySent, CallbackSent, WebhookSent, At
  <1>3. DOMAIN q = RequestFields /\ Control(q) /\ Responds(q)
    BY <1>2, RequestKnown
  <1>4. q.pc \in {"verify", "callback", "webhook"}
    BY <1>1
  <1>5. /\ q.kind = "dispatch" /\ q.outcome \in {None, "stored", "approved"} /\ q.flow \in Nat
        /\ Approved(q.book) /\ books[q.book].candidate = q.flow
        /\ q.pc # "verify" => q.case \in DOMAIN cases /\ cases[q.case] = q.flow
    BY <1>3, <1>4 DEF Control, Responds, Calling
  <1>6. PICK r : /\ req' = [req EXCEPT ![t] = r] /\ Carries(r, q)
                 /\ r.pc = pc /\ r.outcome = q.outcome
    BY <1>1, <1>2, GotoCarries DEF Sent
  <1>7. PICK p : p = Contract(scope, q.book, chained)
    OBVIOUS
  <1>8. /\ post' = [post EXCEPT ![t] = p] /\ p # NoPost /\ p.book = q.book /\ p.scope = scope
        /\ Contracted(p)
    BY <1>1, <1>5, <1>7, ContractTrue DEF Sent
  <1>9. DOMAIN req = Threads /\ DOMAIN post = Threads
    BY DEF ConsoleInv, SharedTrue
  <1>10. DOMAIN req' = Threads /\ DOMAIN post' = Threads
    BY <1>6, <1>8, <1>9
  <1>11. /\ keys' = [keys EXCEPT !.sent = @ \cup {<<scope, q.book>>}]
         /\ UNCHANGED <<flows, lastId, books, cases, range, notes>>
    BY <1>1 DEF Sent
  <1>12. /\ SharedTrue' /\ Grows /\ keys'.answered = keys.answered /\ keys'.unsure = keys.unsure
    BY <1>5, <1>10, <1>11, SentKeeps
  <1>13. Elsewhere(t) /\ req'[t] = r /\ post'[t] = p /\ ~Quiet(t)
    BY <1>2, <1>6, <1>8, <1>9 DEF Elsewhere, Quiet
  <1>14. PostTrue(t)'
    BY <1>8, <1>11, <1>12, <1>13 DEF PostTrue, Contracted, Approved, Key
  <1>15. Control(r) /\ r.pc \in Calling /\ r.kind \in Responding
    BY <1>1, <1>5, <1>6 DEF Control, Carries, Sensing, Seeding, Stitching, Calling, Responding
  <1>16. Responds(r)'
    BY <1>1, <1>5, <1>6, <1>11 DEF Responds, Carries, Calling, Approved
  <1>17. Awaits(r, post[t])'
    BY <1>1, <1>6, <1>8, <1>13 DEF Awaits, Carries
  <1>18. TrueRequest(r, post[t])'
    BY <1>5, <1>6, <1>15, <1>16, <1>17, OutOfRange, ResponseRequest DEF Carries
  <1>19. req'[t] # Idle => TrueRequest(req[t], post[t])' /\ (req'[t].alone => req[t] # Idle /\ req[t].alone)
    BY <1>2, <1>6, <1>13, <1>18 DEF Carries
  <1> QED
    BY <1>12, <1>13, <1>14, <1>19, ThreadMoves

(* TheHive's case, created or found. *)
LEMMA CasesCreated ==
    ASSUME ConsoleInv, NEW t \in Threads, CaseCreated(t)
    PROVE  ConsoleInv'
  <1> DEFINE q == req[t]
  <1>1. /\ req[t] # Idle /\ q.pc = "case" /\ cases' = Append(cases, q.flow)
        /\ UNCHANGED <<flows, lastId, books, keys, range, notes, post>>
    BY DEF CaseCreated, At, RecordCase, Candidate
  <1>2. DOMAIN q = RequestFields /\ Control(q) /\ Responds(q)
    BY <1>1, RequestKnown
  <1>3. /\ q.kind = "dispatch" /\ q.outcome \in {None, "stored", "approved"} /\ q.flow \in Nat
        /\ Approved(q.book) /\ books[q.book].candidate = q.flow
    BY <1>1, <1>2 DEF Control, Responds, Calling
  <1>4. LedgerTrue
    BY DEF ConsoleInv, SharedTrue
  <1>5. /\ cases' \in Seq(Nat) /\ Len(cases) + 1 \in DOMAIN cases' /\ cases'[Len(cases) + 1] = q.flow
        /\ \A c \in DOMAIN cases : c \in DOMAIN cases' /\ cases'[c] = cases[c]
    BY <1>1, <1>3, <1>4 DEF LedgerTrue
  <1>6. PICK pc : pc = IF keys.webhook THEN "webhook" ELSE "callback"
    OBVIOUS
  <1>7. PICK r : r = [q EXCEPT !.case = Len(cases) + 1, !.pc = pc]
    OBVIOUS
  <1>8. req' = [req EXCEPT ![t] = r]
    BY <1>6, <1>7 DEF CaseCreated
  <1>9. /\ DOMAIN r = RequestFields /\ r.kind = q.kind /\ r.pc = pc /\ r.flow = q.flow
        /\ r.alone = q.alone /\ r.outcome = q.outcome /\ r.book = q.book /\ r.case = Len(cases) + 1
    BY <1>2, <1>7 DEF RequestFields
  <1>10. Control(r) /\ r.pc \in Calling /\ r.kind \in Responding
    BY <1>3, <1>6, <1>9 DEF Control, Sensing, Seeding, Stitching, Calling, Responding
  <1>11. Responds(r)' /\ Awaits(r, post[t])'
    BY <1>1, <1>3, <1>5, <1>6, <1>9 DEF Responds, Awaits, Calling, Approved
  <1>12. TrueRequest(r, post[t])'
    BY <1>3, <1>9, <1>10, <1>11, OutOfRange, ResponseRequest
  <1>13. LedgerTrue' /\ Grows
    BY <1>1, <1>4, <1>5 DEF LedgerTrue, Grows
  <1>14. DOMAIN req' = Threads /\ DOMAIN post' = Threads
    BY <1>1, <1>8 DEF ConsoleInv, SharedTrue
  <1>15. SharedTrue'
    BY <1>1, <1>13, <1>14, LedgerKeeps
  <1> QED
    BY <1>1, <1>8, <1>9, <1>12, <1>13, <1>15, RequestMoves

(* The answer came: the dispatch goes on with what it was told. *)
LEMMA AnswerAccepted ==
    ASSUME ConsoleInv, NEW t \in Threads, Still, req[t] # Idle,
           req[t].pc \in {"await_verify", "await_callback", "await_n8n"},
           post[t].pc = "done", post[t].status = 200,
           req[t].pc = "await_n8n" => post[t].scope = "callback",
           Goto(t, IF req[t].pc = "await_verify" THEN "case" ELSE "record"),
           post' = [post EXCEPT ![t] = NoPost]
    PROVE  ConsoleInv'
  <1> DEFINE q == req[t]
             p == post[t]
  <1>1. DOMAIN q = RequestFields /\ Control(q) /\ Responds(q) /\ Awaits(q, p)
    BY RequestKnown
  <1>2. /\ q.kind = "dispatch" /\ q.outcome \in {None, "stored", "approved"} /\ q.flow \in Nat
        /\ Approved(q.book) /\ books[q.book].candidate = q.flow
        /\ q.pc # "await_verify" => q.case \in DOMAIN cases /\ cases[q.case] = q.flow
    BY <1>1 DEF Control, Responds, Calling
  <1>3. p # NoPost /\ p.book = q.book /\ (q.pc = "await_callback" => p.scope = "callback")
    BY <1>1 DEF Awaits
  <1>4. Contracted(p)
    BY <1>3 DEF ConsoleInv, PostTrue
  <1>5. q.pc # "await_verify" => books[q.book].timed /\ Key("callback", q.book) \in keys.answered
    BY <1>3, <1>4 DEF Contracted
  <1>6. PICK pc : pc = IF q.pc = "await_verify" THEN "case" ELSE "record"
    OBVIOUS
  <1>7. PICK r : /\ req' = [req EXCEPT ![t] = r] /\ Carries(r, q)
                 /\ r.pc = pc /\ r.outcome = q.outcome
    BY <1>6, GotoCarries
  <1>8. DOMAIN req = Threads /\ DOMAIN post = Threads
    BY DEF ConsoleInv, SharedTrue
  <1>9. Elsewhere(t) /\ req'[t] = r /\ post'[t] = NoPost /\ ~Quiet(t)
    BY <1>7, <1>8 DEF Elsewhere, Quiet
  <1>10. SharedTrue' /\ Grows
    BY <1>7, <1>8, StillShared
  <1>11. PostTrue(t)'
    BY <1>9 DEF PostTrue, NoPost
  <1>12. Control(r) /\ r.pc \in Calling /\ r.kind \in Responding
    BY <1>2, <1>6, <1>7 DEF Control, Carries, Sensing, Seeding, Stitching, Calling, Responding
  <1>13. /\ books' = books /\ cases' = cases /\ keys' = keys
    BY DEF Still
  <1>14. Responds(r)' /\ Awaits(r, post[t])'
    BY <1>2, <1>5, <1>6, <1>7, <1>13 DEF Responds, Awaits, Carries, Calling, Approved, Key
  <1>15. TrueRequest(r, post[t])'
    BY <1>2, <1>7, <1>12, <1>14, OutOfRange, ResponseRequest DEF Carries
  <1>16. req'[t] # Idle => TrueRequest(req[t], post[t])' /\ (req'[t].alone => req[t] # Idle /\ req[t].alone)
    BY <1>7, <1>9, <1>15 DEF Carries
  <1> QED
    BY <1>9, <1>10, <1>11, <1>16, ThreadMoves

(* It was a refusal, or the client no longer waits. *)
LEMMA AnswerRefused ==
    ASSUME ConsoleInv, NEW t \in Threads, req[t] # Idle,
           UNCHANGED <<lastId, books, keys, cases, range, notes>>,
           NEW outcome, outcome \notin Noticed, Answer(t, outcome), NEW path,
           flows' = flows \/ PathMarked(req[t].flow, path),
           post' = post \/ post' = [post EXCEPT ![t] = NoPost]
    PROVE  ConsoleInv'
  <1> DEFINE q == req[t]
  <1>1. DOMAIN q = RequestFields /\ Control(q)
    BY RequestKnown
  <1>2. MovesTo(t, "reply", outcome)
    BY DEF Answer, MovesTo
  <1>3. PICK r : /\ req' = [req EXCEPT ![t] = r] /\ Carries(r, q)
                 /\ r.pc = "reply" /\ r.outcome = outcome
    BY <1>2, AnswerCarries
  <1>4. DOMAIN req = Threads /\ DOMAIN post = Threads
    BY DEF ConsoleInv, SharedTrue
  <1>5. /\ Elsewhere(t) /\ req'[t] = r /\ ~Quiet(t) /\ post'[t] \in {post[t], NoPost}
        /\ DOMAIN req' = Threads /\ DOMAIN post' = Threads
    BY <1>3, <1>4 DEF Elsewhere, Quiet
  <1>6. /\ Rewrites
        /\ \A f \in DOMAIN flows' : /\ flows'[f].recorded = flows[f].recorded
                                    /\ flows'[f].triage = flows[f].triage
    BY DEF PathMarked, Rewrites, ConsoleInv, SharedTrue, RowsTrue, RowFields
  <1>7. SharedTrue' /\ Grows
    BY <1>5, <1>6, RewriteKeeps
  <1>8. PostTrue(t)'
    <2>1. CASE post'[t] = NoPost
      BY <2>1 DEF PostTrue, NoPost
    <2>2. CASE post'[t] = post[t]
      BY <1>7, <2>2, OtherPost
    <2> QED BY <1>5, <2>1, <2>2
  <1>9. TrueRequest(r, post[t])'
    BY <1>1, <1>3, PlainReply DEF Carries, Control
  <1>10. req'[t] # Idle => TrueRequest(req[t], post[t])' /\ (req'[t].alone => req[t] # Idle /\ req[t].alone)
    BY <1>3, <1>5, <1>9 DEF Carries
  <1> QED
    BY <1>5, <1>7, <1>8, <1>10, ThreadMoves

(* The answer of the contract server, and n8n's. *)
LEMMA AnswersAwaited ==
    ASSUME ConsoleInv, NEW t \in Threads, Awaited(t)
    PROVE  ConsoleInv'
  <1> DEFINE q == req[t]
             p == post[t]
             accepted == /\ p.pc = "done" /\ p.status = 200
                         /\ q.pc = "await_n8n" => p.scope = "callback"
  <1>1. /\ req[t] # Idle /\ q.pc \in {"await_verify", "await_callback", "await_n8n"}
        /\ UNCHANGED <<lastId, books, keys, cases, range, notes>>
    BY DEF Awaited
  <1>2. CASE /\ accepted /\ Goto(t, IF q.pc = "await_verify" THEN "case" ELSE "record")
             /\ post' = [post EXCEPT ![t] = NoPost] /\ flows' = flows
    <2>1. Still
      BY <1>1, <1>2 DEF Still
    <2> QED
      BY <1>1, <1>2, <2>1, AnswerAccepted
  <1>3. CASE /\ Answer(t, Refusal(q.pc))
             /\ IF q.pc = "await_callback" THEN flows' = flows
                ELSE PathMarked(q.flow, IF q.pc = "await_n8n" THEN "n8n" ELSE "local")
             /\ post' = IF p.pc = "done" /\ ~Continues(p) THEN [post EXCEPT ![t] = NoPost] ELSE post
    <2>1. Refusal(q.pc) \notin Noticed
      BY <1>1 DEF Refusal, Noticed, Heeded
    <2>2. PICK path : path = IF q.pc = "await_n8n" THEN "n8n" ELSE "local"
      OBVIOUS
    <2>3. /\ flows' = flows \/ PathMarked(q.flow, path)
          /\ post' = post \/ post' = [post EXCEPT ![t] = NoPost]
      BY <1>3, <2>2
    <2>4. PICK outcome : outcome = Refusal(q.pc)
      OBVIOUS
    <2> QED
      BY <1>1, <1>3, <2>1, <2>3, <2>4, AnswerRefused
  <1> QED
    BY <1>2, <1>3 DEF Awaited

(* The callback is recorded in the row. *)
LEMMA CallbacksStored ==
    ASSUME ConsoleInv, NEW t \in Threads, CallbackStored(t)
    PROVE  ConsoleInv'
  <1> DEFINE q == req[t]
  <1>1. PICK path : flows' = CallbackReceipt(q.flow, q.case, path)
    BY DEF CallbackStored
  <1>2. /\ req[t] # Idle /\ q.pc = "record" /\ MovesTo(t, "reply", "recorded")
        /\ UNCHANGED <<lastId, books, keys, cases, range, notes, post>>
    BY DEF CallbackStored, FlowsOnly, At, MovesTo, Answer
  <1>3. DOMAIN q = RequestFields /\ Control(q) /\ Responds(q)
    BY <1>2, RequestKnown
  <1>4. /\ q.kind = "dispatch" /\ q.flow \in Nat
        /\ Approved(q.book) /\ books[q.book].candidate = q.flow /\ books[q.book].timed
        /\ q.case \in DOMAIN cases /\ cases[q.case] = q.flow
        /\ Key("callback", q.book) \in keys.answered
    BY <1>2, <1>3 DEF Control, Responds, Calling
  <1>5. PICK r : /\ req' = [req EXCEPT ![t] = r] /\ Carries(r, q)
                 /\ r.pc = "reply" /\ r.outcome = "recorded"
    BY <1>2, AnswerCarries
  <1>6. SharedTrue
    BY DEF ConsoleInv
  <1>7. /\ Rewrites /\ \A f \in DOMAIN flows' : flows'[f].triage = flows[f].triage
        /\ \A f \in DOMAIN flows' : flows'[f].recorded = IF f = q.flow THEN q.case ELSE flows[f].recorded
    BY <1>1, <1>2, <1>6 DEF CallbackReceipt, Rewrites, SharedTrue, RowsTrue, RowFields
  <1>8. RowsTrue'
    BY <1>6, <1>7 DEF SharedTrue, RowsTrue, Rewrites
  <1>9. LedgerTrue' /\ KeysTrue' /\ NotesTrue' /\ RangeTrue'
    BY <1>2, <1>6 DEF SharedTrue, LedgerTrue, KeysTrue, NotesTrue, RangeTrue, Approved
  <1>10. TriageLogged'
    BY <1>2, <1>6, <1>7 DEF SharedTrue, TriageLogged, Rewrites
  <1>11. ReceiptsTrue'
    <2>1. SUFFICES ASSUME NEW f \in DOMAIN flows', flows'[f].recorded # 0
                   PROVE  /\ flows'[f].recorded \in DOMAIN cases /\ cases[flows'[f].recorded] = f
                          /\ \E b \in DOMAIN books :
                                /\ books[b].state = "approved" /\ books[b].candidate = f
                                /\ books[b].timed /\ Key("callback", b) \in keys.answered
      BY <1>2 DEF ReceiptsTrue, Key
    <2>2. CASE f = q.flow
      BY <1>4, <1>7, <2>1, <2>2 DEF Approved
    <2>3. CASE f # q.flow
      BY <1>6, <1>7, <2>1, <2>3 DEF SharedTrue, ReceiptsTrue, Rewrites
    <2> QED BY <2>2, <2>3
  <1>12. DOMAIN req' = Threads /\ DOMAIN post' = Threads
    BY <1>2, <1>5, <1>6 DEF SharedTrue
  <1>13. SharedTrue'
    BY <1>8, <1>9, <1>10, <1>11, <1>12 DEF SharedTrue
  <1>14. Grows
    BY <1>2 DEF Grows
  <1>15. TrueRequest(r, post[t])'
    <2>1. r.kind = "dispatch" /\ r.flow \in Nat
      BY <1>4, <1>5 DEF Carries
    <2>2. Control(r)
      BY <1>5, <2>1 DEF Control, Sensing, Seeding, Stitching, Calling
    <2>3. Responds(r)' /\ Awaits(r, post[t])' /\ Advises(r)'
      BY <1>5 DEF Responds, Awaits, Advises, Calling
    <2>4. RecordsAlone(r)' /\ RangeAlone(r)'
      BY <1>5, <2>1 DEF RecordsAlone, RangeAlone
    <2>5. EventAlone(r)' /\ ScenarioAlone(r)'
      BY <2>1 DEF EventAlone, ScenarioAlone
    <2> QED
      BY <1>5, <2>2, <2>3, <2>4, <2>5 DEF TrueRequest, AloneTrue, Control, Carries
  <1> QED
    BY <1>2, <1>5, <1>13, <1>14, <1>15, RequestMoves DEF Carries

-----------------------------------------------------------------------------
(* The contract server goes on; the request of its client stands. *)
LEMMA PostMoves ==
    ASSUME ConsoleInv, SharedTrue', Grows, NEW t \in Threads, post[t] # NoPost, req' = req, NEW p,
           post' = [post EXCEPT ![t] = p], UNCHANGED <<flows, campaigns, notes, range>>,
           p # NoPost => Contracted(p)', req[t] # Idle => Awaits(req[t], p)
    PROVE  ConsoleInv'
  <1>1. DOMAIN req = Threads /\ DOMAIN post = Threads
    BY DEF ConsoleInv, SharedTrue
  <1>2. Elsewhere(t) /\ post'[t] = p /\ ~Quiet(t)
    BY <1>1 DEF Elsewhere, Quiet
  <1>3. PostTrue(t)'
    BY <1>2 DEF PostTrue, NoPost
  <1>4. ASSUME req[t] # Idle PROVE TrueRequest(req[t], post[t])'
    <2>1. PICK r : r = req[t]
      OBVIOUS
    <2>2. /\ DOMAIN r = RequestFields /\ Control(r) /\ Responds(r) /\ Advises(r)
          /\ r.alone => AloneTrue(r)
      BY <1>4, <2>1, RequestKnown
    <2>3. Responds(r)'
      BY <2>2 DEF Responds, Grows, Approved, Key, Calling
    <2>4. Advises(r)'
      BY <2>2 DEF Advises
    <2>5. Awaits(r, post[t])'
      BY <1>2, <1>4, <2>1 DEF Awaits, NoPost
    <2>6. r.alone => RecordsAlone(r)' /\ RangeAlone(r)'
      BY <2>2 DEF AloneTrue, RecordsAlone, RangeAlone, Signs, Holds, Word, Entities
    <2>7. r.alone => EventAlone(r)' /\ ScenarioAlone(r)'
      BY <2>2 DEF AloneTrue, EventAlone, ScenarioAlone, BridgeRows, ScenarioRows
    <2>8. TrueRequest(r, post[t])'
      BY <2>2, <2>3, <2>4, <2>5, <2>6, <2>7 DEF TrueRequest, AloneTrue, Control
    <2> QED BY <2>1, <2>8
  <1>5. req'[t] # Idle => TrueRequest(req[t], post[t])'
                          /\ (req'[t].alone => req[t] # Idle /\ req[t].alone)
    BY <1>4 DEF Idle
  <1> QED
    BY <1>2, <1>3, <1>5, ThreadMoves

(* It goes on with the same request. *)
LEMMA PostGoes ==
    ASSUME ConsoleInv, SharedTrue', Grows, NEW t \in Threads, post[t] # NoPost, req' = req, NEW p,
           post' = [post EXCEPT ![t] = p], UNCHANGED <<flows, campaigns, notes, range>>,
           p \in PostRecord, p.book = post[t].book, p.scope = post[t].scope, Contracted(p)'
    PROVE  ConsoleInv'
  <1>1. p # NoPost
    <2>1. "book" \in DOMAIN p
      BY DEF PostRecord
    <2>2. "book" \notin DOMAIN NoPost
      BY DEF NoPost
    <2> QED BY <2>1, <2>2
  <1>2. req[t] # Idle => Awaits(req[t], p)
    BY <1>1, RequestKnown DEF Awaits
  <1> QED
    BY <1>1, <1>2, PostMoves

(* Only keys change, and none that was answered is lost. *)
LEMMA KeysKeep ==
    ASSUME ConsoleInv, KeysTrue', keys.answered \subseteq keys'.answered,
           keys.unsure \subseteq keys'.unsure,
           UNCHANGED <<flows, lastId, books, cases, range, notes>>,
           DOMAIN req' = Threads, DOMAIN post' = Threads
    PROVE  SharedTrue' /\ Grows
  <1>1. SharedTrue
    BY DEF ConsoleInv
  <1>2. RowsTrue' /\ LedgerTrue' /\ NotesTrue' /\ TriageLogged' /\ RangeTrue'
    BY <1>1 DEF SharedTrue, RowsTrue, LedgerTrue, NotesTrue, TriageLogged, RangeTrue
  <1>3. ReceiptsTrue'
    BY <1>1 DEF SharedTrue, ReceiptsTrue, Key
  <1>4. Grows
    BY DEF Grows
  <1> QED
    BY <1>2, <1>3, <1>4 DEF SharedTrue

(* What a contract request is after one of its steps. *)
SteppedTo(p, pc, status) == [p EXCEPT !.pc = pc, !.status = status]

(* A request that has no answer yet gets none by going on. *)
LEMMA StepsOnly ==
    ASSUME NEW q \in PostRecord, q.status = 0, NEW pc
    PROVE  SteppedTo(q, pc, 0) = [q EXCEPT !.pc = pc]
  <1>1. PICK S : S = DOMAIN q
    OBVIOUS
  <1>2. q = [x \in S |-> q[x]]
    BY <1>1 DEF PostRecord
  <1>3. [q EXCEPT !.pc = pc] = [x \in S |-> IF x = "pc" THEN pc ELSE q[x]]
    BY <1>1, <1>2
  <1>4. SteppedTo(q, pc, 0)
            = [x \in S |-> IF x = "status" THEN 0 ELSE IF x = "pc" THEN pc ELSE q[x]]
    BY <1>1, <1>2 DEF SteppedTo
  <1> QED BY <1>3, <1>4

(* An answer is given in the place of its request. *)
LEMMA AnsweredInPlace ==
    ASSUME DOMAIN post = Threads, NEW t \in Threads, NEW status, post' = PostDone(t, status)
    PROVE  post' = [post EXCEPT ![t] = SteppedTo(post[t], "done", status)]
  <1>1. PICK gone : gone = [post EXCEPT ![t].pc = "done"]
    OBVIOUS
  <1>2. post' = [gone EXCEPT ![t].status = status]
    BY <1>1 DEF PostDone
  <1>3. PICK p : p = [post[t] EXCEPT !.pc = "done"]
    OBVIOUS
  <1>4. gone = [post EXCEPT ![t] = p]
    BY <1>1, <1>3
  <1>5. gone[t] = p /\ DOMAIN gone = Threads
    BY <1>4
  <1>6. post' = [gone EXCEPT ![t] = [p EXCEPT !.status = status]]
    BY <1>2, <1>5
  <1>7. SteppedTo(post[t], "done", status) = [p EXCEPT !.status = status]
    BY <1>3 DEF SteppedTo
  <1> QED BY <1>4, <1>6, <1>7

(* What is known of a contract request that moves on. *)
LEMMA PostKnown ==
    ASSUME ConsoleInv, NEW t \in Threads, post[t] # NoPost,
           NEW pc \in {"check", "ledger", "commit", "done"}, NEW status \in {0, 200, 403, 409},
           NEW p, p = SteppedTo(post[t], pc, status)
    PROVE  /\ Contracted(post[t]) /\ p \in PostRecord /\ p.pc = pc /\ p.status = status
           /\ p.book = post[t].book /\ p.scope = post[t].scope /\ p.key = post[t].key
           /\ p.fresh = post[t].fresh /\ p.key \in KeyOf
  <1>1. Contracted(post[t])
    BY DEF ConsoleInv, PostTrue
  <1>2. PICK o \in PostRecord : o = post[t]
    BY <1>1 DEF Contracted
  <1>3. /\ DOMAIN o = {"pc", "scope", "book", "key", "status", "chained", "fresh"}
        /\ o.scope \in Scopes /\ o.book \in Nat /\ o.key \in KeyOf
    BY DEF PostRecord
  <1>4. o.chained \in BOOLEAN /\ o.fresh \in BOOLEAN
    BY DEF PostRecord
  <1>5. p = [o EXCEPT !.pc = pc, !.status = status]
    BY <1>2 DEF SteppedTo
  <1>6. /\ p.pc = pc /\ p.status = status /\ p.book = o.book /\ p.scope = o.scope /\ p.key = o.key
        /\ p.fresh = o.fresh
    BY <1>3, <1>5
  <1>7. p \in PostRecord
    <2> DEFINE n == [o EXCEPT !.pc = pc]
    <2>2. n \in PostRecord
      BY DEF PostRecord
    <2>3. p = [n EXCEPT !.status = status]
      BY <1>3, <1>5
    <2> HIDE DEF n
    <2> QED BY <2>2, <2>3 DEF PostRecord
  <1> QED BY <1>1, <1>2, <1>3, <1>6, <1>7

(* A key that is looked up and not found was never answered, or its database *)
(* access failed.                                                            *)
LEMMA KeysLookedUp ==
    ASSUME ConsoleInv, NEW t \in Threads, post[t] # NoPost, LookedUp(t)
    PROVE  ConsoleInv'
  <1> DEFINE q == post[t]
  <1>1. /\ q.pc = "check" /\ req' = req
        /\ UNCHANGED <<flows, lastId, campaigns, books, cases, range, notes>>
    BY DEF LookedUp, PostOnly
  <1>2. Contracted(q) /\ SharedTrue
    BY DEF ConsoleInv, PostTrue
  <1>3. q.status = 0 /\ q.key \in KeyOf /\ KeysTrue
    BY <1>1, <1>2 DEF Contracted, PostRecord, SharedTrue
  <1>4. DOMAIN req' = Threads /\ DOMAIN post' = Threads
    BY <1>1, <1>2 DEF SharedTrue, LookedUp, PostDone
  <1>5. CASE post' = PostDone(t, 409) /\ keys' = keys
    <2>1. PICK p : p = SteppedTo(q, "done", 409)
      OBVIOUS
    <2>2. post' = [post EXCEPT ![t] = p]
      BY <1>2, <1>5, <2>1, AnsweredInPlace DEF SharedTrue
    <2>3. /\ p \in PostRecord /\ p.pc = "done" /\ p.status = 409 /\ p.book = q.book
          /\ p.scope = q.scope /\ p.key = q.key /\ p.fresh = q.fresh
      BY <2>1, PostKnown
    <2>4. Contracted(p)'
      BY <1>1, <1>2, <1>5, <2>3 DEF Contracted, Approved, Key
    <2>5. Still
      BY <1>1, <1>5 DEF Still
    <2>6. SharedTrue' /\ Grows
      BY <1>4, <2>5, StillShared
    <2> QED
      BY <1>1, <2>2, <2>3, <2>4, <2>6, PostGoes
  <1>6. CASE /\ post' = [post EXCEPT ![t].pc = "ledger"]
             /\ \/ keys' = keys /\ ~Replayed(q.key)
                \/ keys' = [keys EXCEPT !.unsure = @ \cup {q.key}]
    <2>1. PICK p : p = SteppedTo(q, "ledger", 0)
      OBVIOUS
    <2>2. p = [q EXCEPT !.pc = "ledger"]
      BY <1>2, <1>3, <2>1, StepsOnly DEF Contracted
    <2>3. post' = [post EXCEPT ![t] = p]
      BY <1>6, <2>2
    <2>4. /\ p \in PostRecord /\ p.pc = "ledger" /\ p.status = 0 /\ p.book = q.book
          /\ p.scope = q.scope /\ p.key = q.key /\ p.fresh = q.fresh
      BY <2>1, PostKnown
    <2>5. /\ KeysTrue' /\ keys'.answered = keys.answered /\ keys.unsure \subseteq keys'.unsure
          /\ q.key \in keys'.unsure \/ (~Replayed(q.key) /\ keys' = keys)
      <3>1. CASE keys' = keys /\ ~Replayed(q.key)
        BY <1>1, <1>3, <3>1 DEF KeysTrue, Approved
      <3>2. CASE keys' = [keys EXCEPT !.unsure = @ \cup {q.key}]
        <4>1. /\ keys'.answered = keys.answered /\ keys'.unsure = keys.unsure \cup {q.key}
              /\ keys'.disk = keys.disk /\ keys'.sent = keys.sent
              /\ keys' \in [memory : SUBSET KeyOf, disk : SUBSET KeyOf, answered : SUBSET KeyOf,
                            sent : SUBSET (Scopes \X Nat), unsure : SUBSET KeyOf, webhook : BOOLEAN]
          BY <1>3, <3>2 DEF KeysTrue
        <4>2. KeysTrue'
          BY <1>1, <1>3, <4>1 DEF KeysTrue, Approved
        <4> QED BY <4>1, <4>2
      <3> QED BY <1>6, <3>1, <3>2
    <2>6. p.fresh \/ p.key \in keys'.unsure
      BY <1>2, <1>3, <2>4, <2>5 DEF Contracted, Replayed, KeysTrue
    <2>7. Contracted(p)'
      BY <1>1, <1>2, <2>4, <2>5, <2>6 DEF Contracted, Approved, Key
    <2>8. SharedTrue' /\ Grows
      BY <1>1, <1>4, <2>5, KeysKeep
    <2> QED
      BY <1>1, <2>3, <2>4, <2>7, <2>8, PostGoes
  <1> QED
    BY <1>5, <1>6 DEF LookedUp

(* The ledger is read, and the timing of a callback written into it. *)
LEMMA LedgerChecks ==
    ASSUME ConsoleInv, NEW t \in Threads, post[t] # NoPost,
           VerifyLedgerChecked(t) \/ CallbackLedgerChecked(t)
    PROVE  ConsoleInv'
  <1> DEFINE q == post[t]
  <1>1. /\ q.pc = "ledger" /\ req' = req
        /\ UNCHANGED <<flows, lastId, campaigns, keys, cases, range, notes>>
    BY DEF VerifyLedgerChecked, CallbackLedgerChecked, PostOnly
  <1>2. Contracted(q) /\ LedgerTrue
    BY DEF ConsoleInv, PostTrue, SharedTrue
  <1>3. q.status = 0 /\ q.book \in DOMAIN books /\ LedgerAgrees(q) /\ q.scope \in Scopes
    BY <1>1, <1>2 DEF Contracted, PostRecord, Approved, LedgerAgrees
  <1>4. /\ post' = [post EXCEPT ![t].pc = "commit"]
        /\ \/ q.scope = "verify" /\ books' = books
           \/ q.scope = "callback" /\ books' = [books EXCEPT ![q.book].timed = TRUE]
    BY <1>3 DEF VerifyLedgerChecked, CallbackLedgerChecked, PostOnly
  <1>5. PICK p : p = SteppedTo(q, "commit", 0)
    OBVIOUS
  <1>6. p = [q EXCEPT !.pc = "commit"]
    BY <1>2, <1>3, <1>5, StepsOnly DEF Contracted
  <1>7. post' = [post EXCEPT ![t] = p]
    BY <1>4, <1>6
  <1>8. /\ p \in PostRecord /\ p.pc = "commit" /\ p.status = 0 /\ p.book = q.book
        /\ p.scope = q.scope /\ p.key = q.key /\ p.fresh = q.fresh
    BY <1>5, PostKnown
  <1>9. /\ books' \in Seq(BookRecord) /\ DOMAIN books' = DOMAIN books
        /\ \A b \in DOMAIN books : /\ books'[b].candidate = books[b].candidate
                                   /\ books'[b].state = books[b].state
                                   /\ books'[b].version = books[b].version
                                   /\ books'[b].born = books[b].born
                                   /\ books[b].timed => books'[b].timed
        /\ q.scope = "callback" => books'[q.book].timed
    <2>1. CASE q.scope = "verify" /\ books' = books
      BY <1>2, <2>1 DEF LedgerTrue
    <2>2. CASE q.scope = "callback" /\ books' = [books EXCEPT ![q.book].timed = TRUE]
      <3>1. PICK o \in BookRecord : o = books[q.book]
        BY <1>2, <1>3 DEF LedgerTrue
      <3>2. PICK n : n = [o EXCEPT !.timed = TRUE]
        OBVIOUS
      <3>3. /\ n \in BookRecord /\ n.candidate = o.candidate /\ n.state = o.state
            /\ n.version = o.version /\ n.born = o.born /\ n.timed
        BY <3>2 DEF BookRecord
      <3>4. books' = [books EXCEPT ![q.book] = n]
        BY <2>2, <3>1, <3>2
      <3>5. /\ books' \in Seq(BookRecord) /\ DOMAIN books' = DOMAIN books /\ books'[q.book] = n
            /\ \A b \in DOMAIN books : b # q.book => books'[b] = books[b]
        BY <1>2, <1>3, <3>3, <3>4 DEF LedgerTrue
      <3> QED
        BY <3>1, <3>3, <3>5
    <2> QED BY <1>4, <2>1, <2>2
  <1>10. LedgerTrue'
    BY <1>1, <1>2, <1>9 DEF LedgerTrue
  <1>11. Grows
    BY <1>1, <1>9 DEF Grows
  <1>12. DOMAIN req' = Threads /\ DOMAIN post' = Threads
    BY <1>1, <1>7 DEF ConsoleInv, SharedTrue
  <1>13. SharedTrue'
    BY <1>1, <1>10, <1>11, <1>12, LedgerKeeps
  <1>14. Contracted(p)'
    BY <1>1, <1>2, <1>8, <1>9 DEF Contracted, Approved, Key
  <1> QED
    BY <1>1, <1>7, <1>8, <1>11, <1>13, <1>14, PostGoes

(* A key that is answered is on disk, or its database access failed. *)
LEMMA KeysCommitted ==
    ASSUME ConsoleInv, NEW t \in Threads, post[t] # NoPost, VerifyAnswered(t) \/ CallbackAnswered(t)
    PROVE  ConsoleInv'
  <1> DEFINE q == post[t]
  <1>1. /\ q.pc = "commit" /\ req' = req /\ post' = PostDone(t, 200)
        /\ UNCHANGED <<flows, lastId, campaigns, books, cases, range, notes>>
    BY DEF VerifyAnswered, CallbackAnswered, KeyCommitted, PostOnly
  <1>2. Contracted(q) /\ SharedTrue
    BY DEF ConsoleInv, PostTrue
  <1>3. KeysTrue
    BY <1>2 DEF SharedTrue
  <1>4. PICK p : p = SteppedTo(q, "done", 200)
    OBVIOUS
  <1>5. post' = [post EXCEPT ![t] = p]
    BY <1>1, <1>2, <1>4, AnsweredInPlace DEF SharedTrue
  <1>6. /\ p \in PostRecord /\ p.pc = "done" /\ p.status = 200 /\ p.book = q.book
        /\ p.scope = q.scope /\ p.key = q.key /\ p.fresh = q.fresh /\ p.key \in KeyOf
    BY <1>4, PostKnown
  <1>7. /\ KeysTrue' /\ keys'.answered = keys.answered \cup {p.key}
        /\ keys.unsure \subseteq keys'.unsure
    <2>0. PICK k \in KeyOf : k = q.key /\ k = p.key
      BY <1>6
    <2>1. CASE keys' = Committed(q.key)
      <3>1. keys' = [keys EXCEPT !.memory = keys.memory \cup {k}, !.disk = keys.disk \cup {k},
                                 !.answered = keys.answered \cup {k}]
        BY <2>0, <2>1 DEF Committed
      <3>2. /\ keys'.answered = keys.answered \cup {k} /\ keys'.unsure = keys.unsure
            /\ keys'.disk = keys.disk \cup {k} /\ keys'.sent = keys.sent
        BY <1>3, <3>1 DEF KeysTrue
      <3>3. keys' \in [memory : SUBSET KeyOf, disk : SUBSET KeyOf, answered : SUBSET KeyOf,
                       sent : SUBSET (Scopes \X Nat), unsure : SUBSET KeyOf, webhook : BOOLEAN]
        BY <1>3, <3>1 DEF KeysTrue
      <3>4. KeysTrue'
        BY <1>1, <1>3, <3>2, <3>3 DEF KeysTrue, Approved
      <3> QED BY <2>0, <3>2, <3>4
    <2>2. CASE keys' = [CommittedInMemory(q.key) EXCEPT !.unsure = @ \cup {q.key}]
      <3> DEFINE m == [keys EXCEPT !.memory = keys.memory \cup {k},
                                   !.answered = keys.answered \cup {k}]
      <3>0. keys' = [m EXCEPT !.unsure = m.unsure \cup {k}]
        BY <2>0, <2>2 DEF CommittedInMemory
      <3>1. /\ m \in [memory : SUBSET KeyOf, disk : SUBSET KeyOf, answered : SUBSET KeyOf,
                      sent : SUBSET (Scopes \X Nat), unsure : SUBSET KeyOf, webhook : BOOLEAN]
        BY <1>3 DEF KeysTrue
      <3>2. /\ m.answered = keys.answered \cup {k} /\ m.unsure = keys.unsure
            /\ m.disk = keys.disk /\ m.sent = keys.sent
        BY <1>3 DEF KeysTrue
      <3> HIDE DEF m
      <3>3. /\ keys'.answered = m.answered /\ keys'.unsure = m.unsure \cup {k}
            /\ keys'.disk = m.disk /\ keys'.sent = m.sent
        BY <3>0, <3>1
      <3>4. keys' \in [memory : SUBSET KeyOf, disk : SUBSET KeyOf, answered : SUBSET KeyOf,
                       sent : SUBSET (Scopes \X Nat), unsure : SUBSET KeyOf, webhook : BOOLEAN]
        BY <3>0, <3>1
      <3>5. KeysTrue'
        BY <1>1, <1>3, <3>2, <3>3, <3>4 DEF KeysTrue, Approved
      <3> QED BY <2>0, <3>2, <3>3, <3>5
    <2> QED BY <2>1, <2>2 DEF VerifyAnswered, CallbackAnswered, KeyCommitted
  <1>8. Contracted(p)'
    BY <1>1, <1>2, <1>6, <1>7 DEF Contracted, Approved, Key
  <1>9. DOMAIN req' = Threads /\ DOMAIN post' = Threads
    BY <1>1, <1>2, <1>5 DEF SharedTrue
  <1>10. SharedTrue' /\ Grows
    BY <1>1, <1>7, <1>9, KeysKeep
  <1> QED
    BY <1>1, <1>5, <1>6, <1>8, <1>10, PostGoes

(* n8n goes on to call the contract server back. *)
LEMMA WorkflowContinues ==
    ASSUME ConsoleInv, NEW t \in Threads, post[t] # NoPost, N8nContinues(t)
    PROVE  ConsoleInv'
  <1> DEFINE q == post[t]
  <1>1. /\ q.scope = "verify" /\ req' = req
        /\ post' = [post EXCEPT ![t] = Contract("callback", q.book, TRUE)]
        /\ keys' = [keys EXCEPT !.sent = @ \cup {<<"callback", q.book>>}]
        /\ UNCHANGED <<flows, lastId, campaigns, books, cases, range, notes>>
    BY DEF N8nContinues, PostOnly, Continues
  <1>2. Approved(q.book)
    BY DEF ConsoleInv, PostTrue, Contracted
  <1>3. PICK chained \in BOOLEAN : chained = TRUE
    OBVIOUS
  <1>4. PICK scope \in Scopes : scope = "callback"
    BY DEF Scopes
  <1>5. PICK p : p = Contract(scope, q.book, chained)
    OBVIOUS
  <1>6. p # NoPost /\ p.book = q.book /\ p.scope = scope /\ Contracted(p)
    BY <1>2, <1>5, ContractTrue
  <1>7. post' = [post EXCEPT ![t] = p]
    BY <1>1, <1>3, <1>4, <1>5
  <1>8. DOMAIN req' = Threads /\ DOMAIN post' = Threads
    BY <1>1, <1>7 DEF ConsoleInv, SharedTrue
  <1>9. /\ SharedTrue' /\ Grows /\ keys'.answered = keys.answered /\ keys'.unsure = keys.unsure
    BY <1>1, <1>2, <1>4, <1>8, SentKeeps
  <1>10. Contracted(p)'
    BY <1>1, <1>6, <1>9 DEF Contracted, Approved, Key
  <1>11. req[t] # Idle => Awaits(req[t], p)
    BY <1>4, <1>6, RequestKnown DEF Awaits
  <1> QED
    BY <1>1, <1>6, <1>7, <1>9, <1>10, <1>11, PostMoves

(* An answer nobody waits for is dropped. *)
LEMMA PostsForgotten ==
    ASSUME ConsoleInv, NEW t \in Threads, post[t] # NoPost, PostForgotten(t)
    PROVE  ConsoleInv'
  <1>1. /\ req' = req /\ req[t] = Idle /\ post' = [post EXCEPT ![t] = NoPost]
        /\ UNCHANGED <<flows, lastId, campaigns, books, keys, cases, range, notes>>
    BY DEF PostForgotten, PostOnly
  <1>2. Still
    BY <1>1 DEF Still
  <1>3. DOMAIN req' = Threads /\ DOMAIN post' = Threads
    BY <1>1 DEF ConsoleInv, SharedTrue
  <1>4. SharedTrue' /\ Grows
    BY <1>2, <1>3, StillShared
  <1> QED
    BY <1>1, <1>4, PostMoves

(* Every step of a contract request keeps the invariant. *)
LEMMA PostKeeps ==
    ASSUME ConsoleInv, NEW t \in Threads, PostStep(t)
    PROVE  ConsoleInv'
  BY KeysLookedUp, LedgerChecks, KeysCommitted, WorkflowContinues, PostsForgotten
     DEF PostStep, VerifyKeyChecked, CallbackKeyChecked

-----------------------------------------------------------------------------
(* Something happens beside the requests: none of them is alone any more. *)
LEMMA DisturbedMoves ==
    ASSUME ConsoleInv, SharedTrue', Grows, req' = Disturbed,
           \A u \in Threads : req[u] # Idle => post'[u] = post[u],
           \A u \in Threads : PostTrue(u)'
    PROVE  ConsoleInv'
  <1>1. ASSUME NEW u \in Threads PROVE RequestTrue(u)'
    <2>1. req'[u] = IF req[u] = Idle THEN Idle ELSE [req[u] EXCEPT !.alone = FALSE]
      BY DEF Disturbed
    <2>2. CASE req[u] = Idle
      BY <2>1, <2>2 DEF RequestTrue, Idle
    <2>3. CASE req[u] # Idle
      <3>1. DOMAIN req[u] = RequestFields
        BY <2>3, RequestKnown
      <3>2. PICK r : r = [req[u] EXCEPT !.alone = FALSE]
        OBVIOUS
      <3>3. /\ DOMAIN r = RequestFields /\ ~r.alone
            /\ \A x \in RequestFields \ {"alone"} : r[x] = req[u][x]
        BY <3>1, <3>2 DEF RequestFields
      <3>4. post'[u] = post[u]
        BY <2>3
      <3>5. TrueRequest(r, post[u])'
        BY <2>3, <3>3, <3>4, OtherRequest
      <3>6. req'[u] = r
        BY <2>1, <2>3, <3>2
      <3> QED
        BY <3>3, <3>5, <3>6 DEF RequestTrue
    <2> QED BY <2>2, <2>3
  <1> QED
    BY <1>1 DEF ConsoleInv

(* A client sends a contract request again. *)
LEMMA RequestsResent ==
    ASSUME ConsoleInv, NEW t \in Threads, Resent(t)
    PROVE  ConsoleInv'
  <1>1. /\ Quiet(t) /\ req' = Disturbed /\ Still
    BY DEF Resent, Still
  <1>2. PICK s \in keys.sent : post' = [post EXCEPT ![t] = Contract(s[1], s[2], FALSE)]
    BY DEF Resent
  <1>3. Approved(s[2]) /\ s[1] \in Scopes
    BY DEF ConsoleInv, SharedTrue, KeysTrue
  <1>4. PICK p : p = Contract(s[1], s[2], FALSE)
    OBVIOUS
  <1>5. Contracted(p)
    BY <1>3, <1>4, ContractTrue
  <1>6. DOMAIN req' = Threads /\ DOMAIN post = Threads /\ DOMAIN post' = Threads
    BY <1>1, <1>2 DEF ConsoleInv, SharedTrue, Disturbed
  <1>7. SharedTrue' /\ Grows
    BY <1>1, <1>6, StillShared
  <1>8. ASSUME NEW u \in Threads PROVE PostTrue(u)'
    <2>1. CASE u = t
      BY <1>1, <1>2, <1>4, <1>5, <1>6, <2>1 DEF PostTrue, Contracted, Still, Approved, Key
    <2>2. CASE u # t
      <3>1. post'[u] = post[u]
        BY <1>2, <1>6, <2>2
      <3> QED BY <1>7, <3>1, OtherPost
    <2> QED BY <2>1, <2>2
  <1>9. \A u \in Threads : req[u] # Idle => post'[u] = post[u]
    BY <1>1, <1>2, <1>6 DEF Quiet
  <1> QED
    BY <1>1, <1>7, <1>8, <1>9, DisturbedMoves

(* Only the victim changes. *)
LEMMA RangeKeeps ==
    ASSUME ConsoleInv, UNCHANGED <<flows, lastId, books, keys, cases, notes>>, RangeTrue',
           DOMAIN req' = Threads, DOMAIN post' = Threads
    PROVE  SharedTrue' /\ Grows
  <1>1. SharedTrue
    BY DEF ConsoleInv
  <1>2. RowsTrue' /\ LedgerTrue' /\ KeysTrue' /\ NotesTrue' /\ TriageLogged'
    BY <1>1 DEF SharedTrue, RowsTrue, LedgerTrue, KeysTrue, NotesTrue, TriageLogged, Approved
  <1>3. ReceiptsTrue'
    BY <1>1 DEF SharedTrue, ReceiptsTrue, Key
  <1>4. Grows
    BY DEF Grows
  <1> QED
    BY <1>2, <1>3, <1>4 DEF SharedTrue

(* The victim stops, and starts without rules. *)
LEMMA VictimsToggled ==
    ASSUME ConsoleInv, VictimToggled
    PROVE  ConsoleInv'
  <1>1. /\ req' = Disturbed /\ post' = post /\ UNCHANGED <<flows, lastId, books, keys, cases, notes>>
    BY DEF VictimToggled
  <1>2. RangeTrue'
    BY DEF VictimToggled, RangeTrue
  <1>3. DOMAIN req' = Threads /\ DOMAIN post' = Threads
    BY <1>1 DEF ConsoleInv, SharedTrue, Disturbed
  <1>4. SharedTrue' /\ Grows
    BY <1>1, <1>2, <1>3, RangeKeeps
  <1>5. ASSUME NEW u \in Threads PROVE PostTrue(u)'
    BY <1>1, <1>4, OtherPost
  <1> QED
    BY <1>1, <1>4, <1>5, DisturbedMoves

(* A crash takes the threads, and nothing that was committed. *)
LEMMA Crashes ==
    ASSUME ConsoleInv, Crash
    PROVE  ConsoleInv'
  <1>1. /\ req' = [t \in Threads |-> Idle] /\ post' = [t \in Threads |-> NoPost]
        /\ keys' = [keys EXCEPT !.memory = {}] /\ notes' = [notes EXCEPT !.briefs = <<>>]
        /\ UNCHANGED <<flows, lastId, books, cases, range>>
    BY DEF Crash
  <1>2. SharedTrue
    BY DEF ConsoleInv
  <1>3. /\ keys'.disk = keys.disk /\ keys'.answered = keys.answered /\ keys'.unsure = keys.unsure
        /\ keys'.sent = keys.sent
        /\ keys' \in [memory : SUBSET KeyOf, disk : SUBSET KeyOf, answered : SUBSET KeyOf,
                      sent : SUBSET (Scopes \X Nat), unsure : SUBSET KeyOf, webhook : BOOLEAN]
    BY <1>1, <1>2 DEF SharedTrue, KeysTrue
  <1>4. RowsTrue' /\ LedgerTrue' /\ RangeTrue'
    BY <1>1, <1>2 DEF SharedTrue, RowsTrue, LedgerTrue, RangeTrue
  <1>5. KeysTrue'
    BY <1>1, <1>2, <1>3 DEF SharedTrue, KeysTrue, Approved
  <1>6. NotesTrue' /\ notes'.log = notes.log
    BY <1>1, <1>2 DEF SharedTrue, NotesTrue
  <1>7. ReceiptsTrue' /\ TriageLogged'
    BY <1>1, <1>2, <1>3, <1>6 DEF SharedTrue, ReceiptsTrue, TriageLogged, Key
  <1>8. SharedTrue'
    BY <1>1, <1>4, <1>5, <1>6, <1>7 DEF SharedTrue
  <1>9. \A t \in Threads : RequestTrue(t)' /\ PostTrue(t)'
    BY <1>1 DEF RequestTrue, PostTrue, Idle, NoPost
  <1> QED BY <1>8, <1>9 DEF ConsoleInv

(* A response leaves. *)
LEMMA Replies ==
    ASSUME ConsoleInv, NEW t \in Threads, Reply(t)
    PROVE  ConsoleInv'
  <1>1. Still /\ post' = post /\ req[t] # Idle /\ req' = [req EXCEPT ![t] = Idle]
    BY DEF Reply, At, Still
  <1>2. PICK r : r = Idle
    OBVIOUS
  <1> QED
    BY <1>1, <1>2, ControlMoves

-----------------------------------------------------------------------------
(* The range. *)
RangeStill == UNCHANGED <<flows, lastId, books, keys, cases, notes, post>>

(* A step in the range keeps the invariant when the victim is as its request *)
(* believes.                                                                 *)
LEMMA RangeMoves ==
    ASSUME ConsoleInv, RangeStill, RangeTrue', NEW t \in Threads, req[t] # Idle,
           req[t].kind \in {"contain", "rollback"}, req[t].pc # "reply",
           NEW pc \in Ranging, Goto(t, pc),
           pc \in {"drop_check", "drop", "applied", "undo"} => req[t].kind = "contain",
           pc \in {"remove", "rolled_back"} => req[t].kind = "rollback",
           req[t].alone =>
               /\ pc # "undo" => req[t].flow \in DOMAIN flows
               /\ req[t].kind = "contain" /\ pc \in {"probe", "applied"} => range'.rules > 0
               /\ pc = "rolled_back" => range'.rules = 0
    PROVE  ConsoleInv'
  <1> DEFINE q == req[t]
  <1>1. PICK r : /\ req' = [req EXCEPT ![t] = r] /\ Carries(r, q)
                 /\ r.pc = pc /\ r.outcome = q.outcome
    BY GotoCarries
  <1>2. DOMAIN q = RequestFields /\ Control(q)
    BY RequestKnown
  <1>3. r.kind = q.kind /\ r.alone = q.alone /\ r.flow = q.flow /\ DOMAIN r = RequestFields
    BY <1>1 DEF Carries
  <1>4. r.outcome \in {None, "stored", "approved"} /\ r.flow \in Nat
    BY <1>1, <1>2, <1>3 DEF Control
  <1>5. Control(r)
    BY <1>1, <1>3, <1>4 DEF Control, Sensing, Seeding, Stitching, Calling, Ranging
  <1>6. Responds(r)' /\ Awaits(r, post[t])'
    BY <1>1 DEF Responds, Awaits, Calling, Ranging
  <1>7. r.alone => RangeAlone(r)'
    BY <1>1, <1>3 DEF RangeAlone, Ranging, RangeStill
  <1>8. TrueRequest(r, post[t])'
    BY <1>1, <1>3, <1>4, <1>5, <1>6, <1>7, ResponseRequest DEF Responding
  <1>9. DOMAIN req' = Threads /\ DOMAIN post' = Threads
    BY <1>1 DEF ConsoleInv, SharedTrue, RangeStill
  <1>10. SharedTrue' /\ Grows
    BY <1>9, RangeKeeps DEF RangeStill
  <1> QED
    BY <1>1, <1>3, <1>8, <1>10, RequestMoves DEF RangeStill

(* A containment or a rollback that fails says so. *)
LEMMA RangeRefuses ==
    ASSUME ConsoleInv, RangeStill, RangeTrue', NEW t \in Threads, req[t] # Idle,
           NEW outcome \in {"refused", "command_failed", "rule_missing", "not_observed"},
           Answer(t, outcome)
    PROVE  ConsoleInv'
  <1>1. outcome \notin Noticed
    BY DEF Noticed, Heeded
  <1>2. DOMAIN req' = Threads /\ DOMAIN post' = Threads
    BY DEF ConsoleInv, SharedTrue, RangeStill, Answer
  <1>3. SharedTrue' /\ Grows
    BY <1>2, RangeKeeps DEF RangeStill
  <1> QED
    BY <1>1, <1>3, Refuses DEF RangeStill

(* Containment and rollback are authorized. *)
LEMMA RangeReads ==
    ASSUME ConsoleInv, NEW t \in Threads, ContainRead(t) \/ RollbackRead(t)
    PROVE  ConsoleInv'
  <1> DEFINE q == req[t]
  <1>1. /\ req[t] # Idle /\ q.pc \in {"contain", "rollback"} /\ RangeStill /\ range' = range
    BY DEF ContainRead, RollbackRead, At, RangeOnly, RangeStill
  <1>2. RangeTrue'
    BY <1>1 DEF ConsoleInv, SharedTrue, RangeTrue
  <1>3. q.kind = q.pc
    BY <1>1, RequestKnown DEF Control
  <1>4. CASE Answer(t, "refused")
    BY <1>1, <1>2, <1>4, RangeRefuses
  <1>5. CASE /\ q.flow \in DOMAIN flows
             /\ \/ q.pc = "contain" /\ Goto(t, "drop_check")
                \/ q.pc = "rollback" /\ Goto(t, "remove")
    <2>1. PICK pc \in {"drop_check", "remove"} :
              /\ Goto(t, pc) /\ (pc = "drop_check" => q.pc = "contain")
              /\ pc = "remove" => q.pc = "rollback"
      BY <1>5
    <2>2. Goto(t, pc) /\ pc \in Ranging /\ (pc = "drop_check" => q.kind = "contain")
          /\ (pc = "remove" => q.kind = "rollback")
      BY <1>3, <1>5, <2>1 DEF Ranging
    <2> QED
      BY <1>1, <1>2, <1>3, <1>5, <2>1, <2>2, RangeMoves
  <1> QED
    BY <1>4, <1>5 DEF ContainRead, RollbackRead, Authorized, At

(* The rule is looked for, added, removed. *)
LEMMA RulesChange ==
    ASSUME ConsoleInv, NEW t \in Threads, DropChecked(t) \/ Dropped(t) \/ Removed(t)
    PROVE  ConsoleInv'
  <1> DEFINE q == req[t]
  <1>1. /\ req[t] # Idle /\ q.pc \in {"drop_check", "drop", "remove"} /\ RangeStill
    BY DEF DropChecked, Dropped, Removed, At, RangeOnly, RangeStill
  <1>2. /\ q.kind = IF q.pc = "remove" THEN "rollback" ELSE "contain"
        /\ q.alone => q.flow \in DOMAIN flows
    BY <1>1, RequestKnown DEF Control, AloneTrue, RangeAlone
  <1>3. RangeTrue
    BY DEF ConsoleInv, SharedTrue
  <1>4. RangeTrue'
    BY <1>3 DEF RangeTrue, DropChecked, Dropped, Removed
  <1>5. ASSUME NEW outcome \in {"command_failed", "rule_missing"}, Answer(t, outcome)
        PROVE  ConsoleInv'
    BY <1>1, <1>4, <1>5, RangeRefuses
  <1>6. CASE DropChecked(t)
    <2>1. PICK pc : pc = IF range.running /\ range.rules > 0 THEN "probe" ELSE "drop"
      OBVIOUS
    <2>2. Goto(t, pc) /\ range' = range /\ q.pc = "drop_check"
      BY <1>6, <2>1 DEF DropChecked, At
    <2>3. pc \in {"probe", "drop"} /\ pc \in Ranging /\ (pc = "probe" => range.rules > 0)
      BY <2>1 DEF Ranging
    <2> QED
      BY <1>1, <1>2, <1>4, <2>2, <2>3, RangeMoves
  <1>7. CASE Dropped(t) /\ Goto(t, "probe") /\ range' = [range EXCEPT !.rules = @ + 1]
    <2>1. range'.rules > 0 /\ "probe" \in Ranging /\ q.pc = "drop"
      BY <1>3, <1>7 DEF RangeTrue, Ranging, Dropped, At
    <2> QED
      BY <1>1, <1>2, <1>4, <1>7, <2>1, RangeMoves
  <1>8. CASE Removed(t) /\ Goto(t, "probe")
    <2>1. "probe" \in Ranging /\ q.pc = "remove"
      BY <1>8 DEF Ranging, Removed, At
    <2> QED
      BY <1>1, <1>2, <1>4, <1>8, <2>1, RangeMoves
  <1> QED
    BY <1>5, <1>6, <1>7, <1>8 DEF Dropped, Removed

(* The probe that says whether the attacker still gets through. *)
LEMMA RangeProbed ==
    ASSUME ConsoleInv, NEW t \in Threads, Probed(t)
    PROVE  ConsoleInv'
  <1> DEFINE q == req[t]
  <1>1. /\ req[t] # Idle /\ q.pc = "probe" /\ RangeStill /\ range' = range
    BY DEF Probed, At, RangeOnly, RangeStill
  <1>2. /\ q.kind \in {"contain", "rollback"}
        /\ q.alone => q.flow \in DOMAIN flows /\ (q.kind = "contain" => range.rules > 0)
    BY <1>1, RequestKnown DEF Control, AloneTrue, RangeAlone
  <1>3. RangeTrue'
    BY <1>1 DEF ConsoleInv, SharedTrue, RangeTrue
  <1>4. ASSUME Verdict(t, Reachable) \/ Verdict(t, FALSE)
        PROVE  ConsoleInv'
    <2>1. CASE Answer(t, "not_observed")
      BY <1>1, <1>3, <2>1, RangeRefuses
    <2>2. CASE \E pc \in {"undo", "applied", "rolled_back"} :
                  /\ Goto(t, pc) /\ (pc \in {"undo", "applied"} => q.kind = "contain")
                  /\ pc = "rolled_back" => q.kind = "rollback" /\ range.rules = 0
      <3>1. PICK pc \in {"undo", "applied", "rolled_back"} :
                  /\ Goto(t, pc) /\ (pc \in {"undo", "applied"} => q.kind = "contain")
                  /\ pc = "rolled_back" => q.kind = "rollback" /\ range.rules = 0
        BY <2>2
      <3>2. pc \in Ranging
        BY DEF Ranging
      <3> QED
        BY <1>1, <1>2, <1>3, <3>1, <3>2, RangeMoves
    <2> QED
      BY <1>2, <1>4, <2>1, <2>2 DEF Verdict, Reachable
  <1> QED
    BY <1>4 DEF Probed

(* A rule without effect is taken back. *)
LEMMA RangeUndone ==
    ASSUME ConsoleInv, NEW t \in Threads, Undone(t)
    PROVE  ConsoleInv'
  <1>1. req[t] # Idle /\ RangeStill /\ Answer(t, "not_observed")
    BY DEF Undone, At, RangeOnly, RangeStill
  <1>2. RangeTrue'
    BY DEF Undone, ConsoleInv, SharedTrue, RangeTrue
  <1> QED
    BY <1>1, <1>2, RangeRefuses

(* The outcome is stored in the row. *)
LEMMA ContainmentsStored ==
    ASSUME ConsoleInv, NEW t \in Threads, ContainmentStored(t)
    PROVE  ConsoleInv'
  <1> DEFINE q == req[t]
  <1>1. /\ req[t] # Idle /\ q.pc \in {"applied", "rolled_back"} /\ Answer(t, q.pc)
        /\ UNCHANGED <<lastId, books, keys, cases, range, notes, post>>
    BY DEF ContainmentStored, FlowsOnly, At
  <1>2. DOMAIN q = RequestFields /\ Control(q) /\ (q.alone => RangeAlone(q))
    BY <1>1, RequestKnown DEF AloneTrue
  <1>3. PICK o \in {"applied", "rolled_back"} : o = q.pc
    BY <1>1
  <1>4. MovesTo(t, "reply", o)
    BY <1>1, <1>3 DEF Answer, MovesTo
  <1>5. PICK r : /\ req' = [req EXCEPT ![t] = r] /\ Carries(r, q)
                 /\ r.pc = "reply" /\ r.outcome = o
    BY <1>1, <1>4, AnswerCarries
  <1>6. /\ r.kind = q.kind /\ r.alone = q.alone /\ r.flow = q.flow /\ DOMAIN r = RequestFields
        /\ r.kind \in {"contain", "rollback"} /\ r.flow \in Nat
    BY <1>1, <1>2, <1>5 DEF Carries, Control
  <1>7. /\ Rewrites /\ DOMAIN flows' = DOMAIN flows
        /\ \A f \in DOMAIN flows' : /\ flows'[f].recorded = flows[f].recorded
                                    /\ flows'[f].triage = flows[f].triage
        /\ q.flow \in DOMAIN flows => flows'[q.flow].containment = o
    BY <1>1, <1>3 DEF ContainmentStored, Rewrites, ConsoleInv, SharedTrue, RowsTrue, RowFields
  <1>8. DOMAIN req' = Threads /\ DOMAIN post' = Threads
    BY <1>1, <1>5 DEF ConsoleInv, SharedTrue
  <1>9. SharedTrue' /\ Grows
    BY <1>1, <1>7, <1>8, RewriteKeeps
  <1>10. r.alone => RangeAlone(r)'
    <2>1. q.alone => /\ q.flow \in DOMAIN flows
                     /\ o = "applied" => range.rules > 0
                     /\ o = "rolled_back" => range.rules = 0
      BY <1>1, <1>2, <1>3 DEF RangeAlone, Control
    <2> QED
      BY <1>1, <1>5, <1>6, <1>7, <2>1 DEF RangeAlone
  <1>11. Control(r)
    BY <1>5, <1>6 DEF Control, Sensing, Seeding, Stitching, Calling
  <1>12. Responds(r)' /\ Awaits(r, post[t])' /\ Advises(r)'
    BY <1>5 DEF Responds, Awaits, Advises, Calling
  <1>13. RecordsAlone(r)' /\ EventAlone(r)' /\ ScenarioAlone(r)'
    BY <1>5, <1>6 DEF RecordsAlone, EventAlone, ScenarioAlone
  <1>14. TrueRequest(r, post[t])'
    BY <1>6, <1>10, <1>11, <1>12, <1>13 DEF TrueRequest, AloneTrue, Control
  <1> QED
    BY <1>1, <1>5, <1>6, <1>9, <1>14, RequestMoves

(* Every step of the response keeps the invariant. *)
LEMMA ResponseKeeps ==
    ASSUME ConsoleInv, NEW t \in Threads, ResponseStep(t)
    PROVE  ConsoleInv'
  BY ResponseRoutes, ApproveReads, Recommends, Decides, ReceiptsStored, DispatchReads,
     ContractsSent, CasesCreated, AnswersAwaited, CallbacksStored, PostKeeps, RequestsResent,
     RangeReads, RulesChange, RangeProbed, RangeUndone, ContainmentsStored DEF ResponseStep

-----------------------------------------------------------------------------
(* The console by itself. *)
LEMMA ConsoleStarts == Init => ConsoleInv
  <1> SUFFICES ASSUME Init PROVE ConsoleInv
    OBVIOUS
  <1>1. RowsTrue /\ RangeTrue /\ TriageLogged /\ ReceiptsTrue
    BY DEF Init, RowsTrue, RangeTrue, TriageLogged, ReceiptsTrue
  <1>2. LedgerTrue
    BY DEF Init, LedgerTrue
  <1>3. KeysTrue
    <2>1. PICK w \in BOOLEAN :
              keys = [memory |-> {}, disk |-> {}, answered |-> {}, sent |-> {}, unsure |-> {}, webhook |-> w]
      BY DEF Init
    <2> QED BY <2>1 DEF KeysTrue
  <1>4. NotesTrue
    BY DEF Init, NotesTrue, Endpoints
  <1>5. DOMAIN req = Threads /\ DOMAIN post = Threads
    BY DEF Init
  <1>6. \A t \in Threads : RequestTrue(t) /\ PostTrue(t)
    BY DEF Init, RequestTrue, PostTrue, Idle, NoPost
  <1> QED BY <1>1, <1>2, <1>3, <1>4, <1>5, <1>6 DEF ConsoleInv, SharedTrue

(* So does every step of the console. *)
LEMMA ConsoleSteps == ConsoleInv /\ Next => ConsoleInv'
  BY IntakeKeeps, RecordKeeps, AdviceKeeps, ResponseKeeps, Replies, Crashes, VictimsToggled DEF Next

(* Nothing the console keeps changes, except what is still allowed. *)
Rests == UNCHANGED <<flows, lastId, campaigns, store, books, keys, cases, range, notes, req, post>>

(* And every step that leaves the console alone. *)
LEMMA ConsoleRests == ConsoleInv /\ Rests => ConsoleInv'
  <1> SUFFICES ASSUME ConsoleInv, Rests PROVE ConsoleInv'
    OBVIOUS
  <1>1. Still /\ req' = req /\ post' = post /\ campaigns' = campaigns
    BY DEF Rests, Still
  <1>2. SharedTrue'
    BY <1>1, StillShared DEF ConsoleInv, SharedTrue
  <1>3. ASSUME NEW t \in Threads PROVE RequestTrue(t)' /\ PostTrue(t)'
    <2>1. PostTrue(t)'
      BY <1>1, StillShared, OtherPost DEF ConsoleInv, SharedTrue
    <2>2. CASE req[t] = Idle
      BY <1>1, <2>1, <2>2 DEF RequestTrue, Idle
    <2>3. CASE req[t] # Idle
      <3>1. PICK r : r = req[t]
        OBVIOUS
      <3>2. TrueRequest(r, post[t]) /\ (r.alone => Alone(t))
        BY <2>3, <3>1 DEF ConsoleInv, RequestTrue
      <3>3. Responds(r)' /\ Awaits(r, post[t])' /\ Advises(r)'
        BY <1>1, <3>2 DEF TrueRequest, Still, Responds, Awaits, Advises, Approved, Key, Calling
      <3>4. r.alone => RecordsAlone(r)' /\ RangeAlone(r)'
        BY <1>1, <3>2 DEF TrueRequest, AloneTrue, Still, RecordsAlone, RangeAlone, Signs, Holds,
                          Word, Entities
      <3>5. r.alone => EventAlone(r)' /\ ScenarioAlone(r)'
        BY <1>1, <3>2 DEF TrueRequest, AloneTrue, Still, EventAlone, ScenarioAlone, BridgeRows,
                          ScenarioRows
      <3>6. TrueRequest(r, post[t])'
        BY <3>2, <3>3, <3>4, <3>5 DEF TrueRequest, AloneTrue, Control
      <3>7. r.alone => Alone(t)'
        BY <1>1, <3>2 DEF Alone, Quiet, Idle, NoPost
      <3> QED
        BY <1>1, <2>1, <3>1, <3>6, <3>7 DEF RequestTrue
    <2> QED BY <2>2, <2>3
  <1> QED BY <1>2, <1>3 DEF ConsoleInv

-----------------------------------------------------------------------------
(* The follower beside the console.  What it has to hand over are lines that     *)
(* were written, whatever pieces of the file it read them from.                  *)
Halves == 1 .. 2 * Len(Stream)
Lines == 1 .. Len(Stream)
EveFields ==
    {"pc", "positioned", "offset", "partial", "todo", "thread",
     "file", "text", "written", "handled", "due", "stale", "blind"}
EveTrue ==
    /\ DOMAIN eve = EveFields
    /\ eve.written \in 0 .. 2 * Len(Stream) /\ eve.offset \in Nat
    /\ eve.text \in Seq(Halves) /\ eve.partial \in Seq(Halves)
    /\ eve.todo \subseteq Lines
    /\ eve.pc \in {"lines", "await"} => eve.todo # {}
    /\ eve.pc = "await" => eve.thread \in Threads

(* The inductive invariant of the console with its follower. *)
FollowerInv == ConsoleInv /\ EveTrue

(* The last of the second halves read, or none of them. *)
LEMMA LastSecondHalf ==
    ASSUME NEW s \in Seq(Halves)
    PROVE  /\ SelectLastInSeq(s, SecondHalf) \in 0 .. Len(s)
           /\ \A i \in 1 .. Len(s) : SecondHalf(s[i]) => i <= SelectLastInSeq(s, SecondHalf)
           /\ \A i \in 1 .. Len(s) :
                 i = SelectLastInSeq(s, SecondHalf) => SecondHalf(s[i])
  <1> DEFINE I == {i \in 1 .. Len(s) : SecondHalf(s[i])}
  <1>1. Len(s) \in Nat
    OBVIOUS
  <1>2. CASE I = {}
    <2>1. SelectLastInSeq(s, SecondHalf) = 0
      BY <1>2 DEF SelectLastInSeq
    <2> QED BY <1>1, <1>2, <2>1
  <1>3. CASE I # {}
    <2> DEFINE J == {k \in Nat : \E i \in I : k = Len(s) - i}
    <2>1. J \subseteq Nat /\ J # {}
      <3>1. PICK i \in I : TRUE
        BY <1>3
      <3>2. i \in 1 .. Len(s)
        OBVIOUS
      <3>3. Len(s) - i \in Nat
        BY <1>1, <3>2
      <3>4. Len(s) - i \in J
        BY <3>1, <3>3
      <3> QED BY <3>4
    <2>2. PICK k \in J : \A y \in J : k <= y
      <3> HIDE DEF J
      <3> QED BY <2>1, SmallestOf
    <2>3. PICK i \in I : k = Len(s) - i
      BY <2>2
    <2>4. ASSUME NEW j \in I PROVE i >= j
      <3>1. i \in 1 .. Len(s) /\ j \in 1 .. Len(s)
        OBVIOUS
      <3>2. Len(s) - j \in J
        BY <1>1, <3>1
      <3>3. k <= Len(s) - j
        BY <2>2, <3>2
      <3> QED BY <1>1, <2>3, <3>1, <3>3
    <2>5. Max(I) \in I /\ \A j \in I : Max(I) >= j
      <3> HIDE DEF I
      <3> QED BY <2>3, <2>4 DEF Max
    <2>6. SelectLastInSeq(s, SecondHalf) = Max(I)
      BY <1>3 DEF SelectLastInSeq
    <2>7. Max(I) \in 1 .. Len(s)
      BY <2>5
    <2>8. PICK m : m = Max(I)
      OBVIOUS
    <2>9. ASSUME NEW j \in 1 .. Len(s), SecondHalf(s[j]) PROVE j <= m
      <3>1. m >= j /\ m \in 1 .. Len(s)
        BY <2>5, <2>7, <2>8, <2>9
      <3> QED BY <1>1, <3>1
    <2>10. m \in 1 .. Len(s) /\ SecondHalf(s[m])
      BY <2>5, <2>8
    <2>11. m = SelectLastInSeq(s, SecondHalf)
      BY <2>6, <2>8
    <2>12. m \in 0 .. Len(s) /\ \A j \in 1 .. Len(s) : j = m => SecondHalf(s[j])
      BY <1>1, <2>10
    <2> HIDE DEF I
    <2> QED BY <2>9, <2>11, <2>12
  <1> QED BY <1>2, <1>3

(* What is kept of a read is a part of it, and so is what is handed over. *)
LEMMA ReadsParts ==
    ASSUME NEW s \in Seq(Halves)
    PROVE  RestOf(s) \in Seq(Halves) /\ LinesIn(s) \subseteq Lines
  <1>1. Len(s) \in Nat /\ \A i \in 1 .. Len(s) : s[i] \in Halves
    BY ElementOfSeq
  <1>2. PICK last : last = SelectLastInSeq(s, SecondHalf)
    OBVIOUS
  <1>3. last \in 0 .. Len(s)
    BY <1>2, LastSecondHalf
  <1>4. last + 1 \in Int /\ Len(s) \in Int /\ \A i \in last + 1 .. Len(s) : s[i] \in Halves
    BY <1>1, <1>3
  <1>5. SubSeq(s, last + 1, Len(s)) \in Seq(Halves)
    BY <1>4, SubSeqProperties
  <1>6. RestOf(s) \in Seq(Halves)
    BY <1>2, <1>5 DEF RestOf
  <1>7. Len(Stream) \in Nat
    BY StreamAssumption
  <1>8. ASSUME NEW k \in 2 .. Len(s), SecondHalf(s[k]) PROVE s[k] \div 2 \in Lines
    <2>1. s[k] \in Halves
      BY <1>1
    <2> QED BY <1>7, <1>8, <2>1 DEF Halves, Lines, SecondHalf
  <1> QED BY <1>6, <1>8 DEF LinesIn

(* The line at hand is one that is to be handed over. *)
LEMMA LineAtHand ==
    ASSUME EveTrue, eve.todo # {}
    PROVE  CurrentLine \in eve.todo /\ CurrentLine \in Lines
  <1>1. Len(Stream) \in Nat
    BY StreamAssumption
  <1>2. eve.todo \subseteq Nat
    BY <1>1 DEF EveTrue, Lines
  <1>3. PICK T : T = eve.todo
    OBVIOUS
  <1>4. \E x \in T : \A y \in T : x <= y
    BY <1>2, <1>3, SmallestOf
  <1>5. CurrentLine \in eve.todo
    BY <1>3, <1>4 DEF CurrentLine
  <1> QED BY <1>5 DEF EveTrue

(* The follower dies, with what it had to hand over. *)
LEMMA DeathKeeps ==
    ASSUME EveTrue, eve' = Dies
    PROVE  EveTrue'
  BY DEF EveTrue, Dies, EveFields

(* A line is done with. *)
LEMMA LineDoneKeeps ==
    ASSUME EveTrue, eve.todo # {}, eve' = LineDone
    PROVE  EveTrue'
  <1>1. PICK n \in eve.todo : n = CurrentLine
    BY LineAtHand
  <1>2. /\ DOMAIN eve' = DOMAIN eve /\ eve'.todo = eve.todo \ {n}
        /\ eve'.written = eve.written /\ eve'.offset = eve.offset
        /\ eve'.text = eve.text /\ eve'.partial = eve.partial
        /\ eve'.pc = IF eve.todo = {n} THEN "look" ELSE "lines"
    BY <1>1 DEF LineDone, EveTrue, EveFields
  <1>3. eve'.todo \subseteq Lines /\ (eve.todo # {n} => eve'.todo # {})
    BY <1>1, <1>2 DEF EveTrue
  <1>4. eve'.pc = "lines" => eve'.todo # {}
    BY <1>2, <1>3
  <1> QED BY <1>2, <1>3, <1>4 DEF EveTrue

-----------------------------------------------------------------------------
(* Its steps.  Suricata and whoever rotates its log. *)
LEMMA FileChanges ==
    ASSUME EveTrue, SuricataWrites \/ Rotated
    PROVE  EveTrue'
  <1>1. Len(Stream) \in Nat
    BY StreamAssumption
  <1>2. CASE SuricataWrites
    <2>1. PICK h : h = eve.written + 1
      OBVIOUS
    <2>2. h \in Halves /\ h \in 0 .. 2 * Len(Stream)
      BY <1>1, <1>2, <2>1 DEF SuricataWrites, EveTrue, Halves
    <2>3. PICK text : text = Append(eve.text, h)
      OBVIOUS
    <2>4. text \in Seq(Halves)
      BY <2>2, <2>3, AppendProperties DEF EveTrue
    <2>5. /\ DOMAIN eve' = DOMAIN eve /\ eve'.text = text /\ eve'.written = h
          /\ eve'.offset = eve.offset /\ eve'.partial = eve.partial
          /\ eve'.todo = eve.todo /\ eve'.pc = eve.pc /\ eve'.thread = eve.thread
      BY <1>2, <2>1, <2>3 DEF SuricataWrites, EveTrue, EveFields
    <2> QED BY <2>2, <2>4, <2>5 DEF EveTrue
  <1>3. CASE Rotated
    <2>1. /\ DOMAIN eve' = DOMAIN eve /\ eve'.text = <<>> /\ eve'.written = eve.written
          /\ eve'.offset = eve.offset /\ eve'.partial = eve.partial
          /\ eve'.todo = eve.todo /\ eve'.pc = eve.pc /\ eve'.thread = eve.thread
      BY <1>3 DEF Rotated, EveTrue, EveFields
    <2>2. eve'.text \in Seq(Halves)
      BY <2>1
    <2> QED BY <2>1, <2>2 DEF EveTrue
  <1> QED BY <1>2, <1>3

(* One look at the file. *)
LEMMA LooksKeep ==
    ASSUME EveTrue, EveLooked
    PROVE  EveTrue'
  <1>1. Len(eve.text) \in Nat
    BY DEF EveTrue
  <1>2. DOMAIN eve = EveFields
    BY DEF EveTrue
  <1>3. eve.pc = "look"
    BY DEF EveLooked
  <1>4. /\ DOMAIN eve' = EveFields /\ eve'.text = eve.text /\ eve'.written = eve.written
        /\ eve'.todo = eve.todo /\ eve'.thread = eve.thread
        /\ eve'.offset \in {0, eve.offset, Len(eve.text)}
        /\ eve'.partial \in {<<>>, eve.partial} /\ eve'.pc \in {"look", "read"}
    <2>1. ASSUME NEW offset \in {0, Len(eve.text)}, NEW positioned, NEW e, e = From(offset, positioned)
          PROVE  /\ DOMAIN e = EveFields /\ e.offset = offset /\ e.partial = <<>>
                 /\ e.text = eve.text /\ e.written = eve.written
                 /\ e.todo = eve.todo /\ e.thread = eve.thread /\ e.pc = "look"
      BY <1>2, <1>3, <2>1 DEF From, EveFields
    <2>2. ASSUME NEW positioned, NEW e, e = From(0, positioned)
          PROVE  /\ DOMAIN e = EveFields /\ e.offset = 0 /\ e.partial = <<>>
                 /\ e.text = eve.text /\ e.written = eve.written
                 /\ e.todo = eve.todo /\ e.thread = eve.thread /\ e.pc = "look"
      BY <2>1, <2>2
    <2>3. CASE eve' = [From(0, FALSE) EXCEPT !.due = {}]
      <3>1. PICK e : e = From(0, FALSE)
        OBVIOUS
      <3>2. eve' = [e EXCEPT !.due = {}]
        BY <2>3, <3>1
      <3>3. /\ DOMAIN e = EveFields /\ e.offset = 0 /\ e.partial = <<>>
            /\ e.text = eve.text /\ e.written = eve.written
            /\ e.todo = eve.todo /\ e.thread = eve.thread /\ e.pc = "look"
        BY <2>2, <3>1
      <3> QED BY <3>2, <3>3 DEF EveFields
    <2>4. CASE eve' = [From(0, TRUE) EXCEPT !.pc = IF Len(eve.text) > 0 THEN "read" ELSE "look"]
      <3>1. PICK e : e = From(0, TRUE)
        OBVIOUS
      <3>2. PICK pc : pc = IF Len(eve.text) > 0 THEN "read" ELSE "look"
        OBVIOUS
      <3>3. eve' = [e EXCEPT !.pc = pc] /\ pc \in {"look", "read"}
        BY <2>4, <3>1, <3>2
      <3>4. /\ DOMAIN e = EveFields /\ e.offset = 0 /\ e.partial = <<>>
            /\ e.text = eve.text /\ e.written = eve.written
            /\ e.todo = eve.todo /\ e.thread = eve.thread /\ e.pc = "look"
        BY <2>2, <3>1
      <3> QED BY <3>3, <3>4 DEF EveFields
    <2>5. CASE eve' = From(Len(eve.text), TRUE)
      <3>1. PICK e : e = eve'
        OBVIOUS
      <3>2. /\ DOMAIN e = EveFields /\ e.offset = Len(eve.text) /\ e.partial = <<>>
            /\ e.text = eve.text /\ e.written = eve.written
            /\ e.todo = eve.todo /\ e.thread = eve.thread /\ e.pc = "look"
        BY <2>1, <2>5, <3>1
      <3> QED BY <3>1, <3>2
    <2>6. CASE \E pc \in {"read", "look"} : \E blind :
                  eve' = [eve EXCEPT !.pc = pc, !.blind = blind]
      BY <1>2, <2>6 DEF EveFields
    <2> QED BY <2>5, <2>6, <2>3, <2>4 DEF EveLooked
  <1>5. eve'.partial \in Seq(Halves)
    <2>1. <<>> \in Seq(Halves)
      OBVIOUS
    <2> QED BY <1>4, <2>1 DEF EveTrue
  <1> QED BY <1>1, <1>2, <1>4, <1>5 DEF EveTrue

(* One read of it. *)
LEMMA ReadsKeep ==
    ASSUME EveTrue, EveRead
    PROVE  EveTrue'
  <1>1. CASE ~eve.file
    BY <1>1, DeathKeeps DEF EveRead
  <1>2. CASE eve.file
    <2>1. PICK size : size = Len(eve.text)
      OBVIOUS
    <2>2. size \in Nat /\ eve.offset \in Nat /\ \A i \in 1 .. size : eve.text[i] \in Halves
      BY <2>1, ElementOfSeq DEF EveTrue
    <2>3. PICK new : new = SubSeq(eve.text, eve.offset + 1, size)
      OBVIOUS
    <2>4. new \in Seq(Halves)
      <3>1. /\ eve.offset + 1 \in Int /\ size \in Int
            /\ \A i \in eve.offset + 1 .. size : eve.text[i] \in Halves
        BY <2>2
      <3> QED BY <2>3, <3>1, SubSeqProperties
    <2>5. PICK all : all = eve.partial \o new
      OBVIOUS
    <2>6. all \in Seq(Halves)
      BY <2>4, <2>5, ConcatProperties DEF EveTrue
    <2>7. RestOf(all) \in Seq(Halves) /\ LinesIn(all) \subseteq Lines
      BY <2>6, ReadsParts
    <2>8. /\ DOMAIN eve' = DOMAIN eve /\ eve'.text = eve.text /\ eve'.written = eve.written
          /\ eve'.offset = (IF size > eve.offset THEN size ELSE eve.offset)
          /\ eve'.partial = RestOf(all) /\ eve'.todo = LinesIn(all)
          /\ eve'.pc = IF LinesIn(all) = {} THEN "look" ELSE "lines"
      BY <1>2, <2>1, <2>3, <2>5 DEF EveRead, EveTrue, EveFields
    <2>9. eve'.offset \in Nat /\ eve'.pc # "await" /\ (eve'.pc = "lines" => eve'.todo # {})
      BY <2>2, <2>8
    <2> QED BY <2>7, <2>8, <2>9 DEF EveTrue
  <1> QED BY <1>1, <1>2

(* A line becomes a request of the sensor route. *)
LEMMA PostsKeep ==
    ASSUME FollowerInv, NEW t \in Threads, LinePosted(t)
    PROVE  FollowerInv'
  <1>1. PICK s : s = Stream[CurrentLine]
    OBVIOUS
  <1>2. CurrentLine \in Lines
    BY LineAtHand DEF FollowerInv, LinePosted, EveTrue
  <1>3. s \in Shapes
    <2>1. Stream[CurrentLine] \in Shapes \cup {None}
      <3>1. PICK n \in 1 .. Len(Stream) : n = CurrentLine
        BY <1>2 DEF Lines
      <3> QED BY <3>1, StreamAssumption
    <2> QED BY <1>1, <2>1 DEF LinePosted
  <1>4. ConsoleInv'
    BY <1>1, <1>3, SensorBegins DEF FollowerInv, LinePosted
  <1>5. /\ DOMAIN eve' = DOMAIN eve /\ eve'.text = eve.text /\ eve'.written = eve.written
        /\ eve'.offset = eve.offset /\ eve'.partial = eve.partial
        /\ eve'.todo = eve.todo /\ eve'.pc = "await" /\ eve'.thread = t /\ eve.pc = "lines"
    BY DEF LinePosted, FollowerInv, EveTrue, EveFields
  <1>6. EveTrue'
    BY <1>5 DEF FollowerInv, EveTrue
  <1> QED BY <1>4, <1>6 DEF FollowerInv

(* The follower is started again. *)
LEMMA StartsFresh ==
    ASSUME EveTrue, FollowerStarts
    PROVE  EveTrue'
  <1>1. PICK over : over = Over(Fresh, eve)
    OBVIOUS
  <1>2. /\ DOMAIN over = EveFields /\ over.text = eve.text /\ over.written = eve.written
        /\ over.offset = 0 /\ over.partial = <<>> /\ over.todo = {} /\ over.pc = "look"
    BY <1>1 DEF Over, Fresh, EveTrue, EveFields
  <1>3. /\ DOMAIN eve' = EveFields /\ eve'.text = over.text /\ eve'.written = over.written
        /\ eve'.offset = 0 /\ eve'.partial = <<>> /\ eve'.todo = {} /\ eve'.pc = "look"
    BY <1>1, <1>2 DEF FollowerStarts, EveFields
  <1> QED BY <1>2, <1>3 DEF EveTrue

(* A step of the follower or of the file keeps the console's invariant, for  *)
(* it does nothing to the console that a client does not do.                 *)
LEMMA FollowerKeeps ==
    ASSUME FollowerInv, FollowedNext
    PROVE  FollowerInv'
  <1>1. CASE Next /\ UNCHANGED eve
    BY <1>1, ConsoleSteps DEF FollowerInv, EveTrue
  <1>2. CASE SuricataWrites \/ Rotated
    <2>1. Rests
      BY <1>2 DEF SuricataWrites, Rotated, Rests
    <2> QED BY <1>2, <2>1, ConsoleRests, FileChanges DEF FollowerInv
  <1>3. CASE EveLooked \/ EveRead
    <2>1. Rests
      BY <1>3 DEF EveLooked, EveRead, Rests, consoleVars
    <2> QED BY <1>3, <2>1, ConsoleRests, LooksKeep, ReadsKeep DEF FollowerInv
  <1>4. CASE LinePassed
    <2>1. Rests /\ eve.todo # {} /\ eve' = LineDone
      BY <1>4 DEF LinePassed, Rests, consoleVars, FollowerInv, EveTrue
    <2> QED BY <2>1, ConsoleRests, LineDoneKeeps DEF FollowerInv
  <1>5. ASSUME NEW t \in Threads, LinePosted(t) PROVE FollowerInv'
    BY <1>5, PostsKeep
  <1>6. CASE PostAnswered
    <2>1. PICK t \in Threads : t = eve.thread
      BY <1>6 DEF PostAnswered, FollowerInv, EveTrue
    <2>2. ConsoleInv'
      BY <1>6, <2>1, Replies DEF PostAnswered, FollowerInv
    <2>3. eve.todo # {} /\ (eve' = LineDone \/ eve' = Dies)
      BY <1>6 DEF PostAnswered, FollowerInv, EveTrue
    <2> QED BY <2>2, <2>3, LineDoneKeeps, DeathKeeps DEF FollowerInv
  <1>7. CASE ConsoleGone
    BY <1>7, Crashes, DeathKeeps DEF ConsoleGone, FollowerInv
  <1>8. CASE FollowerStops \/ FollowerStarts
    <2>1. Rests
      BY <1>8 DEF FollowerStops, FollowerStarts, Rests
    <2>2. EveTrue'
      BY <1>8, DeathKeeps, StartsFresh DEF FollowerInv, FollowerStops
    <2> QED BY <2>1, <2>2, ConsoleRests DEF FollowerInv
  <1> QED
    BY <1>1, <1>2, <1>3, <1>4, <1>5, <1>6, <1>7, <1>8 DEF FollowedNext

(* The console starts empty, the follower before its first look. *)
LEMMA FollowerBegins == FollowedInit => FollowerInv
  <1> SUFFICES ASSUME FollowedInit PROVE FollowerInv
    OBVIOUS
  <1>1. ConsoleInv
    BY ConsoleStarts DEF FollowedInit
  <1>2. /\ DOMAIN eve = EveFields /\ eve.text = <<>> /\ eve.written = 0 /\ eve.offset = 0
        /\ eve.partial = <<>> /\ eve.todo = {} /\ eve.pc = "look"
    BY DEF FollowedInit, Over, Fresh, EveFields
  <1>3. Len(Stream) \in Nat
    BY StreamAssumption
  <1>4. EveTrue
    BY <1>2, <1>3 DEF EveTrue
  <1> QED BY <1>1, <1>4 DEF FollowerInv

(* The invariant of the console and its follower, for every number of        *)
(* threads, every shape of traffic, every budget and every stream.           *)
THEOREM FollowerInvHolds == FollowedSpec => []FollowerInv
  <1>1. FollowedInit => FollowerInv
    BY FollowerBegins
  <1>2. FollowerInv /\ [FollowedNext]_followerVars => FollowerInv'
    <2> SUFFICES ASSUME FollowerInv, [FollowedNext]_followerVars PROVE FollowerInv'
      OBVIOUS
    <2>1. CASE FollowedNext
      BY <2>1, FollowerKeeps
    <2>2. CASE UNCHANGED followerVars
      <3>1. Rests /\ eve' = eve
        BY <2>2 DEF followerVars, consoleVars, Rests
      <3> QED BY <3>1, ConsoleRests DEF FollowerInv, EveTrue
    <2> QED BY <2>1, <2>2
  <1> QED BY <1>1, <1>2, PTL DEF FollowedSpec

-----------------------------------------------------------------------------
(* What the invariant says of the console. *)

(* A contract request that begins after its key was accepted is never accepted, *)
(* also after a restart, unless the key's database access failed.               *)
THEOREM ReplayRefusedHolds == FollowedSpec => []ReplayRefused
  <1>1. FollowerInv => ReplayRefused
    BY DEF FollowerInv, ConsoleInv, ReplayRefused, PostTrue, Contracted
  <1> QED BY <1>1, FollowerInvHolds, PTL

(* A row says its callback is recorded only if an analyst approved a playbook   *)
(* for this very row, its case is in the outbox, and the contract server        *)
(* accepted a callback of that playbook and wrote its timing.                   *)
THEOREM ReceiptBackedHolds == FollowedSpec => []ReceiptBacked
  <1>1. ASSUME FollowerInv PROVE ReceiptBacked
    <2>1. SharedTrue
      BY <1>1 DEF FollowerInv, ConsoleInv
    <2>2. ASSUME NEW f \in DOMAIN flows, flows[f].recorded # 0
          PROVE  /\ cases[flows[f].recorded] = Candidate(f)
                 /\ \E b \in Books(f, {"approved"}) :
                       /\ books[b].born = flows[f].born
                       /\ books[b].timed /\ Key("callback", b) \in keys.answered
      <3>1. PICK b \in DOMAIN books :
              /\ books[b].state = "approved" /\ books[b].candidate = f /\ books[b].timed
              /\ Key("callback", b) \in keys.answered
        BY <2>1, <2>2 DEF SharedTrue, ReceiptsTrue
      <3>2. b \in Books(f, {"approved"})
        BY <3>1 DEF Books, Candidate
      <3>3. books[b].born = flows[f].born
        BY <2>1, <3>1 DEF SharedTrue, LedgerTrue, RowsTrue
      <3>4. cases[flows[f].recorded] = Candidate(f)
        BY <2>1, <2>2 DEF SharedTrue, ReceiptsTrue, Candidate
      <3> QED BY <3>1, <3>2, <3>3, <3>4
    <2> QED BY <2>2 DEF ReceiptBacked
  <1> QED BY <1>1, FollowerInvHolds, PTL

(* A containment or a rollback that ran alone and succeeded tells the truth     *)
(* about the victim, whatever rules overlapping or crashed requests left.       *)
THEOREM RangeOutcomesTrue == FollowedSpec => []RangeOutcomeTrue
  <1>1. ASSUME FollowerInv PROVE RangeOutcomeTrue
    <2>1. ASSUME NEW t \in Threads, NEW kind, NEW outcome, LoneTold(t, kind, {outcome})
          PROVE  RangeAlone(req[t]) /\ req[t].pc = "reply" /\ req[t].outcome = outcome
      BY <1>1, <2>1 DEF FollowerInv, ConsoleInv, RequestTrue, TrueRequest, AloneTrue,
                        LoneTold, Told, At
    <2>2. ASSUME NEW t \in Threads, LoneTold(t, "contain", {"applied"})
          PROVE  range.rules > 0 /\ flows[req[t].flow].containment = "applied"
      BY <2>1, <2>2 DEF RangeAlone
    <2>3. ASSUME NEW t \in Threads, LoneTold(t, "rollback", {"rolled_back"})
          PROVE  range.rules = 0 /\ flows[req[t].flow].containment = "rolled_back"
      BY <2>1, <2>3 DEF RangeAlone
    <2> QED BY <2>2, <2>3 DEF RangeOutcomeTrue
  <1> QED BY <1>1, FollowerInvHolds, PTL

(* What an analyst recorded alone stands in the row under the analyst's stamp,  *)
(* and a verdict or a rule is what each endpoint of it is remembered for.       *)
THEOREM RecordsKeptHolds == FollowedSpec => []RecordsKept
  <1>1. ASSUME FollowerInv PROVE RecordsKept
    <2> SUFFICES ASSUME NEW t \in Threads, Told(t, {"recorded"}), req[t].alone
                 PROVE  /\ req[t].kind \in {"verdict", "triage", "assignment"} =>
                              flows[req[t].flow].stamp = req[t].actor
                        /\ req[t].kind \in {"verdict", "triage"} =>
                              flows[req[t].flow][req[t].kind] = req[t].actor
                        /\ req[t].kind = "assignment" =>
                              flows[req[t].flow].assignee = req[t].actor
                        /\ req[t].kind \in {"verdict", "memory"} =>
                              \A e \in Entities(flows[req[t].flow]) :
                                  notes.memory[e] = Word(req[t])
                        /\ req[t].kind \in {"triage", "note"} => Word(req[t]) \in notes.log
      BY DEF RecordsKept, Word
    <2>1. PICK r : r = req[t]
      OBVIOUS
    <2>2. r.pc = "reply" /\ r.outcome = "recorded" /\ RecordsAlone(r)
      BY <1>1, <2>1 DEF FollowerInv, ConsoleInv, RequestTrue, TrueRequest, AloneTrue, Told, At
    <2>3. /\ r.kind \in {"verdict", "triage", "assignment"} =>
                Signs(r) /\ flows[r.flow].stamp = r.actor
          /\ r.kind \in {"verdict", "memory"} =>
                \A e \in Entities(flows[r.flow]) : notes.memory[e] = Word(r)
          /\ r.kind = "note" => Word(r) \in notes.log
      BY <2>2 DEF RecordsAlone
    <2> QED BY <2>1, <2>3 DEF Signs
  <1> QED BY <1>1, FollowerInvHolds, PTL

(* A brief served as Gemini's is of the row it is asked about, and the triage   *)
(* state a handoff shows has its event among those it lists.                    *)
THEOREM AdviceOfThisRowHolds == FollowedSpec => []AdviceOfThisRow
  <1>1. ASSUME FollowerInv PROVE AdviceOfThisRow
    <2>1. ASSUME NEW t \in Threads, req[t] # Idle PROVE Advises(req[t])
      BY <1>1, <2>1 DEF FollowerInv, ConsoleInv, RequestTrue, TrueRequest
    <2>2. BriefOfThisRow
      BY <2>1 DEF BriefOfThisRow, Told, At, Advises
    <2>3. HandoffTellsTriage
      BY <2>1 DEF HandoffTellsTriage, Told, At, Advises
    <2> QED BY <2>2, <2>3 DEF AdviceOfThisRow
  <1> QED BY <1>1, FollowerInvHolds, PTL

-----------------------------------------------------------------------------
(* That no line is skipped or handled twice, of the follower's part e.  The     *)
(* file holds the halves written last.                                          *)
TextTrue(e) ==
    /\ Len(e.text) <= e.written
    /\ ~e.file => e.text = <<>>
    /\ \A i \in 1 .. Len(e.text) : e.text[i] = e.written - Len(e.text) + i

(* While the file is the one that is followed, what is kept of a read is the    *)
(* half line before the offset; what is kept of any read are first halves.      *)
PlaceTrue(e) ==
    /\ e.pc \in {"look", "read", "dead"} => e.todo = {}
    /\ e.pc \notin {"look", "dead"} => e.positioned
    /\ ~e.positioned => e.due = {} /\ e.offset = 0
    /\ e.offset = 0 => e.partial = <<>> /\ ~e.stale
    /\ ~e.stale =>
          /\ e.offset <= Len(e.text)
          /\ e.partial = <<>> \/ e.partial = <<e.text[e.offset]>>
    /\ \A i \in 1 .. Len(e.partial) : ~SecondHalf(e.partial[i])

(* Place i of the file has not been read yet; unless the file has grown past    *)
(* the old offset, nothing has been of a file that took its place.              *)
Unread(e, i) == e.offset < i \/ Len(e.text) < e.offset \/ (e.stale /\ ~e.blind)

(* Lines are taken in order: what was taken comes before all that is not read.  *)
Taken(e) == ToSet(e.handled) \cup e.todo
TakenTrue(e) ==
    /\ e.handled \in Seq(Lines)
    /\ \A i, j \in DOMAIN e.handled : i < j => e.handled[i] < e.handled[j]
    /\ \A k \in ToSet(e.handled), n \in e.todo : k < n
    /\ \A k \in Taken(e) :
          /\ 2 * k <= e.written
          /\ e.positioned => \A i \in 1 .. Len(e.text) : Unread(e, i) => 2 * k < e.text[i]
          /\ e.positioned => \A i \in 1 .. Len(e.partial) : 2 * k < e.partial[i]

(* A line that is due is taken, or its first half is kept, or not read yet.     *)
FirstHalfAt(e, n, i) == i \in 1 .. Len(e.text) /\ e.text[i] = 2 * n - 1
DueTrue(e) ==
    /\ e.due \subseteq Nat
    /\ Len(e.text) < e.offset => \A n \in e.due : \E i \in Nat : FirstHalfAt(e, n, i)
    /\ ~e.blind /\ e.pc # "dead" =>
          \A n \in e.due \ Taken(e) : \E i \in Nat :
              /\ FirstHalfAt(e, n, i)
              /\ Unread(e, i) \/ (i = e.offset /\ e.partial # <<>>)

FileTrue(e) == TextTrue(e) /\ PlaceTrue(e) /\ TakenTrue(e) /\ DueTrue(e)

Typed(e) ==
    /\ e.text \in Seq(Halves) /\ e.partial \in Seq(Halves) /\ e.todo \subseteq Lines
    /\ e.written \in Nat /\ e.offset \in Nat
SameFile(d, e) == d.file = e.file /\ d.text = e.text /\ d.written = e.written
SamePlace(d, e) ==
    /\ d.positioned = e.positioned /\ d.offset = e.offset /\ d.partial = e.partial
    /\ d.stale = e.stale /\ (d.blind <=> e.blind)
SameLines(d, e) == d.handled = e.handled /\ d.todo = e.todo

(* A half that is not the second of its line is the first. *)
LEMMA FirstOfItsLine ==
    ASSUME NEW h \in Nat, h % 2 # 0
    PROVE  (h + 1) \div 2 \in Nat /\ h = 2 * ((h + 1) \div 2) - 1
  OBVIOUS

(* A place in the file and its length grow together. *)
LEMMA BothShifted ==
    ASSUME NEW a \in Nat, NEW b \in Nat, NEW i \in Nat
    PROVE  a - b + i = (a + 1) - (b + 1) + i
  OBVIOUS

(* Suricata writes half a line: nobody has taken it, and it is due if the file  *)
(* is followed and the line begins.                                             *)
LEMMA FileWritten ==
    ASSUME NEW e, NEW d, Typed(e), FileTrue(e), NEW h, h = e.written + 1,
           d.file, d.text = Append(e.text, h), d.written = h,
           SamePlace(d, e), SameLines(d, e), d.pc = e.pc,
           d.due = IF e.positioned /\ ~SecondHalf(h) THEN e.due \cup {(h + 1) \div 2} ELSE e.due
    PROVE  FileTrue(d)
  <1>1. /\ h \in Nat /\ e.written \in Nat /\ e.offset \in Nat /\ Len(e.text) \in Nat
        /\ Len(d.text) = Len(e.text) + 1 /\ d.text[Len(e.text) + 1] = h
        /\ \A i \in 1 .. Len(e.text) : d.text[i] = e.text[i] /\ e.text[i] \in Nat
    <2>1. h \in Nat /\ e.written \in Nat /\ e.offset \in Nat /\ e.text \in Seq(Halves)
      BY DEF Typed
    <2>2. \A i \in 1 .. Len(e.text) : e.text[i] \in Nat
      <3>1. \A i \in 1 .. Len(e.text) : e.text[i] \in Halves
        BY <2>1, ElementOfSeq
      <3> QED BY <3>1 DEF Halves
    <2>3. PICK s, x : s = e.text /\ x = h /\ s \in Seq(Halves)
      BY <2>1
    <2>4. /\ Len(s) \in Nat /\ Len(Append(s, x)) = Len(s) + 1 /\ Append(s, x)[Len(s) + 1] = x
          /\ \A i \in 1 .. Len(s) : Append(s, x)[i] = s[i]
      BY ONLY <2>3
    <2> QED BY <2>1, <2>2, <2>3, <2>4
  <1>2. TextTrue(d)
    <2>1. Len(e.text) <= e.written
      BY DEF FileTrue, TextTrue
    <2>2. ASSUME NEW i \in 1 .. Len(d.text) PROVE d.text[i] = d.written - Len(d.text) + i
      <3>1. CASE i = Len(e.text) + 1
        BY <1>1, <3>1
      <3>2. CASE i \in 1 .. Len(e.text)
        <4>1. e.text[i] = e.written - Len(e.text) + i
          BY <3>2 DEF FileTrue, TextTrue
        <4>2. /\ d.text[i] = e.text[i] /\ Len(d.text) = Len(e.text) + 1
              /\ d.written = e.written + 1 /\ Len(e.text) \in Nat /\ e.written \in Nat /\ i \in Nat
          BY <1>1, <3>2
        <4>3. e.written - Len(e.text) + i = (e.written + 1) - (Len(e.text) + 1) + i
          BY ONLY <4>2, BothShifted
        <4> QED BY ONLY <4>1, <4>2, <4>3
      <3> QED BY <1>1, <3>1, <3>2
    <2>3. Len(d.text) <= d.written
      <3>1. /\ Len(e.text) <= e.written /\ Len(e.text) \in Nat /\ e.written \in Nat
            /\ Len(d.text) = Len(e.text) + 1 /\ d.written = e.written + 1
        BY <1>1, <2>1
      <3> QED BY ONLY <3>1
    <2>4. \A i \in 1 .. Len(d.text) : d.text[i] = d.written - Len(d.text) + i
      BY <2>2
    <2>5. d.file
      OBVIOUS
    <2> QED BY ONLY <2>3, <2>4, <2>5 DEF TextTrue
  <1>3. PlaceTrue(d)
    <2>1. PlaceTrue(e)
      BY DEF FileTrue
    <2>2. ~e.positioned => d.due = {}
      BY <2>1 DEF PlaceTrue
    <2>3. e.offset # 0 /\ e.offset <= Len(e.text) => d.text[e.offset] = e.text[e.offset]
      BY <1>1
    <2>4. ~e.stale => /\ e.offset <= Len(d.text)
                      /\ e.partial = <<>> \/ e.partial = <<d.text[e.offset]>>
      BY <1>1, <2>1, <2>3 DEF PlaceTrue
    <2> QED BY <2>1, <2>2, <2>4 DEF PlaceTrue, SamePlace, SameLines
  <1>4. TakenTrue(d)
    <2>1. TakenTrue(e) /\ Taken(d) = Taken(e) /\ Taken(e) \subseteq Nat
      BY DEF FileTrue, TakenTrue, Taken, SameLines, Typed, Lines, ToSet
    <2>2. ASSUME NEW k \in Taken(d), d.positioned, NEW i \in 1 .. Len(d.text), Unread(d, i)
          PROVE  2 * k < d.text[i]
      <3>1. k \in Nat /\ 2 * k <= e.written
        BY <2>1 DEF TakenTrue
      <3>2. CASE i = Len(e.text) + 1
        BY <1>1, <3>1, <3>2
      <3>3. CASE i \in 1 .. Len(e.text)
        <4>1. Unread(e, i)
          BY <1>1, <2>2, <3>3 DEF Unread, SamePlace
        <4>2. 2 * k < e.text[i]
          BY <2>1, <2>2, <3>3, <4>1 DEF TakenTrue, SamePlace
        <4> QED BY <1>1, <3>3, <4>2
      <3> QED BY <1>1, <3>2, <3>3
    <2>3. ASSUME NEW k \in Taken(d) PROVE 2 * k <= d.written
      BY <1>1, <2>1 DEF TakenTrue
    <2> QED BY <2>1, <2>2, <2>3 DEF TakenTrue, SamePlace, SameLines
  <1>5. DueTrue(d)
    <2>1. DueTrue(e) /\ PlaceTrue(e) /\ Taken(d) = Taken(e)
      BY DEF FileTrue, Taken, SameLines
    <2>2. ASSUME NEW n, NEW i, FirstHalfAt(e, n, i) PROVE FirstHalfAt(d, n, i)
      BY <1>1, <2>2 DEF FirstHalfAt
    <2>4. ASSUME NEW n \in d.due \ e.due
          PROVE  n \in Nat /\ FirstHalfAt(d, n, Len(e.text) + 1)
      <3>1. n = (h + 1) \div 2 /\ h % 2 # 0
        BY <2>4 DEF SecondHalf
      <3>2. n \in Nat /\ h = 2 * n - 1
        <4>1. h \in Nat /\ h % 2 # 0
          BY <1>1, <3>1
        <4>2. (h + 1) \div 2 \in Nat /\ h = 2 * ((h + 1) \div 2) - 1
          BY ONLY <4>1, FirstOfItsLine
        <4> QED BY <3>1, <4>2
      <3>3. Len(e.text) + 1 \in 1 .. Len(d.text) /\ d.text[Len(e.text) + 1] = 2 * n - 1
        <4>1. Len(e.text) + 1 \in 1 .. Len(d.text)
          BY <1>1
        <4> QED BY <1>1, <3>2, <4>1
      <3> QED BY <3>2, <3>3 DEF FirstHalfAt
    <2>5. d.due \subseteq Nat
      BY <2>1, <2>4 DEF DueTrue
    <2>6. Len(d.text) < d.offset => \A n \in d.due : \E i \in Nat : FirstHalfAt(d, n, i)
      BY <1>1, <2>1, <2>2, <2>4 DEF DueTrue, SamePlace
    <2>7. e.stale \/ e.offset <= Len(e.text)
      BY <2>1 DEF PlaceTrue
    <2>8. ASSUME ~d.blind, d.pc # "dead", NEW n \in d.due \ Taken(d)
          PROVE  \E i \in Nat : /\ FirstHalfAt(d, n, i)
                                /\ Unread(d, i) \/ (i = d.offset /\ d.partial # <<>>)
      <3>1. CASE n \notin e.due
        <4>1. Unread(d, Len(e.text) + 1)
          BY <1>1, <2>7, <2>8 DEF Unread, SamePlace
        <4>2. FirstHalfAt(d, n, Len(e.text) + 1)
          BY <2>4, <2>8, <3>1
        <4>3. Len(e.text) + 1 \in Nat
          BY <1>1
        <4> QED BY <4>1, <4>2, <4>3
      <3>2. CASE n \in e.due
        <4>1. PICK i \in Nat : /\ FirstHalfAt(e, n, i)
                               /\ Unread(e, i) \/ (i = e.offset /\ e.partial # <<>>)
          BY <2>1, <2>8, <3>2 DEF DueTrue, SamePlace
        <4>2. FirstHalfAt(d, n, i) /\ i <= Len(e.text)
          BY <1>1, <2>2, <4>1 DEF FirstHalfAt
        <4>3. Unread(e, i) => Unread(d, i)
          BY <1>1, <2>7, <2>8, <4>2 DEF Unread, SamePlace
        <4> QED BY <4>1, <4>2, <4>3 DEF SamePlace
      <3> QED BY <3>1, <3>2
    <2> QED BY <2>5, <2>6, <2>8 DEF DueTrue
  <1> QED BY <1>2, <1>3, <1>4, <1>5 DEF FileTrue

(* The log is rotated: nothing of what it was is waited for any more. *)
LEMMA FileRotated ==
    ASSUME NEW e, NEW d, Typed(e), FileTrue(e), d.text = <<>>, d.written = e.written,
           d.positioned = e.positioned, d.offset = e.offset, d.partial = e.partial,
           d.stale <=> e.offset > 0, SameLines(d, e), d.pc = e.pc, d.due = {}
    PROVE  FileTrue(d)
  <1>1. e.offset \in Nat /\ Len(d.text) = 0 /\ e.written \in Nat
    BY DEF Typed
  <1>2. TextTrue(d)
    BY <1>1 DEF TextTrue
  <1>3. PlaceTrue(d)
    BY <1>1 DEF FileTrue, PlaceTrue, SameLines
  <1>4. Taken(d) = Taken(e)
    BY DEF Taken, SameLines
  <1>5. TakenTrue(d)
    BY <1>1, <1>4 DEF FileTrue, TakenTrue, SameLines
  <1>6. DueTrue(d)
    BY <1>1 DEF DueTrue
  <1> QED BY <1>2, <1>3, <1>5, <1>6 DEF FileTrue

(* The follower goes to a place of the file: it is not there; it is there for   *)
(* the first time, and what it holds is not read; or it has shrunk, and all of  *)
(* it is new.                                                                   *)
LEMMA FilePlaced ==
    ASSUME NEW e, NEW d, Typed(e), FileTrue(e), SameFile(d, e), SameLines(d, e),
           d.partial = <<>>, ~d.stale, e.pc = "look", d.pc \in {"look", "read"},
           \/ ~d.positioned /\ d.offset = 0 /\ d.due = {} /\ d.pc = "look"
           \/ ~e.positioned /\ d.positioned /\ d.offset = Len(e.text) /\ d.due = e.due
           \/ /\ e.positioned /\ d.positioned /\ d.offset = 0
              /\ Len(e.text) < e.offset /\ d.due = e.due
    PROVE  FileTrue(d)
  <1>1. e.offset \in Nat /\ Len(e.text) \in Nat /\ e.written \in Nat
    BY DEF Typed
  <1>2. TextTrue(d)
    BY <1>1 DEF FileTrue, TextTrue, SameFile
  <1>3. PlaceTrue(d)
    BY <1>1 DEF FileTrue, PlaceTrue, SameLines, SameFile
  <1>4. Taken(d) = Taken(e)
    BY DEF Taken, SameLines
  <1>5. TakenTrue(d)
    <2>1. TakenTrue(e)
      BY DEF FileTrue
    <2>2. ASSUME NEW k \in Taken(d), d.positioned, NEW i \in 1 .. Len(d.text), Unread(d, i)
          PROVE  2 * k < d.text[i]
      <3>1. Len(e.text) < e.offset /\ e.positioned
        BY <1>1, <2>2 DEF Unread, SameFile
      <3>2. Unread(e, i)
        BY <3>1 DEF Unread
      <3> QED BY <1>4, <2>1, <2>2, <3>1, <3>2 DEF TakenTrue, SameFile
    <2>3. \A k \in Taken(d) : 2 * k <= d.written
      BY <1>4, <2>1 DEF TakenTrue, SameFile
    <2> QED BY <2>1, <2>2, <2>3 DEF TakenTrue, SameLines
  <1>6. DueTrue(d)
    <2>1. DueTrue(e) /\ PlaceTrue(e)
      BY DEF FileTrue
    <2>2. CASE d.due = {}
      BY <2>2 DEF DueTrue
    <2>3. CASE d.due # {}
      <3>1. d.offset = 0 /\ Len(e.text) < e.offset /\ d.due = e.due
        BY <2>1, <2>3 DEF PlaceTrue
      <3>2. ASSUME NEW n \in d.due
            PROVE  \E i \in Nat : FirstHalfAt(d, n, i) /\ Unread(d, i)
        <4>1. PICK i \in Nat : FirstHalfAt(e, n, i)
          BY <2>1, <3>1 DEF DueTrue
        <4>2. FirstHalfAt(d, n, i) /\ d.offset < i
          BY <1>1, <3>1, <4>1 DEF FirstHalfAt, SameFile
        <4> QED BY <4>2 DEF Unread
      <3> QED BY <2>1, <3>1, <3>2 DEF DueTrue
    <2> QED BY <2>2, <2>3
  <1> QED BY <1>2, <1>3, <1>5, <1>6 DEF FileTrue

(* The file has not shrunk: the follower reads on, or waits; it does not know   *)
(* whether it is another file that has grown.                                   *)
LEMMA FileKept ==
    ASSUME NEW e, NEW d, Typed(e), FileTrue(e), SameFile(d, e), SameLines(d, e),
           d.positioned = e.positioned, d.offset = e.offset, d.partial = e.partial,
           d.stale = e.stale, d.blind <=> e.blind \/ e.stale, d.due = e.due,
           e.pc = "look", e.positioned, e.offset <= Len(e.text), d.pc \in {"look", "read"}
    PROVE  FileTrue(d)
  <1>1. e.offset \in Nat /\ Len(e.text) \in Nat /\ e.written \in Nat
    BY DEF Typed
  <1>2. TextTrue(d)
    BY <1>1 DEF FileTrue, TextTrue, SameFile
  <1>3. PlaceTrue(d)
    BY <1>1 DEF FileTrue, PlaceTrue, SameLines, SameFile
  <1>4. Taken(d) = Taken(e)
    BY DEF Taken, SameLines
  <1>5. \A i : Unread(d, i) => Unread(e, i)
    BY <1>1 DEF Unread, SameFile
  <1>6. TakenTrue(d)
    BY <1>4, <1>5 DEF FileTrue, TakenTrue, SameFile, SameLines
  <1>7. DueTrue(d)
    <2>1. DueTrue(e)
      BY DEF FileTrue
    <2>2. ASSUME ~d.blind, NEW i, Unread(e, i) PROVE Unread(d, i)
      BY <1>1, <2>2 DEF Unread, SameFile
    <2>3. \A n, i : FirstHalfAt(d, n, i) <=> FirstHalfAt(e, n, i)
      BY DEF FirstHalfAt, SameFile
    <2> QED BY <1>1, <1>4, <2>1, <2>2, <2>3 DEF DueTrue, SameFile
  <1> QED BY <1>2, <1>3, <1>6, <1>7 DEF FileTrue

(* What one read finds: what was kept, then what is new.                        *)
Found(e) == e.partial \o SubSeq(e.text, e.offset + 1, Len(e.text))

(* What a read finds behind the offset: the rest of the file, in its order.     *)
LEMMA WhatIsNew ==
    ASSUME NEW text \in Seq(Halves), NEW o \in Nat, o < Len(text)
    PROVE  /\ SubSeq(text, o + 1, Len(text)) \in Seq(Halves)
           /\ Len(SubSeq(text, o + 1, Len(text))) = Len(text) - o
           /\ \A i \in 1 .. Len(text) - o : SubSeq(text, o + 1, Len(text))[i] = text[o + i]
  <1>1. \A i \in o + 1 .. Len(text) : text[i] \in Halves
    BY ElementOfSeq
  <1>2. PICK m \in Int, z \in Int : m = o + 1 /\ z = Len(text) /\ o < z
    OBVIOUS
  <1>3. PICK new : new = SubSeq(text, m, z)
    OBVIOUS
  <1>4. /\ new \in Seq(Halves) /\ Len(new) = IF m <= z THEN z - m + 1 ELSE 0
        /\ \A i \in 1 .. z - m + 1 : new[i] = text[m + i - 1]
    BY <1>1, <1>2, <1>3, SubSeqProperties
  <1>5. m <= z /\ z - m + 1 = z - o /\ \A i \in Nat : m + i - 1 = o + i
    BY <1>2
  <1>6. ASSUME NEW i \in 1 .. z - o PROVE new[i] = text[o + i]
    <2>1. i \in 1 .. z - m + 1 /\ m + i - 1 = o + i
      BY <1>2, <1>5
    <2> QED BY <1>4, <2>1
  <1>7. Len(new) = z - o
    BY <1>4, <1>5
  <1> QED BY <1>2, <1>3, <1>4, <1>6, <1>7

(* What a read has at hand: what was kept of the last one, then what is new.    *)
LEMMA FoundParts ==
    ASSUME NEW e, Typed(e), e.offset < Len(e.text)
    PROVE  /\ Found(e) \in Seq(Halves)
           /\ Len(Found(e)) = Len(e.partial) + Len(e.text) - e.offset
           /\ \A j \in 1 .. Len(e.partial) : Found(e)[j] = e.partial[j]
           /\ \A i \in e.offset + 1 .. Len(e.text) :
                 Found(e)[Len(e.partial) + i - e.offset] = e.text[i]
  <1>1. PICK p \in Nat, o \in Nat, z \in Nat, f \in {Found(e)} :
            /\ p = Len(e.partial) /\ o = e.offset
            /\ z = Len(e.text) /\ f = Found(e) /\ o < z
    BY DEF Typed
  <1>2. PICK new : new = SubSeq(e.text, o + 1, z)
    OBVIOUS
  <1>3. new \in Seq(Halves) /\ Len(new) = z - o /\ \A i \in 1 .. z - o : new[i] = e.text[o + i]
    <2>1. PICK s \in Seq(Halves) : s = e.text
      BY DEF Typed
    <2>2. z = Len(s) /\ new = SubSeq(s, o + 1, z)
      BY <1>1, <1>2, <2>1
    <2>3. /\ new \in Seq(Halves) /\ Len(new) = z - o
          /\ \A i \in 1 .. z - o : new[i] = s[o + i]
      <3>1. o \in Nat /\ o < Len(s) /\ new = SubSeq(s, o + 1, Len(s))
        BY <1>1, <2>2
      <3> QED BY <2>2, <3>1, WhatIsNew
    <2> QED BY <2>1, <2>3
  <1>4. PICK q \in Seq(Halves) : q = e.partial
    BY DEF Typed
  <1>5. /\ f \in Seq(Halves) /\ Len(f) = Len(q) + Len(new)
        /\ \A i \in 1 .. Len(q) + Len(new) : f[i] =
              IF i <= Len(q) THEN q[i] ELSE new[i - Len(q)]
    <2>1. f = q \o new /\ q \in Seq(Halves) /\ new \in Seq(Halves)
      BY <1>1, <1>2, <1>3, <1>4 DEF Found
    <2>2. /\ q \o new \in Seq(Halves) /\ Len(q \o new) = Len(q) + Len(new)
          /\ \A i \in 1 .. Len(q) + Len(new) : (q \o new)[i] =
                IF i <= Len(q) THEN q[i] ELSE new[i - Len(q)]
      BY ONLY <2>1, ConcatProperties
    <2> QED BY ONLY <2>1, <2>2
  <1>6. Len(f) = p + (z - o) /\ \A i \in 1 .. p + (z - o) : f[i] =
              IF i <= p THEN e.partial[i] ELSE new[i - p]
    BY <1>1, <1>3, <1>4, <1>5
  <1>7. ASSUME NEW i \in o + 1 .. z PROVE f[p + i - o] = e.text[i]
    <2>1. p \in Nat /\ o \in Nat /\ z \in Nat /\ i \in o + 1 .. z
      OBVIOUS
    <2>2. PICK k \in Nat, j \in Nat : k = p + i - o /\ j = i - o
      BY ONLY <2>1
    <2>3. k \in 1 .. p + (z - o) /\ ~(k <= p) /\ k - p = j /\ j \in 1 .. z - o /\ o + j = i
      BY ONLY <2>1, <2>2
    <2>4. f[k] = new[j]
      BY <1>6, <2>3
    <2>5. new[j] = e.text[i]
      BY <1>3, <2>3
    <2> QED BY <2>2, <2>4, <2>5
  <1>8. ASSUME NEW j \in 1 .. p PROVE f[j] = e.partial[j]
    <2>1. p \in Nat /\ o \in Nat /\ z \in Nat /\ o < z /\ j \in 1 .. p
      BY <1>1
    <2>2. j \in 1 .. p + (z - o) /\ j <= p
      BY ONLY <2>1
    <2> QED BY <1>6, <2>2
  <1> QED BY <1>1, <1>5, <1>6, <1>7, <1>8

(* What is kept of s are the halves after its last newline.                     *)
LEMMA RestParts ==
    ASSUME NEW s \in Seq(Halves), NEW last, last = SelectLastInSeq(s, SecondHalf)
    PROVE  /\ last \in 0 .. Len(s) /\ RestOf(s) \in Seq(Halves)
           /\ Len(RestOf(s)) = Len(s) - last
           /\ \A j \in 1 .. Len(s) - last : RestOf(s)[j] = s[last + j]
           /\ \A i \in 1 .. Len(s) : SecondHalf(s[i]) => i <= last
           /\ \A i \in 1 .. Len(s) : i = last => SecondHalf(s[i])
  <1>1. /\ last \in 0 .. Len(s) /\ \A i \in 1 .. Len(s) : SecondHalf(s[i]) => i <= last
        /\ \A i \in 1 .. Len(s) : i = last => SecondHalf(s[i])
    BY LastSecondHalf
  <1>2. Len(s) \in Nat /\ \A i \in last + 1 .. Len(s) : s[i] \in Halves
    BY <1>1, ElementOfSeq
  <1>3. PICK m \in Int, n \in Int : m = last + 1 /\ n = Len(s)
    BY <1>1, <1>2
  <1>4. RestOf(s) = SubSeq(s, m, n)
    BY <1>3 DEF RestOf
  <1>5. /\ SubSeq(s, m, n) \in Seq(Halves)
        /\ Len(SubSeq(s, m, n)) = IF m <= n THEN n - m + 1 ELSE 0
        /\ \A i \in 1 .. n - m + 1 : SubSeq(s, m, n)[i] = s[m + i - 1]
    BY <1>2, <1>3, SubSeqProperties
  <1>6. Len(RestOf(s)) = Len(s) - last
    BY <1>1, <1>2, <1>3, <1>4, <1>5
  <1>7. ASSUME NEW j \in 1 .. Len(s) - last PROVE RestOf(s)[j] = s[last + j]
    <2>1. j \in 1 .. n - m + 1 /\ m + j - 1 = last + j
      BY <1>1, <1>2, <1>3
    <2> QED BY <1>4, <1>5, <2>1
  <1> QED BY <1>1, <1>4, <1>5, <1>6, <1>7

(* A second half has an even number, twice that of its line.                    *)
LEMMA Parities ==
    /\ \A h \in Nat : SecondHalf(h) => h \div 2 \in Nat /\ h = 2 * (h \div 2)
    /\ \A n \in Nat : SecondHalf(2 * n) /\ (2 * n) \div 2 = n
    /\ \A n \in Nat : n > 0 => ~SecondHalf(2 * n - 1) /\ SecondHalf(2 * n - 2)
    /\ \A h \in Nat : SecondHalf(h) \/ SecondHalf(h + 1)
  BY DEF SecondHalf

(* A read of a file that has not grown finds what was kept of it.               *)
LEMMA NothingNew ==
    ASSUME NEW e, Typed(e), FileTrue(e), Len(e.text) <= e.offset
    PROVE  RestOf(Found(e)) = e.partial /\ LinesIn(Found(e)) = {}
  <1>1. PICK q \in Seq(Halves) : q = e.partial
    BY DEF Typed
  <1>2. \A i \in 1 .. Len(q) : ~SecondHalf(q[i])
    BY <1>1 DEF FileTrue, PlaceTrue
  <1>3. Found(e) = q
    <2>1. Len(e.text) \in Nat /\ e.offset \in Nat
      BY DEF Typed
    <2>2. SubSeq(e.text, e.offset + 1, Len(e.text)) = <<>>
      BY <2>1, SubSeqEmpty
    <2> QED BY <1>1, <2>2, ConcatEmptySeq DEF Found
  <1>4. PICK last : last = SelectLastInSeq(q, SecondHalf)
    OBVIOUS
  <1>5. /\ last \in 0 .. Len(q) /\ RestOf(q) \in Seq(Halves)
        /\ Len(RestOf(q)) = Len(q) - last
        /\ \A j \in 1 .. Len(q) - last : RestOf(q)[j] = q[last + j]
        /\ \A i \in 1 .. Len(q) : i = last => SecondHalf(q[i])
    BY <1>4, RestParts
  <1>6. Len(q) \in Nat
    OBVIOUS
  <1>7. last = 0
    BY <1>2, <1>5, <1>6
  <1>8. RestOf(q) = q
    <2>1. Len(RestOf(q)) = Len(q) /\ \A j \in 1 .. Len(q) : RestOf(q)[j] = q[j]
      BY <1>5, <1>6, <1>7
    <2> QED BY <1>5, <2>1, SeqEqual
  <1>9. LinesIn(q) = {}
    BY <1>2, <1>6 DEF LinesIn
  <1> QED BY <1>1, <1>3, <1>8, <1>9

(* A newline that a read finds is new, and the lines it finds end with it.      *)
LEMMA NewLines ==
    ASSUME NEW e, Typed(e), FileTrue(e), e.offset < Len(e.text)
    PROVE  /\ \A j \in 1 .. Len(Found(e)) : SecondHalf(Found(e)[j]) =>
                  \E i \in e.offset + 1 .. Len(e.text) :
                      j = Len(e.partial) + i - e.offset /\ Found(e)[j] = e.text[i]
           /\ \A n \in LinesIn(Found(e)) : n \in Nat /\ \E j \in 1 .. Len(Found(e)) :
                  Found(e)[j] = 2 * n /\ SecondHalf(Found(e)[j])
  <1>1. PICK p \in Nat, o \in Nat, z \in Nat, f \in {Found(e)} :
            p = Len(e.partial) /\ o = e.offset /\ z = Len(e.text) /\ f = Found(e)
    BY DEF Typed
  <1>2. /\ f \in Seq(Halves) /\ Len(f) = p + z - o
        /\ \A j \in 1 .. p : f[j] = e.partial[j]
        /\ \A i \in o + 1 .. z : f[p + i - o] = e.text[i]
    BY <1>1, FoundParts
  <1>3. ASSUME NEW j \in 1 .. Len(f), SecondHalf(f[j])
        PROVE  \E i \in o + 1 .. z : j = p + i - o /\ f[j] = e.text[i]
    <2>1. ~(j \in 1 .. p)
      BY <1>1, <1>2, <1>3 DEF FileTrue, PlaceTrue
    <2>2. j \in 1 .. p + z - o
      BY <1>2
    <2>3. p \in Nat /\ o \in Nat /\ z \in Nat
      OBVIOUS
    <2>4. PICK i \in o + 1 .. z : j = p + i - o
      BY ONLY <2>1, <2>2, <2>3
    <2> QED BY <1>2, <2>4
  <1>4. ASSUME NEW n \in LinesIn(f)
        PROVE  n \in Nat /\ \E j \in 1 .. Len(f) : f[j] = 2 * n /\ SecondHalf(f[j])
    <2>1. PICK k \in 2 .. Len(f) : SecondHalf(f[k]) /\ n = f[k] \div 2
      BY DEF LinesIn
    <2>2. Len(f) \in Nat
      BY <1>2
    <2>3. k \in 1 .. Len(f)
      BY <2>2
    <2>4. f[k] \in Halves
      BY <1>2, <2>3, ElementOfSeq
    <2>5. f[k] \in Nat
      BY <2>4 DEF Halves
    <2>6. n \in Nat /\ f[k] = 2 * n
      BY <2>1, <2>5, Parities
    <2> QED BY <2>1, <2>3, <2>6
  <1> QED BY <1>1, <1>3, <1>4

(* What a read finds of the file that is followed are the halves written last.  *)
LEMMA FoundRuns ==
    ASSUME NEW e, Typed(e), FileTrue(e), e.offset < Len(e.text), ~e.stale
    PROVE  \A j \in 1 .. Len(Found(e)) : Found(e)[j] = e.written - Len(Found(e)) + j
  <1>1. PICK p \in Nat, o \in Nat, z \in Nat, w \in Nat, f \in {Found(e)} :
            p = Len(e.partial) /\ o = e.offset /\ z = Len(e.text) /\ w = e.written /\ f = Found(e)
    BY DEF Typed
  <1>2. /\ Len(f) = p + z - o /\ \A j \in 1 .. p : f[j] = e.partial[j]
        /\ \A i \in o + 1 .. z : f[p + i - o] = e.text[i]
    BY <1>1, FoundParts
  <1>3. \A i \in 1 .. z : e.text[i] = w - z + i
    BY <1>1 DEF FileTrue, TextTrue
  <1>4. o < z
    BY <1>1
  <1>5. p = 0 \/ (p = 1 /\ o # 0 /\ e.partial[1] = e.text[o])
    <2>1. CASE e.partial = <<>>
      BY <1>1, <2>1
    <2>2. CASE e.partial # <<>>
      <3>1. e.partial = <<e.text[o]>> /\ o # 0
        BY <1>1, <2>2 DEF FileTrue, PlaceTrue
      <3> QED BY <1>1, <3>1
    <2> QED BY <2>1, <2>2
  <1>6. ASSUME NEW j \in 1 .. p + z - o PROVE f[j] = w - (p + z - o) + j
    <2>1. p \in Nat /\ o \in Nat /\ z \in Nat /\ w \in Nat /\ j \in 1 .. p + z - o
      OBVIOUS
    <2>2. CASE j \in 1 .. p
      <3>1. p = 1 /\ j = 1 /\ o # 0 /\ f[j] = e.text[o]
        BY <1>2, <1>5, <2>2
      <3>2. o \in 1 .. z
        BY ONLY <1>4, <2>1, <3>1
      <3>3. f[j] = w - z + o
        BY <1>3, <3>1, <3>2
      <3> QED BY ONLY <2>1, <3>1, <3>3
    <2>3. CASE ~(j \in 1 .. p)
      <3>1. PICK i \in o + 1 .. z : j = p + i - o
        BY ONLY <2>1, <2>3
      <3>2. i \in 1 .. z
        BY ONLY <2>1, <3>1
      <3>3. f[j] = w - z + i
        BY <1>2, <1>3, <3>1, <3>2
      <3> QED BY ONLY <2>1, <3>1, <3>2, <3>3
    <2> QED BY <2>2, <2>3
  <1> QED BY <1>1, <1>2, <1>6

(* The follower reads what is new.                                              *)
LEMMA FileGrown ==
    ASSUME NEW e, NEW d, Typed(e), FileTrue(e), SameFile(d, e), d.handled = e.handled,
           e.pc = "read", e.offset < Len(e.text), d.offset = Len(e.text),
           d.partial = RestOf(Found(e)), d.todo = LinesIn(Found(e)),
           d.positioned = e.positioned, d.stale = e.stale, d.blind <=> e.blind \/ e.stale,
           d.due = e.due, d.pc = IF d.todo = {} THEN "look" ELSE "lines"
    PROVE  FileTrue(d)
  <1>1. PICK p \in Nat, o \in Nat, z \in Nat, w \in Nat, f \in {Found(e)} :
            p = Len(e.partial) /\ o = e.offset /\ z = Len(e.text) /\ w = e.written /\ f = Found(e)
    BY DEF Typed
  <1>2. /\ f \in Seq(Halves) /\ Len(f) = p + z - o
        /\ \A j \in 1 .. p : f[j] = e.partial[j]
        /\ \A i \in o + 1 .. z : f[p + i - o] = e.text[i]
    BY <1>1, FoundParts
  <1>3. PICK last : last = SelectLastInSeq(f, SecondHalf)
    OBVIOUS
  <1>4. /\ last \in 0 .. Len(f) /\ RestOf(f) \in Seq(Halves)
        /\ Len(RestOf(f)) = Len(f) - last
        /\ \A j \in 1 .. Len(f) - last : RestOf(f)[j] = f[last + j]
        /\ \A i \in 1 .. Len(f) : SecondHalf(f[i]) => i <= last
        /\ \A i \in 1 .. Len(f) : i = last => SecondHalf(f[i])
    <2>1. f \in Seq(Halves)
      BY <1>2
    <2> QED BY ONLY <1>3, <2>1, RestParts
  <1>5. PICK rest : rest = RestOf(f) /\ d.partial = rest /\ rest \in Seq(Halves)
    BY <1>1, <1>4
  <1>6. \A i \in 1 .. z : e.text[i] = w - z + i
    BY <1>1 DEF FileTrue, TextTrue
  <1>7. /\ z > 0 /\ o < z /\ d.text = e.text /\ d.written = w /\ d.offset = z
        /\ d.todo = LinesIn(f) /\ e.todo = {} /\ e.positioned /\ d.positioned
    BY <1>1 DEF SameFile, FileTrue, PlaceTrue
  <1>8. \A i \in 1 .. z : ~d.blind => ~Unread(d, i)
    BY <1>1, <1>7 DEF Unread
  <1>9. Len(f) \in Nat /\ last \in Nat /\ last <= Len(f) /\ Len(rest) = Len(f) - last
    BY <1>2, <1>4, <1>5
  <1>10. ASSUME NEW j \in 1 .. Len(rest)
         PROVE  last + j \in 1 .. Len(f) /\ rest[j] = f[last + j] /\ ~SecondHalf(f[last + j])
    <2>1. j \in 1 .. Len(f) - last
      BY <1>9
    <2>2. last + j \in 1 .. Len(f) /\ ~(last + j <= last)
      BY <1>9, <2>1
    <2> QED BY <1>4, <1>5, <2>1, <2>2
  <1>11. TextTrue(d)
    BY <1>1 DEF FileTrue, TextTrue, SameFile
  <1>12. PlaceTrue(d)
    <2>1. ~d.stale => rest = <<>> \/ rest = <<e.text[z]>>
      <3> SUFFICES ASSUME ~e.stale PROVE rest = <<>> \/ rest = <<e.text[z]>>
        OBVIOUS
      <3>1. \A j \in 1 .. Len(f) : f[j] = w - Len(f) + j
        BY <1>1, FoundRuns
      <3>2. Len(rest) <= 1
        <4> SUFFICES ASSUME Len(rest) > 1 PROVE FALSE
          BY <1>9
        <4>1. 1 \in 1 .. Len(rest) /\ 2 \in 1 .. Len(rest)
          BY <1>9
        <4>2. /\ last + 1 \in 1 .. Len(f) /\ ~SecondHalf(f[last + 1])
              /\ last + 2 \in 1 .. Len(f) /\ ~SecondHalf(f[last + 2])
          BY <1>10, <4>1
        <4>3. f[last + 1] = w - Len(f) + (last + 1) /\ f[last + 2] = w - Len(f) + (last + 2)
          BY <3>1, <4>2
        <4>4. f[last + 1] \in Nat
          <5>1. PICK k \in 1 .. Len(f) : k = last + 1
            BY <4>2
          <5>2. f[k] \in Halves
            BY <1>2, ElementOfSeq
          <5> QED BY <5>1, <5>2 DEF Halves
        <4>5. f[last + 2] = f[last + 1] + 1
          BY <1>9, <4>3
        <4> QED BY <4>2, <4>4, <4>5, Parities
      <3>3. CASE Len(rest) = 0
        BY <1>5, <3>3, EmptySeq
      <3>4. CASE Len(rest) = 1
        <4>1. last + 1 = Len(f) /\ 1 \in 1 .. Len(rest)
          <5>1. PICK k \in Nat, m \in Nat : k = Len(f) /\ m = Len(rest)
            BY <1>9
          <5>2. m = k - last /\ m = 1 /\ last \in Nat
            BY <1>9, <3>4, <5>1
          <5>3. last + 1 = k /\ 1 \in 1 .. m
            BY ONLY <5>2
          <5> QED BY <5>1, <5>3
        <4>2. z \in o + 1 .. z /\ p + z - o = Len(f)
          BY <1>2, <1>7
        <4>3. rest[1] = e.text[z]
          <5>1. rest[1] = f[last + 1]
            BY <1>10, <4>1
          <5>2. f[p + z - o] = e.text[z]
            BY <1>2, <4>2
          <5> QED BY <4>1, <4>2, <5>1, <5>2
        <4> QED BY <1>5, <3>4, <4>3
      <3> QED BY <1>9, <3>2, <3>3, <3>4
    <2>2. \A j \in 1 .. Len(d.partial) : ~SecondHalf(d.partial[j])
      BY <1>5, <1>10
    <2> QED BY <1>1, <1>5, <1>7, <2>1, <2>2 DEF PlaceTrue
  <1>13. TakenTrue(d)
    <2>1. TakenTrue(e) /\ Taken(e) = ToSet(e.handled)
      BY <1>7 DEF FileTrue, Taken
    <2>2. /\ \A j \in 1 .. Len(f) : SecondHalf(f[j]) =>
                  \E i \in o + 1 .. z : j = p + i - o /\ f[j] = e.text[i]
          /\ \A n \in LinesIn(f) : n \in Nat /\ \E j \in 1 .. Len(f) :
                  f[j] = 2 * n /\ SecondHalf(f[j])
      <3>1. /\ \A j \in 1 .. Len(Found(e)) : SecondHalf(Found(e)[j]) =>
                   \E i \in e.offset + 1 .. Len(e.text) :
                       j = Len(e.partial) + i - e.offset /\ Found(e)[j] = e.text[i]
            /\ \A n \in LinesIn(Found(e)) : n \in Nat /\ \E j \in 1 .. Len(Found(e)) :
                   Found(e)[j] = 2 * n /\ SecondHalf(Found(e)[j])
        BY NewLines
      <3> QED BY ONLY <1>1, <3>1
    <2>3. ASSUME NEW i \in o + 1 .. z PROVE i \in 1 .. z /\ Unread(e, i)
      BY <1>1, <1>7 DEF Unread
    <2>4. ASSUME NEW n \in LinesIn(f)
          PROVE  \E i \in o + 1 .. z : n \in Nat /\ e.text[i] = 2 * n /\ p + i - o <= last
      <3>1. PICK j \in 1 .. Len(f) : f[j] = 2 * n /\ SecondHalf(f[j])
        BY <2>2, <2>4
      <3>2. PICK i \in o + 1 .. z : j = p + i - o /\ f[j] = e.text[i]
        BY <2>2, <3>1
      <3>3. j <= last
        BY <1>4, <3>1
      <3> QED BY <2>2, <2>4, <3>1, <3>2, <3>3
    <2>5. ASSUME NEW k \in ToSet(e.handled), NEW n \in LinesIn(f) PROVE k < n
      <3>1. PICK i \in o + 1 .. z : n \in Nat /\ e.text[i] = 2 * n
        BY <2>4
      <3>2. 2 * k < e.text[i]
        BY <1>1, <1>7, <2>1, <2>3 DEF TakenTrue
      <3>3. k \in Nat
        BY <2>1 DEF TakenTrue, ToSet, Lines
      <3> QED BY <3>1, <3>2, <3>3
    <2>6. ASSUME NEW k \in ToSet(e.handled) \cup LinesIn(f) PROVE 2 * k <= w
      <3>1. CASE k \in LinesIn(f)
        <4>1. PICK i \in o + 1 .. z : k \in Nat /\ e.text[i] = 2 * k
          BY <2>4, <3>1
        <4>2. e.text[i] = w - z + i /\ i <= z
          BY <1>6, <2>3
        <4> QED BY <4>1, <4>2
      <3>2. CASE k \in ToSet(e.handled)
        BY <1>1, <2>1, <3>2 DEF TakenTrue
      <3> QED BY <3>1, <3>2
    <2>7. ASSUME NEW k \in ToSet(e.handled) \cup LinesIn(f), NEW j \in 1 .. Len(rest)
          PROVE  2 * k < rest[j]
      <3>1. PICK l \in 1 .. Len(f) : l = last + j /\ rest[j] = f[l]
        BY <1>10
      <3>2. CASE k \in ToSet(e.handled)
        <4>1. CASE l \in 1 .. p
          BY <1>1, <1>2, <1>7, <2>1, <3>1, <3>2, <4>1 DEF TakenTrue
        <4>2. CASE ~(l \in 1 .. p)
          <5>1. p \in Nat /\ o \in Nat /\ z \in Nat /\ l \in 1 .. p + z - o /\ ~(l \in 1 .. p)
            BY <1>2, <4>2
          <5>2. PICK i \in o + 1 .. z : l = p + i - o
            BY ONLY <5>1
          <5>3. 2 * k < e.text[i]
            BY <1>1, <1>7, <2>1, <2>3, <3>2 DEF TakenTrue
          <5> QED BY <1>2, <3>1, <5>2, <5>3
        <4> QED BY <4>1, <4>2
      <3>3. CASE k \in LinesIn(f)
        <4>1. PICK i \in o + 1 .. z : k \in Nat /\ e.text[i] = 2 * k /\ p + i - o <= last
          BY <2>4, <3>3
        <4>2. /\ p \in Nat /\ o \in Nat /\ z \in Nat /\ l \in 1 .. p + z - o /\ last \in Nat
              /\ j \in 1 .. Len(rest) /\ Len(rest) \in Nat /\ i \in o + 1 .. z
              /\ l = last + j /\ p + i - o <= last
          BY <1>2, <1>9, <3>1, <4>1
        <4>3. PICK i2 \in o + 1 .. z : l = p + i2 - o /\ i < i2
          BY ONLY <4>2
        <4>4. e.text[i] = w - z + i /\ e.text[i2] = w - z + i2 /\ rest[j] = e.text[i2]
          BY <1>2, <1>6, <2>3, <3>1, <4>3
        <4> QED BY <4>1, <4>3, <4>4
      <3> QED BY <3>2, <3>3
    <2>8. Taken(d) = ToSet(e.handled) \cup LinesIn(f)
      BY <1>7 DEF Taken
    <2>9. ASSUME NEW i \in 1 .. z PROVE ~Unread(d, i)
      BY <1>1, <1>7 DEF Unread
    <2>10. /\ d.handled \in Seq(Lines)
           /\ \A i, j \in DOMAIN d.handled : i < j => d.handled[i] < d.handled[j]
      BY <2>1 DEF TakenTrue
    <2> QED BY <1>1, <1>5, <1>7, <2>5, <2>6, <2>7, <2>8, <2>9, <2>10 DEF TakenTrue
  <1>14. DueTrue(d)
    <2>1. DueTrue(e) /\ PlaceTrue(e)
      BY DEF FileTrue
    <2>2. ASSUME ~d.blind, NEW n \in d.due \ Taken(d)
          PROVE  \E i \in Nat : FirstHalfAt(d, n, i) /\ i = d.offset /\ d.partial # <<>>
      <3>1. ~e.stale /\ ~e.blind /\ e.pc # "dead" /\ n \in e.due \ Taken(e) /\ n \notin LinesIn(f)
        BY <1>7, <2>2 DEF Taken
      <3>2. PICK i \in Nat : /\ FirstHalfAt(e, n, i)
                             /\ Unread(e, i) \/ (i = o /\ e.partial # <<>>)
        BY <1>1, <2>1, <3>1 DEF DueTrue
      <3>3. i \in 1 .. z /\ e.text[i] = 2 * n - 1 /\ n \in Nat
        BY <1>1, <2>1, <3>1, <3>2 DEF FirstHalfAt, DueTrue
      <3>4. i > o \/ (i = o /\ e.partial = <<e.text[o]>>)
        BY <1>1, <1>7, <2>1, <3>1, <3>2, <3>3 DEF Unread, PlaceTrue
      <3>5. PICK j \in 1 .. Len(f) : j = p + i - o /\ f[j] = 2 * n - 1
        <4>1. CASE i > o
          <5>1. i \in o + 1 .. z /\ p + i - o \in 1 .. p + z - o
            BY <3>3, <4>1
          <5> QED BY <1>2, <3>3, <5>1
        <4>2. CASE i = o /\ e.partial = <<e.text[o]>>
          <5>1. p = 1 /\ e.partial[1] = 2 * n - 1
            BY <1>1, <3>3, <4>2
          <5>2. 1 \in 1 .. p /\ 1 \in 1 .. Len(f) /\ 1 = p + i - o
            BY <1>2, <1>7, <4>2, <5>1
          <5> QED BY <1>2, <5>1, <5>2
        <4> QED BY <3>4, <4>1, <4>2
      <3>6. PICK c \in Int : \A k \in 1 .. Len(f) : f[k] = c + k
        <4>1. \A k \in 1 .. Len(f) : f[k] = w - Len(f) + k
          <5>1. \A k \in 1 .. Len(Found(e)) : Found(e)[k] = e.written - Len(Found(e)) + k
            BY <3>1, FoundRuns
          <5>2. Found(e) = f /\ e.written = w
            BY <1>1
          <5> QED BY ONLY <5>1, <5>2
        <4>2. PICK c \in Int : c = w - Len(f)
          <5>1. PICK k \in Nat : k = Len(f)
            BY <1>9
          <5>2. w - k \in Int
            OBVIOUS
          <5> QED BY <5>1, <5>2
        <4>3. ASSUME NEW k \in 1 .. Len(f) PROVE f[k] = c + k
          BY <4>1, <4>2
        <4> QED BY <4>3
      <3>7. n > 0
        <4>1. f[j] \in Halves
          BY <1>2, ElementOfSeq
        <4> QED BY <3>3, <3>5, <4>1 DEF Halves
      <3>8. j = Len(f)
        <4> SUFFICES ASSUME j # Len(f) PROVE FALSE
          OBVIOUS
        <4>1. j + 1 \in 2 .. Len(f) /\ j + 1 \in 1 .. Len(f)
          BY <1>9
        <4>2. f[j + 1] = 2 * n
          <5>1. f[j + 1] = c + (j + 1) /\ f[j] = c + j
            BY <3>6, <4>1
          <5> QED BY <1>9, <3>3, <3>5, <5>1
        <4>3. SecondHalf(f[j + 1]) /\ f[j + 1] \div 2 = n
          BY <3>3, <4>2, Parities
        <4>4. j + 1 > 2 => SecondHalf(f[j + 1 - 2])
          <5> SUFFICES ASSUME j + 1 > 2 PROVE SecondHalf(f[j + 1 - 2])
            OBVIOUS
          <5>1. j - 1 \in 1 .. Len(f) /\ j + 1 - 2 = j - 1
            BY <1>9
          <5>2. f[j - 1] = c + (j - 1) /\ f[j] = c + j
            BY <3>6, <5>1
          <5>3. f[j - 1] = 2 * n - 2
            BY <1>9, <3>3, <3>5, <5>2
          <5> QED BY <3>3, <3>7, <5>1, <5>3, Parities
        <4>5. f[j + 1 - 1] = f[j + 1] - 1
          <5>1. j + 1 - 1 = j
            BY <1>9
          <5> QED BY <3>3, <3>5, <4>2, <5>1
        <4>6. n \in LinesIn(f)
          BY <4>1, <4>3, <4>4, <4>5 DEF LinesIn
        <4> QED BY <3>1, <4>6
      <3>9. i = z
        BY <1>2, <3>3, <3>5, <3>8
      <3>10. d.partial # <<>>
        <4>1. ~SecondHalf(f[j])
          BY <3>3, <3>5, <3>7, Parities
        <4>2. last # Len(f)
          BY <1>4, <3>8, <4>1
        <4>3. Len(rest) # 0
          BY <1>9, <4>2
        <4> QED BY <1>5, <4>3
      <3>11. FirstHalfAt(d, n, i)
        BY <1>1, <3>2, <3>3 DEF FirstHalfAt, SameFile
      <3> QED BY <1>7, <3>9, <3>10, <3>11
    <2>3. ~(Len(d.text) < d.offset)
      BY <1>1, <1>7
    <2> QED BY <2>1, <2>2, <2>3 DEF DueTrue
  <1> QED BY <1>11, <1>12, <1>13, <1>14 DEF FileTrue

(* The follower goes on with what it has, or finds nothing new.                 *)
LEMMA FileSame ==
    ASSUME NEW e, NEW d, FileTrue(e), SameFile(d, e), SamePlace(d, e), SameLines(d, e),
           d.due = e.due, e.pc # "dead",
           d.pc \in {"look", "read", "dead"} => d.todo = {},
           d.pc \notin {"look", "dead"} => d.positioned
    PROVE  FileTrue(d)
  <1>1. TextTrue(d)
    BY DEF FileTrue, TextTrue, SameFile
  <1>2. PlaceTrue(d)
    BY DEF FileTrue, PlaceTrue, SameFile, SamePlace, SameLines
  <1>3. Taken(d) = Taken(e) /\ \A i : Unread(d, i) <=> Unread(e, i)
    BY DEF Taken, Unread, SameFile, SamePlace, SameLines
  <1>4. TakenTrue(d)
    BY <1>3 DEF FileTrue, TakenTrue, SameFile, SamePlace, SameLines
  <1>5. \A n, i : FirstHalfAt(d, n, i) <=> FirstHalfAt(e, n, i)
    BY DEF FirstHalfAt, SameFile
  <1>6. DueTrue(d)
    <2>1. DueTrue(e)
      BY DEF FileTrue
    <2> QED BY <1>3, <1>5, <2>1 DEF DueTrue, SameFile, SamePlace
  <1> QED BY <1>1, <1>2, <1>4, <1>6 DEF FileTrue

(* The first of the lines at hand is done with: it is still taken.              *)
LEMMA FileLineDone ==
    ASSUME NEW e, NEW d, Typed(e), FileTrue(e), SameFile(d, e), SamePlace(d, e),
           d.due = e.due, e.pc \in {"lines", "await"}, d.pc \in {"look", "lines"},
           NEW n \in e.todo, \A k \in e.todo : n <= k,
           d.handled = Append(e.handled, n), d.todo = e.todo \ {n},
           d.pc = "look" => d.todo = {}
    PROVE  FileTrue(d)
  <1>1. TextTrue(d)
    BY DEF FileTrue, TextTrue, SameFile
  <1>2. PlaceTrue(d)
    BY DEF FileTrue, PlaceTrue, SameFile, SamePlace
  <1>3. PICK s \in Seq(Lines) : s = e.handled
    BY DEF FileTrue, TakenTrue
  <1>4. n \in Lines /\ n \in Nat /\ Len(s) \in Nat
    BY DEF Typed, Lines
  <1>5. /\ d.handled = Append(s, n) /\ d.handled \in Seq(Lines)
        /\ Len(d.handled) = Len(s) + 1 /\ d.handled[Len(s) + 1] = n
        /\ \A i \in 1 .. Len(s) : d.handled[i] = s[i]
    BY <1>3, <1>4, AppendProperties
  <1>6. ToSet(d.handled) = ToSet(s) \cup {n}
    <2>1. DOMAIN d.handled = 1 .. Len(s) + 1 /\ DOMAIN s = 1 .. Len(s)
      BY <1>5
    <2>2. \A i : i \in 1 .. Len(s) + 1 <=> i \in 1 .. Len(s) \/ i = Len(s) + 1
      BY <1>4
    <2> QED BY <1>5, <2>1, <2>2 DEF ToSet
  <1>7. Taken(d) = Taken(e)
    BY <1>3, <1>6 DEF Taken
  <1>8. \A i : Unread(d, i) <=> Unread(e, i)
    BY DEF Unread, SameFile, SamePlace
  <1>9. TakenTrue(e)
    BY DEF FileTrue
  <1>10. ASSUME NEW i \in DOMAIN d.handled, NEW j \in DOMAIN d.handled, i < j
         PROVE  d.handled[i] < d.handled[j]
    <2>1. i \in 1 .. Len(s) /\ (j \in 1 .. Len(s) \/ j = Len(s) + 1)
      <3>1. i \in 1 .. Len(s) + 1 /\ j \in 1 .. Len(s) + 1
        BY <1>5
      <3> QED BY <1>4, <1>10, <3>1
    <2>2. CASE j \in 1 .. Len(s)
      BY <1>3, <1>5, <1>9, <1>10, <2>1, <2>2 DEF TakenTrue
    <2>3. CASE j = Len(s) + 1
      <3>1. s[i] \in ToSet(e.handled)
        BY <1>3, <2>1 DEF ToSet
      <3> QED BY <1>5, <1>9, <2>1, <2>3, <3>1 DEF TakenTrue
    <2> QED BY <2>1, <2>2, <2>3
  <1>11. ASSUME NEW k \in ToSet(d.handled), NEW m \in d.todo PROVE k < m
    <2>1. m \in e.todo /\ m # n /\ m \in Nat
      BY DEF Typed, Lines
    <2>2. CASE k = n
      BY <1>4, <2>1, <2>2
    <2>3. CASE k \in ToSet(s)
      BY <1>3, <1>9, <2>1, <2>3 DEF TakenTrue
    <2> QED BY <1>6, <2>2, <2>3
  <1>12. TakenTrue(d)
    BY <1>5, <1>7, <1>8, <1>9, <1>10, <1>11 DEF TakenTrue, SameFile, SamePlace
  <1>13. \A m, i : FirstHalfAt(d, m, i) <=> FirstHalfAt(e, m, i)
    BY DEF FirstHalfAt, SameFile
  <1>14. DueTrue(d)
    <2>1. DueTrue(e)
      BY DEF FileTrue
    <2> QED BY <1>7, <1>8, <1>13, <2>1 DEF DueTrue, SameFile, SamePlace
  <1> QED BY <1>1, <1>2, <1>12, <1>14 DEF FileTrue

(* The follower dies with the lines at hand.                                    *)
LEMMA FileLeft ==
    ASSUME NEW e, NEW d, FileTrue(e), SameFile(d, e), SamePlace(d, e),
           d.due = e.due, d.handled = e.handled, d.todo = {}, d.pc = "dead"
    PROVE  FileTrue(d)
  <1>1. TextTrue(d)
    BY DEF FileTrue, TextTrue, SameFile
  <1>2. PlaceTrue(d)
    BY DEF FileTrue, PlaceTrue, SameFile, SamePlace
  <1>3. Taken(d) \subseteq Taken(e) /\ \A i : Unread(d, i) <=> Unread(e, i)
    BY DEF Taken, Unread, SameFile, SamePlace
  <1>4. TakenTrue(d)
    BY <1>3 DEF FileTrue, TakenTrue, SameFile, SamePlace
  <1>5. \A n, i : FirstHalfAt(d, n, i) <=> FirstHalfAt(e, n, i)
    BY DEF FirstHalfAt, SameFile
  <1>6. DueTrue(d)
    BY <1>5 DEF FileTrue, DueTrue, SameFile, SamePlace
  <1> QED BY <1>1, <1>2, <1>4, <1>6 DEF FileTrue

(* Started again it follows nothing yet, and knows what it has handled.         *)
LEMMA FileReopened ==
    ASSUME NEW e, NEW d, Typed(e), FileTrue(e), SameFile(d, e), d.handled = e.handled,
           e.todo = {}, d.todo = {}, d.pc = "look", ~d.positioned, d.offset = 0,
           d.partial = <<>>, d.due = {}, ~d.stale
    PROVE  FileTrue(d)
  <1>1. TextTrue(d)
    BY DEF FileTrue, TextTrue, SameFile
  <1>2. Len(d.partial) = 0
    OBVIOUS
  <1>3. PlaceTrue(d)
    <2>1. d.text \in Seq(Halves) /\ Len(d.text) \in Nat
      BY DEF Typed, SameFile
    <2> QED BY <1>2, <2>1 DEF PlaceTrue
  <1>4. Taken(d) = Taken(e)
    BY DEF Taken
  <1>5. TakenTrue(d)
    BY <1>4 DEF FileTrue, TakenTrue, SameFile
  <1>6. DueTrue(d)
    BY DEF DueTrue
  <1> QED BY <1>1, <1>3, <1>5, <1>6 DEF FileTrue

(* The steps, one by one. *)
LEMMA FileSteps ==
    ASSUME EveTrue, FileTrue(eve), SuricataWrites \/ Rotated
    PROVE  FileTrue(eve')
  <1>1. PICK e, d : e = eve /\ d = eve'
    OBVIOUS
  <1>2. Typed(e) /\ FileTrue(e) /\ DOMAIN e = EveFields
    BY <1>1 DEF Typed, EveTrue
  <1>3. CASE SuricataWrites
    <2>1. PICK h : h = e.written + 1
      OBVIOUS
    <2>2. /\ d.file /\ d.text = Append(e.text, h) /\ d.written = h /\ d.pc = e.pc
          /\ SamePlace(d, e) /\ SameLines(d, e)
          /\ d.due = IF e.positioned /\ ~SecondHalf(h) THEN e.due \cup {(h + 1) \div 2} ELSE e.due
      BY <1>1, <1>2, <1>3, <2>1 DEF SuricataWrites, SamePlace, SameLines, EveFields
    <2> QED BY <1>1, <1>2, <2>1, <2>2, FileWritten
  <1>4. CASE Rotated
    <2>1. /\ d.text = <<>> /\ d.written = e.written /\ d.positioned = e.positioned
          /\ d.offset = e.offset /\ d.partial = e.partial /\ (d.stale <=> e.offset > 0)
          /\ SameLines(d, e) /\ d.pc = e.pc /\ d.due = {}
      BY <1>1, <1>2, <1>4 DEF Rotated, SameLines, EveFields
    <2> QED BY <1>1, <1>2, <2>1, FileRotated
  <1> QED BY <1>3, <1>4

(* What a look makes of the follower's place. *)
LEMMA FromFields ==
    ASSUME EveTrue, eve.pc = "look", NEW offset, NEW positioned
    PROVE  /\ DOMAIN From(offset, positioned) = EveFields
           /\ SameFile(From(offset, positioned), eve)
           /\ SameLines(From(offset, positioned), eve)
           /\ From(offset, positioned).partial = <<>> /\ ~From(offset, positioned).stale
           /\ From(offset, positioned).pc = "look"
           /\ (From(offset, positioned).positioned <=> positioned)
           /\ From(offset, positioned).offset = offset
           /\ From(offset, positioned).due = eve.due
  <1>1. PICK d : d = From(offset, positioned)
    OBVIOUS
  <1>2. /\ DOMAIN d = EveFields /\ SameFile(d, eve) /\ SameLines(d, eve) /\ d.partial = <<>>
        /\ ~d.stale /\ d.pc = "look" /\ (d.positioned <=> positioned) /\ d.offset = offset
        /\ d.due = eve.due
    BY <1>1 DEF From, EveTrue, EveFields, SameFile, SameLines
  <1> QED BY <1>1, <1>2

(* One look at the file. *)
LEMMA FileLooks ==
    ASSUME EveTrue, FileTrue(eve), EveLooked
    PROVE  FileTrue(eve')
  <1>1. PICK e, d : e = eve /\ d = eve'
    OBVIOUS
  <1>2. Typed(e) /\ FileTrue(e) /\ DOMAIN e = EveFields /\ e.pc = "look"
    BY <1>1 DEF Typed, EveTrue, EveLooked
  <1>3. PICK size : size = Len(e.text)
    OBVIOUS
  <1>4. CASE eve' = [From(0, FALSE) EXCEPT !.due = {}]
    <2>1. PICK c : c = From(0, FALSE)
      OBVIOUS
    <2>2. /\ DOMAIN c = EveFields /\ SameFile(c, e) /\ SameLines(c, e) /\ c.partial = <<>>
          /\ ~c.stale /\ c.pc = "look" /\ ~c.positioned /\ c.offset = 0
      BY <1>1, <1>2, <2>1, FromFields DEF EveLooked
    <2>3. d = [c EXCEPT !.due = {}]
      BY <1>1, <1>4, <2>1
    <2>4. /\ SameFile(d, e) /\ SameLines(d, e) /\ d.partial = <<>> /\ ~d.stale
          /\ ~d.positioned /\ d.offset = 0 /\ d.due = {} /\ d.pc = "look"
      BY <2>2, <2>3 DEF SameFile, SameLines, EveFields
    <2> QED BY <1>1, <1>2, <2>4, FilePlaced
  <1>5. CASE ~eve.positioned /\ eve' = From(Len(eve.text), TRUE)
    <2>1. /\ SameFile(d, e) /\ SameLines(d, e) /\ d.partial = <<>> /\ ~d.stale
          /\ d.positioned /\ d.offset = Len(e.text) /\ d.due = e.due /\ d.pc = "look"
      <3>1. eve.pc = "look"
        BY <1>1, <1>2
      <3>2. PICK z : z = Len(eve.text)
        OBVIOUS
      <3>3. /\ SameFile(From(z, TRUE), eve) /\ SameLines(From(z, TRUE), eve)
            /\ From(z, TRUE).partial = <<>> /\ ~From(z, TRUE).stale
            /\ From(z, TRUE).pc = "look" /\ From(z, TRUE).positioned
            /\ From(z, TRUE).offset = z /\ From(z, TRUE).due = eve.due
        BY <3>1, FromFields
      <3>4. d = From(z, TRUE) /\ z = Len(e.text)
        BY <1>1, <1>5, <3>2
      <3> QED BY ONLY <1>1, <3>3, <3>4
    <2>2. ~e.positioned
      BY <1>1, <1>5
    <2> QED BY <1>1, <1>2, <2>1, <2>2, FilePlaced
  <1>6. CASE /\ eve.positioned /\ Len(eve.text) < eve.offset
             /\ eve' = [From(0, TRUE) EXCEPT !.pc = IF Len(eve.text) > 0 THEN "read" ELSE "look"]
    <2>1. PICK c : c = From(0, TRUE)
      OBVIOUS
    <2>2. /\ DOMAIN c = EveFields /\ SameFile(c, e) /\ SameLines(c, e) /\ c.partial = <<>>
          /\ ~c.stale /\ c.pc = "look" /\ c.positioned /\ c.offset = 0 /\ c.due = e.due
      <3>1. eve.pc = "look"
        BY <1>1, <1>2
      <3>2. /\ DOMAIN From(0, TRUE) = EveFields /\ SameFile(From(0, TRUE), eve)
            /\ SameLines(From(0, TRUE), eve) /\ From(0, TRUE).partial = <<>>
            /\ ~From(0, TRUE).stale /\ From(0, TRUE).pc = "look"
            /\ From(0, TRUE).positioned /\ From(0, TRUE).offset = 0
            /\ From(0, TRUE).due = eve.due
        BY <3>1, FromFields
      <3> QED BY ONLY <1>1, <2>1, <3>2
    <2>3. PICK pc \in {"look", "read"} : d = [c EXCEPT !.pc = pc]
      BY <1>1, <1>6, <2>1
    <2>4. /\ SameFile(d, e) /\ SameLines(d, e) /\ d.partial = <<>> /\ ~d.stale
          /\ d.positioned /\ d.offset = 0 /\ d.due = e.due /\ d.pc \in {"look", "read"}
      BY <2>2, <2>3 DEF SameFile, SameLines, EveFields
    <2>5. e.positioned /\ Len(e.text) < e.offset
      BY <1>1, <1>6
    <2> QED BY <1>1, <1>2, <2>4, <2>5, FilePlaced
  <1>7. CASE /\ eve.positioned /\ Len(eve.text) >= eve.offset
             /\ eve' = [eve EXCEPT !.pc = IF Len(eve.text) > eve.offset THEN "read" ELSE "look",
                                   !.blind = eve.blind \/ eve.stale]
    <2>1. PICK pc \in {"look", "read"} : pc = IF Len(eve.text) > eve.offset THEN "read" ELSE "look"
      OBVIOUS
    <2>2. d = [e EXCEPT !.pc = pc, !.blind = e.blind \/ e.stale]
      BY <1>1, <1>7, <2>1
    <2>3. /\ SameFile(d, e) /\ SameLines(d, e) /\ d.positioned = e.positioned
          /\ d.offset = e.offset /\ d.partial = e.partial /\ d.stale = e.stale
          /\ (d.blind <=> e.blind \/ e.stale) /\ d.due = e.due /\ d.pc \in {"look", "read"}
      BY <1>2, <2>2 DEF SameFile, SameLines, EveFields
    <2>4. e.positioned /\ e.offset <= Len(e.text)
      BY <1>1, <1>2, <1>7 DEF Typed
    <2> QED BY <1>1, <1>2, <2>3, <2>4, FileKept
  <1> QED BY <1>4, <1>5, <1>6, <1>7 DEF EveLooked

(* The follower dies. *)
LEMMA FileDies ==
    ASSUME EveTrue, FileTrue(eve), eve' = Dies
    PROVE  FileTrue(eve')
  <1>1. PICK e, d : e = eve /\ d = eve'
    OBVIOUS
  <1>2. /\ SameFile(d, e) /\ SamePlace(d, e) /\ d.due = e.due /\ d.handled = e.handled
        /\ d.todo = {} /\ d.pc = "dead"
    BY <1>1 DEF Dies, EveTrue, EveFields, SameFile, SamePlace
  <1> QED BY <1>1, <1>2, FileLeft

(* One read of it. *)
LEMMA FileReads ==
    ASSUME EveTrue, FileTrue(eve), EveRead
    PROVE  FileTrue(eve')
  <1>1. PICK e, d : e = eve /\ d = eve'
    OBVIOUS
  <1>2. /\ Typed(e) /\ FileTrue(e) /\ DOMAIN e = EveFields /\ e.pc = "read"
        /\ e.offset \in Nat /\ Len(e.text) \in Nat
    BY <1>1 DEF Typed, EveTrue, EveRead
  <1>3. CASE ~eve.file
    BY <1>3, FileDies DEF EveRead
  <1>4. CASE eve.file
    <2>1. PICK all : all = Found(e)
      OBVIOUS
    <2>2. /\ SameFile(d, e) /\ d.handled = e.handled /\ d.positioned = e.positioned
          /\ d.offset = (IF Len(e.text) > e.offset THEN Len(e.text) ELSE e.offset)
          /\ d.partial = RestOf(all) /\ d.todo = LinesIn(all) /\ d.stale = e.stale
          /\ (d.blind <=> e.blind \/ (e.stale /\ Len(e.text) > e.offset))
          /\ d.due = e.due /\ d.pc = IF LinesIn(all) = {} THEN "look" ELSE "lines"
      BY <1>1, <1>2, <1>4, <2>1 DEF EveRead, Found, EveFields, SameFile
    <2>3. CASE e.offset < Len(e.text)
      <3>1. /\ d.offset = Len(e.text) /\ (d.blind <=> e.blind \/ e.stale)
            /\ d.pc = IF d.todo = {} THEN "look" ELSE "lines"
        BY <1>2, <2>2, <2>3
      <3> QED BY <1>1, <1>2, <2>1, <2>2, <2>3, <3>1, FileGrown
    <2>4. CASE Len(e.text) <= e.offset
      <3>1. RestOf(all) = e.partial /\ LinesIn(all) = {} /\ e.todo = {}
        BY <1>2, <2>1, <2>4, NothingNew DEF FileTrue, PlaceTrue
      <3>2. SamePlace(d, e) /\ SameLines(d, e) /\ d.todo = {} /\ d.pc = "look"
        BY <1>2, <2>2, <2>4, <3>1 DEF SamePlace, SameLines
      <3> QED BY <1>1, <1>2, <2>2, <3>2, FileSame
    <2> QED BY <1>2, <2>3, <2>4
  <1> QED BY <1>3, <1>4

(* A line is done with. *)
LEMMA FileHandles ==
    ASSUME EveTrue, FileTrue(eve), eve.pc \in {"lines", "await"}, eve' = LineDone
    PROVE  FileTrue(eve')
  <1>1. PICK e, d : e = eve /\ d = eve'
    OBVIOUS
  <1>2. Typed(e) /\ FileTrue(e) /\ DOMAIN e = EveFields /\ e.todo # {}
    BY <1>1 DEF Typed, EveTrue
  <1>3. PICK n \in e.todo : n = CurrentLine /\ \A k \in e.todo : n <= k
    <2>1. e.todo \subseteq Nat
      BY <1>2 DEF Typed, Lines
    <2>2. \E n \in e.todo : \A k \in e.todo : n <= k
      <3>1. PICK todo : todo = e.todo
        OBVIOUS
      <3> QED BY <1>2, <2>1, <3>1, SmallestOf
    <2> QED BY <1>1, <2>2 DEF CurrentLine
  <1>4. /\ d.handled = Append(e.handled, n) /\ d.todo = e.todo \ {n} /\ SameFile(d, e)
        /\ SamePlace(d, e) /\ d.due = e.due /\ d.pc = IF e.todo = {n} THEN "look" ELSE "lines"
    BY <1>1, <1>2, <1>3 DEF LineDone, EveFields, SameFile, SamePlace
  <1>5. d.pc \in {"look", "lines"} /\ (d.pc = "look" => d.todo = {})
    BY <1>4
  <1> QED BY <1>1, <1>2, <1>3, <1>4, <1>5, FileLineDone

(* A line becomes a request, and is not taken yet. *)
LEMMA FilePosts ==
    ASSUME EveTrue, FileTrue(eve), NEW t \in Threads, LinePosted(t)
    PROVE  FileTrue(eve')
  <1>1. PICK e, d : e = eve /\ d = eve'
    OBVIOUS
  <1>2. /\ SameFile(d, e) /\ SamePlace(d, e) /\ SameLines(d, e) /\ d.due = e.due
        /\ e.pc = "lines" /\ d.pc = "await"
    BY <1>1 DEF LinePosted, EveTrue, EveFields, SameFile, SamePlace, SameLines
  <1>3. d.positioned
    BY <1>1, <1>2 DEF FileTrue, PlaceTrue, SamePlace
  <1> QED BY <1>1, <1>2, <1>3, FileSame

(* The follower is started again: it goes on from the end of the file, and what *)
(* was due before is no longer.                                                 *)
LEMMA FileStarts ==
    ASSUME EveTrue, FileTrue(eve), FollowerStarts
    PROVE  FileTrue(eve')
  <1>1. PICK e, d : e = eve /\ d = eve'
    OBVIOUS
  <1>2. Typed(e) /\ DOMAIN e = EveFields /\ e.pc = "dead"
    BY <1>1 DEF Typed, EveTrue, FollowerStarts
  <1>3. PICK over : over = Over(Fresh, e)
    OBVIOUS
  <1>4. /\ DOMAIN over = EveFields /\ SameFile(over, e) /\ over.handled = e.handled
        /\ over.todo = {} /\ over.pc = "look" /\ ~over.positioned /\ over.offset = 0
        /\ over.partial = <<>>
    BY <1>2, <1>3 DEF Over, Fresh, EveFields, SameFile
  <1>5. d = [over EXCEPT !.due = {}, !.stale = FALSE, !.blind = FALSE]
    BY <1>1, <1>3 DEF FollowerStarts
  <1>6. /\ SameFile(d, e) /\ d.handled = e.handled /\ d.todo = {} /\ d.pc = "look"
        /\ ~d.positioned /\ d.offset = 0 /\ d.partial = <<>> /\ d.due = {} /\ ~d.stale
    BY <1>4, <1>5 DEF SameFile, EveFields
  <1>7. e.todo = {}
    BY <1>1, <1>2 DEF FileTrue, PlaceTrue
  <1> QED BY <1>1, <1>2, <1>6, <1>7, FileReopened

(* At the start there is neither a file nor a line. *)
LEMMA FileBegins == FollowedInit => FileTrue(eve)
  <1> SUFFICES ASSUME FollowedInit PROVE FileTrue(eve)
    OBVIOUS
  <1>1. PICK e : e = eve
    OBVIOUS
  <1>2. /\ e.text = <<>> /\ e.written = 0 /\ e.offset = 0 /\ ~e.file /\ ~e.positioned
        /\ e.partial = <<>> /\ e.todo = {} /\ e.pc = "look" /\ e.handled = <<>>
        /\ e.due = {} /\ ~e.stale
    BY <1>1 DEF FollowedInit, Over, Fresh
  <1>3. Len(e.text) = 0 /\ Len(e.partial) = 0
    BY <1>2
  <1>4. TextTrue(e) /\ PlaceTrue(e) /\ DueTrue(e)
    BY <1>2, <1>3 DEF TextTrue, PlaceTrue, DueTrue
  <1>5. e.handled \in Seq(Lines) /\ DOMAIN e.handled = {} /\ Taken(e) = {} /\ ToSet(e.handled) = {}
    BY <1>2 DEF Taken, ToSet
  <1>6. TakenTrue(e)
    BY <1>2, <1>5 DEF TakenTrue
  <1> QED BY <1>1, <1>4, <1>6 DEF FileTrue

(* A step of the console leaves the follower, and any step the file, in order.  *)
LEMMA FileKeeps ==
    ASSUME EveTrue, FileTrue(eve), [FollowedNext]_followerVars
    PROVE  FileTrue(eve')
  <1>1. CASE UNCHANGED eve
    BY <1>1
  <1>2. CASE SuricataWrites \/ Rotated \/ EveLooked \/ EveRead
    BY <1>2, FileSteps, FileLooks, FileReads
  <1>3. CASE LinePassed \/ PostAnswered
    <2>1. eve.pc \in {"lines", "await"} /\ (eve' = LineDone \/ eve' = Dies)
      BY <1>3 DEF LinePassed, PostAnswered
    <2> QED BY <2>1, FileHandles, FileDies
  <1>4. CASE (\E t \in Threads : LinePosted(t)) \/ FollowerStarts
    BY <1>4, FilePosts, FileStarts
  <1>5. CASE ConsoleGone \/ FollowerStops
    BY <1>5, FileDies DEF ConsoleGone, FollowerStops
  <1>6. followerVars' = followerVars => eve' = eve
    BY DEF followerVars
  <1> QED BY <1>1, <1>2, <1>3, <1>4, <1>5, <1>6 DEF FollowedNext

-----------------------------------------------------------------------------
(* The rows of what was posted.  A row with an event came over the bridge and   *)
(* looks as the event says, and what the purge does not take stays.             *)
EventRows ==
    \A f \in DOMAIN flows :
        flows[f].event # None => flows[f].label = "bridge" /\ flows[f].shape = flows[f].event
KeptIn(s, rows) == Shape[s].noisy \/ \E f \in DOMAIN rows : rows[f].event = s
KeptRows(s) == KeptIn(s, flows)

(* A request that has found or stored the row of its event. *)
Acknowledged(r) ==
    \/ r.pc \in Stitching \cup {"event_campaign"}
    \/ r.pc = "reply" /\ r.outcome \in {"stored", "duplicate"}
Acknowledges(r) ==
    r.kind = "sensor" => r.shape \in Shapes /\ (Acknowledged(r) => KeptRows(r.shape))

RowsInv == EventRows /\ \A t \in Threads : req[t] # Idle => Acknowledges(req[t])

(* A row keeps what it looks like; one that goes is noise or no bridge's, one   *)
(* that comes with an event is the bridge's.                                    *)
RowsStay ==
    /\ \A f \in DOMAIN flows \cap DOMAIN flows' :
          /\ flows'[f].label = flows[f].label /\ flows'[f].shape = flows[f].shape
          /\ flows'[f].event = flows[f].event
    /\ \A f \in DOMAIN flows \ DOMAIN flows' :
          flows[f].label # "bridge" \/ Shape[flows[f].shape].noisy
    /\ \A f \in DOMAIN flows' \ DOMAIN flows : flows'[f].event # None =>
          flows'[f].label = "bridge" /\ flows'[f].shape = flows'[f].event

(* A request that goes on is of its kind, a sensor's of its event, and it gets  *)
(* no row that is not there.                                                    *)
Passes(r, q) ==
    r # Idle =>
        IF q = Idle THEN r.kind = "sensor" => r.pc = "event"
        ELSE /\ r.kind = q.kind
             /\ q.kind = "sensor" => r.shape = q.shape
             /\ q.kind = "sensor" /\ Acknowledged(r) => Acknowledged(q) \/ KeptIn(q.shape, flows')
AllPass == RowsStay /\ \A u \in Threads : Passes(req'[u], req[u])

(* Rows that were kept are kept. *)
LEMMA RowsLast ==
    ASSUME EventRows, RowsStay
    PROVE  EventRows' /\ \A s \in Shapes : KeptRows(s) => KeptIn(s, flows')
  <1>1. EventRows'
    BY DEF EventRows, RowsStay
  <1>2. ASSUME NEW s \in Shapes, ~Shape[s].noisy, KeptRows(s)
        PROVE  KeptIn(s, flows')
    <2>1. PICK f \in DOMAIN flows : flows[f].event = s
      BY <1>2 DEF KeptRows, KeptIn
    <2>2. flows[f].label = "bridge" /\ flows[f].shape = s
      BY <2>1, ConsoleAssumption DEF EventRows
    <2>3. f \in DOMAIN flows' /\ flows'[f].event = s
      BY <1>2, <2>1, <2>2 DEF RowsStay
    <2> QED BY <2>3 DEF KeptIn
  <1> QED BY <1>1, <1>2 DEF KeptRows, KeptIn

(* What rewrites rows or adds one keeps them. *)
LEMMA RewritesStay ==
    ASSUME flows' = flows \/ (Rewrites /\ DOMAIN flows' = DOMAIN flows)
    PROVE  RowsStay
  BY DEF Rewrites, RowsStay

(* The row that is added is looked at. *)
LEMMA InsertStays ==
    ASSUME ConsoleInv, NEW label, NEW s, NEW e, Insert(label, s, e),
           e # None => label = "bridge" /\ s = e
    PROVE  RowsStay /\ lastId + 1 \in DOMAIN flows' /\ flows'[lastId + 1].event = e
  <1>1. /\ DOMAIN flows' = DOMAIN flows \cup {lastId + 1}
        /\ lastId + 1 \notin DOMAIN flows
        /\ \A f \in DOMAIN flows : flows'[f] = flows[f]
        /\ flows'[lastId + 1] = Row(label, s, e, lastId + 1)
    BY DEF ConsoleInv, SharedTrue, RowsTrue, Insert, NextFlowId
  <1>2. /\ flows'[lastId + 1].label = label /\ flows'[lastId + 1].shape = s
        /\ flows'[lastId + 1].event = e
    BY <1>1 DEF Row
  <1> QED BY <1>1, <1>2 DEF RowsStay

(* One request goes on, the others are left alone. *)
LEMMA OnePasses ==
    ASSUME ConsoleInv, RowsStay, NEW t \in Threads, req[t] # Idle, NEW r,
           req' = [req EXCEPT ![t] = r], r.kind = req[t].kind,
           req[t].kind = "sensor" =>
               /\ r.shape = req[t].shape
               /\ Acknowledged(r) => Acknowledged(req[t]) \/ KeptIn(req[t].shape, flows')
    PROVE  AllPass
  <1>1. req'[t] = r /\ \A u \in Threads \ {t} : req'[u] = req[u]
    BY DEF ConsoleInv, SharedTrue
  <1>2. Passes(req'[t], req[t])
    BY <1>1 DEF Passes
  <1>3. ASSUME NEW u \in Threads \ {t} PROVE Passes(req'[u], req[u])
    BY <1>1 DEF Passes, Acknowledged
  <1> QED BY <1>2, <1>3 DEF AllPass

(* It goes to a place without a row ... *)
LEMMA GotoPasses ==
    ASSUME ConsoleInv, RowsStay, NEW t \in Threads, req[t] # Idle, NEW pc, Goto(t, pc),
           req[t].kind # "sensor" \/ pc \notin Stitching \cup {"event_campaign", "reply"}
    PROVE  AllPass
  <1>1. PICK r : /\ req' = [req EXCEPT ![t] = r] /\ Carries(r, req[t])
                 /\ r.pc = pc /\ r.outcome = req[t].outcome
    BY GotoCarries
  <1> QED BY <1>1, OnePasses DEF Carries, Acknowledged

(* ... or answers that it has none. *)
LEMMA AnswerPasses ==
    ASSUME ConsoleInv, RowsStay, NEW t \in Threads, req[t] # Idle, NEW outcome,
           Answer(t, outcome), req[t].kind # "sensor" \/ outcome \notin {"stored", "duplicate"}
    PROVE  AllPass
  <1>1. MovesTo(t, "reply", outcome)
    BY DEF Answer, MovesTo
  <1>2. PICK r : /\ req' = [req EXCEPT ![t] = r] /\ Carries(r, req[t])
                 /\ r.pc = "reply" /\ r.outcome = outcome
    BY <1>1, AnswerCarries
  <1> QED BY <1>2, OnePasses DEF Carries, Acknowledged, Stitching

(* A request begins without one. *)
LEMMA BeginPasses ==
    ASSUME ConsoleInv, flows' = flows, NEW t \in Threads, NEW kind, NEW fields,
           Begin(t, kind, fields), DOMAIN fields \subseteq Given,
           kind = "sensor" => "pc" \in DOMAIN fields /\ fields.pc = "event"
    PROVE  AllPass
  <1>1. /\ req'[t].kind = kind /\ DOMAIN req'[t] = RequestFields
        /\ \A x \in DOMAIN fields : req'[t][x] = fields[x]
        /\ \A u \in Threads \ {t} :
              req'[u] = IF req[u] = Idle THEN Idle ELSE [req[u] EXCEPT !.alone = FALSE]
    BY BeginCarries
  <1>2. Passes(req'[t], req[t])
    <2>1. req[t] = Idle
      BY DEF Begin, MayBegin, Quiet
    <2>2. kind = "sensor" => req'[t].pc = "event"
      BY <1>1
    <2> QED BY <1>1, <2>1, <2>2 DEF Passes
  <1>3. ASSUME NEW u \in Threads \ {t} PROVE Passes(req'[u], req[u])
    <2>1. CASE req[u] = Idle
      BY <1>1, <2>1 DEF Passes
    <2>2. CASE req[u] # Idle
      <3>1. DOMAIN req[u] = RequestFields
        BY <2>2, RequestKnown
      <3>2. PICK r : r = req'[u] /\ r = [req[u] EXCEPT !.alone = FALSE]
        BY <1>1, <2>2
      <3>3. /\ r.kind = req[u].kind /\ r.shape = req[u].shape /\ r.pc = req[u].pc
            /\ r.outcome = req[u].outcome
        BY <3>1, <3>2 DEF RequestFields
      <3> QED BY <2>2, <3>2, <3>3 DEF Passes, Acknowledged
    <2> QED BY <2>1, <2>2
  <1>4. RowsStay
    BY RewritesStay
  <1> QED BY <1>2, <1>3, <1>4 DEF AllPass

(* A request may say that it has its row: it is no sensor's, or said so, or has it. *)
Entitled(t) ==
    req[t].kind # "sensor" \/ Acknowledged(req[t]) \/ KeptIn(req[t].shape, flows')

(* One that may goes on to any place and with any answer. *)
LEMMA MovesPass ==
    ASSUME ConsoleInv, RowsStay, NEW t \in Threads, req[t] # Idle, Entitled(t), NEW pc,
           Goto(t, pc) \/ \E outcome : MovesTo(t, pc, outcome)
    PROVE  AllPass
  <1>1. PICK r : req' = [req EXCEPT ![t] = r] /\ Carries(r, req[t])
    BY GotoCarries, AnswerCarries
  <1> QED BY <1>1, OnePasses DEF Carries, Entitled

(* So does a request of another kind, whatever else it notes. *)
LEMMA OthersPass ==
    ASSUME ConsoleInv, RowsStay, NEW t \in Threads, req[t] # Idle, req[t].kind # "sensor",
           \A u \in Threads \ {t} : req'[u] = req[u], req'[t].kind = req[t].kind
    PROVE  AllPass
  <1>1. Passes(req'[t], req[t])
    BY DEF Passes
  <1>2. ASSUME NEW u \in Threads \ {t} PROVE Passes(req'[u], req[u])
    BY DEF Passes, Acknowledged
  <1> QED BY <1>1, <1>2 DEF AllPass

(* An answer that a sensor's event was not stored. *)
LEMMA NotStoredPasses ==
    ASSUME ConsoleInv, RowsStay, NEW t \in Threads, req[t] # Idle,
           NEW outcome, outcome \notin {"stored", "duplicate"}, req' = After(t, outcome)
    PROVE  AllPass
  <1>1. CASE req[t].kind = "sensor"
    <2>1. Answer(t, outcome)
      BY <1>1 DEF After, Answer
    <2> QED BY <2>1, AnswerPasses
  <1>2. CASE req[t].kind # "sensor"
    <2>1. Goto(t, req[t].then)
      BY <1>2 DEF After, Goto
    <2> QED BY <1>2, <2>1, GotoPasses
  <1> QED BY <1>1, <1>2

(* An answer that it is. *)
LEMMA StoredPasses ==
    ASSUME ConsoleInv, RowsStay, NEW t \in Threads, req[t] # Idle, Entitled(t),
           NEW outcome, req' = After(t, outcome)
    PROVE  AllPass
  <1>1. \E pc : Goto(t, pc) \/ MovesTo(t, pc, outcome)
    BY AfterGoes
  <1> QED BY <1>1, MovesPass

(* The sensor route. *)
LEMMA SensorPasses ==
    ASSUME ConsoleInv, NEW t \in Threads,
           SensorRead(t) \/ SensorInsert(t) \/ SensorCampaign(t)
    PROVE  AllPass
  <1>0. req[t] # Idle
    BY DEF SensorRead, SensorInsert, SensorCampaign, At
  <1>1. CASE SensorRead(t)
    <2>1. flows' = flows /\ RowsStay
      BY <1>1, RewritesStay DEF SensorRead
    <2>2. CASE BridgeRows(req[t].shape) # {} /\ req' = After(t, "duplicate")
      <3>1. Entitled(t)
        BY <2>1, <2>2 DEF Entitled, KeptIn, BridgeRows
      <3> QED BY <1>0, <2>1, <2>2, <3>1, StoredPasses
    <2>3. CASE Goto(t, "event_insert")
      BY <1>0, <2>1, <2>3, GotoPasses DEF Stitching
    <2>4. CASE req' = After(t, "refused")
      BY <1>0, <2>1, <2>4, NotStoredPasses
    <2> QED BY <1>1, <2>2, <2>3, <2>4 DEF SensorRead
  <1>2. CASE SensorInsert(t)
    <2>1. CASE Answer(t, "error") /\ flows' = flows
      BY <1>0, <2>1, RewritesStay, AnswerPasses
    <2>2. CASE Insert("bridge", req[t].shape, req[t].shape) /\ Goto(t, "event_campaign")
      <3>1. PICK s : s = req[t].shape
        OBVIOUS
      <3>2. RowsStay /\ lastId + 1 \in DOMAIN flows' /\ flows'[lastId + 1].event = s
        BY <2>2, <3>1, InsertStays
      <3>3. Entitled(t)
        BY <3>1, <3>2 DEF Entitled, KeptIn
      <3> QED BY <1>0, <2>2, <3>2, <3>3, MovesPass
    <2> QED BY <1>2, <2>1, <2>2 DEF SensorInsert
  <1>3. CASE SensorCampaign(t)
    <2>1. RowsStay
      BY <1>3, RewritesStay DEF SensorCampaign
    <2>2. Entitled(t)
      BY <1>3 DEF SensorCampaign, At, Entitled, Acknowledged
    <2>3. Answer(t, "error") \/ req' = After(t, "stored")
      BY <1>3 DEF SensorCampaign
    <2> QED BY <1>0, <2>1, <2>2, <2>3, StoredPasses, AnswerPasses
  <1> QED BY <1>1, <1>2, <1>3

(* Ingest, the replays and the scenarios. *)
LEMMA BurstPasses ==
    ASSUME ConsoleInv, NEW t \in Threads, ReplayInsert(t) \/ RecordedBurst(t)
    PROVE  AllPass
  <1>1. req[t] # Idle /\ req[t].kind # "sensor" /\ DOMAIN req = Threads /\ DOMAIN req[t] = RequestFields
    BY RequestKnown DEF ReplayInsert, RecordedBurst, At, Control, ConsoleInv, SharedTrue
  <1>2. CASE \E pc : Goto(t, pc) /\ flows' = flows
    BY <1>1, <1>2, RewritesStay, GotoPasses
  <1>3. CASE /\ Insert(req[t].actor, Head(req[t].todo), None)
             /\ req' = [req EXCEPT ![t].todo = Tail(@), ![t].outcome = "stored"]
    <2>1. RowsStay
      <3>1. PICK a, s : a = req[t].actor /\ s = Head(req[t].todo)
        OBVIOUS
      <3> QED BY <1>3, <3>1, InsertStays
    <2>2. req'[t].kind = req[t].kind /\ \A u \in Threads \ {t} : req'[u] = req[u]
      BY <1>1, <1>3 DEF RequestFields
    <2> QED BY <1>1, <2>1, <2>2, OthersPass
  <1> QED BY <1>2, <1>3 DEF ReplayInsert, RecordedBurst

(* Rows that are deleted are copies of the scenario, or noise of the bridge. *)
LEMMA DeleteStays ==
    ASSUME NEW doomed, Delete(doomed),
           \A f \in doomed \cap DOMAIN flows :
               flows[f].label # "bridge" \/ Shape[flows[f].shape].noisy
    PROVE  RowsStay
  BY DEF Delete, RowsStay

(* The scenarios and the seeds. *)
LEMMA SeedingPasses ==
    ASSUME ConsoleInv, NEW t \in Threads,
           \/ ScenarioReuse(t) \/ ScenarioInsert(t) \/ CandidateStored(t)
           \/ SeedRead(t) \/ SeedInsert(t) \/ NotableRead(t)
    PROVE  AllPass
  <1>1. req[t] # Idle /\ req[t].kind # "sensor" /\ DOMAIN req = Threads /\ DOMAIN req[t] = RequestFields
    BY RequestKnown DEF ScenarioReuse, ScenarioInsert, CandidateStored, SeedRead, SeedInsert,
                        NotableRead, At, Control, Seeding, ConsoleInv, SharedTrue
  <1>2. CASE ScenarioReuse(t)
    <2>1. RowsStay
      <3>1. CASE flows' = flows
        BY <3>1, RewritesStay
      <3>2. CASE Delete(Copies)
        <4>1. PICK doomed : doomed = Copies
          OBVIOUS
        <4>2. \A f \in doomed \cap DOMAIN flows : flows[f].label # "bridge"
          BY <4>1 DEF Copies, ScenarioRows
        <4> QED BY <3>2, <4>1, <4>2, DeleteStays
      <3> QED BY <1>2, <3>1, <3>2 DEF ScenarioReuse
    <2>2. req'[t].kind = req[t].kind /\ \A u \in Threads \ {t} : req'[u] = req[u]
      BY <1>1, <1>2 DEF ScenarioReuse, Goto, RequestFields
    <2> QED BY <1>1, <2>1, <2>2, OthersPass
  <1>3. CASE ScenarioInsert(t)
    <2>1. RowsStay
      BY <1>3, InsertStays DEF ScenarioInsert
    <2>2. req'[t].kind = req[t].kind /\ \A u \in Threads \ {t} : req'[u] = req[u]
      BY <1>1, <1>3 DEF ScenarioInsert, RequestFields
    <2> QED BY <1>1, <2>1, <2>2, OthersPass
  <1>4. CASE CandidateStored(t)
    <2>1. RowsStay
      <3>1. SharedTrue
        BY DEF ConsoleInv
      <3> QED BY <1>4, <3>1 DEF CandidateStored, SharedTrue, RowsTrue, RowFields, RowsStay
    <2> QED BY <1>1, <1>4, <2>1, GotoPasses DEF CandidateStored
  <1>5. CASE SeedRead(t)
    BY <1>1, <1>5, RewritesStay, GotoPasses DEF SeedRead
  <1>6. CASE SeedInsert(t)
    <2>1. RowsStay
      BY <1>6, InsertStays DEF SeedInsert
    <2> QED BY <1>1, <1>6, <2>1, GotoPasses DEF SeedInsert
  <1>7. CASE NotableRead(t)
    <2>1. RowsStay
      BY <1>7, RewritesStay DEF NotableRead
    <2>2. req'[t].kind = req[t].kind /\ \A u \in Threads \ {t} : req'[u] = req[u]
      BY <1>1, <1>7 DEF NotableRead, RequestFields
    <2> QED BY <1>1, <2>1, <2>2, OthersPass
  <1> QED BY <1>2, <1>3, <1>4, <1>5, <1>6, <1>7

(* The purge, and what a scan of the range ends with. *)
LEMMA PurgePasses ==
    ASSUME ConsoleInv, NEW t \in Threads, Purge(t) \/ ScanEnds(t)
    PROVE  AllPass
  <1>1. req[t] # Idle /\ req[t].kind # "sensor"
    BY RequestKnown DEF Purge, ScanEnds, At, Control
  <1>2. \E pc : Goto(t, pc) \/ Answer(t, pc)
    BY DEF Purge, ScanEnds
  <1>3. RowsStay
    <2>1. CASE Purge(t)
      <3>1. PICK doomed : doomed = Noise
        OBVIOUS
      <3>2. \A f \in doomed \cap DOMAIN flows : Shape[flows[f].shape].noisy
        BY <3>1 DEF Noise
      <3>3. Delete(doomed)
        BY <2>1, <3>1 DEF Purge
      <3> QED BY <3>2, <3>3, DeleteStays
    <2>2. CASE ScanEnds(t)
      BY <2>2, RewritesStay DEF ScanEnds
    <2> QED BY <2>1, <2>2
  <1> QED BY <1>1, <1>2, <1>3, GotoPasses, AnswerPasses

(* The routes by which rows come in or go. *)
LEMMA IntakeRoutesPass ==
    ASSUME ConsoleInv, NEW t \in Threads,
           \/ SensorRoute(t) \/ IngestRoute(t) \/ ReplayRoute(t)
           \/ ScenariosRoute(t) \/ PurgeRoute(t) \/ ScanRoute(t)
    PROVE  AllPass
  <1>1. PICK kind, fields :
            /\ BeginIntake(t, kind, fields) /\ DOMAIN fields \subseteq Given
            /\ kind = "sensor" => "pc" \in DOMAIN fields /\ fields.pc = "event"
    <2>1. ASSUME SensorRoute(t)
          PROVE  \E fields : /\ BeginIntake(t, "sensor", fields) /\ DOMAIN fields \subseteq Given
                             /\ "pc" \in DOMAIN fields /\ fields.pc = "event"
      <3>1. PICK s : BeginIntake(t, "sensor", [pc |-> "event", shape |-> s])
        BY <2>1 DEF SensorRoute
      <3> QED BY <3>1 DEF Given
    <2>2. ASSUME ~SensorRoute(t)
          PROVE  \E kind \in {"ingest", "replay", "scenarios", "purge", "scan"} : \E fields :
                     BeginIntake(t, kind, fields) /\ DOMAIN fields \subseteq Given
      <3>1. ASSUME IngestRoute(t)
            PROVE  \E fields : BeginIntake(t, "ingest", fields) /\ DOMAIN fields \subseteq Given
        <4>1. PICK s : BeginIntake(t, "ingest", [pc |-> "rows", todo |-> <<s>>, actor |-> "replayed"])
          BY <3>1 DEF IngestRoute
        <4> QED BY <4>1 DEF Given
      <3>2. ASSUME ReplayRoute(t)
            PROVE  \E fields : BeginIntake(t, "replay", fields) /\ DOMAIN fields \subseteq Given
        <4>1. PICK todo : todo = [i \in 1 .. BurstSize |-> Recorded]
          OBVIOUS
        <4>2. BeginIntake(t, "replay", [pc |-> "rows", todo |-> todo, actor |-> "recorded"])
          BY <3>2, <4>1 DEF ReplayRoute
        <4> QED BY <4>2 DEF Given
      <3>3. ASSUME ScenariosRoute(t)
            PROVE  \E fields : BeginIntake(t, "scenarios", fields) /\ DOMAIN fields \subseteq Given
        BY <3>3 DEF ScenariosRoute, Given
      <3>4. ASSUME PurgeRoute(t)
            PROVE  \E fields : BeginIntake(t, "purge", fields) /\ DOMAIN fields \subseteq Given
        BY <3>4 DEF PurgeRoute, Given
      <3>5. ASSUME ScanRoute(t)
            PROVE  \E fields : BeginIntake(t, "scan", fields) /\ DOMAIN fields \subseteq Given
        BY <3>5 DEF ScanRoute, Given
      <3> QED BY <2>2, <3>1, <3>2, <3>3, <3>4, <3>5
    <2> QED BY <2>1, <2>2
  <1>2. Begin(t, kind, fields) /\ flows' = flows
    BY <1>1 DEF BeginIntake
  <1> QED BY <1>1, <1>2, BeginPasses

(* One request goes on as it may, the others are left alone. *)
LEMMA EntitledPasses ==
    ASSUME ConsoleInv, RowsStay, NEW t \in Threads, req[t] # Idle,
           \A u \in Threads \ {t} : req'[u] = req[u],
           req'[t].kind = req[t].kind, req'[t].shape = req[t].shape,
           Entitled(t) \/ ~Acknowledged(req'[t])
    PROVE  AllPass
  <1>1. Passes(req'[t], req[t])
    BY DEF Passes, Entitled
  <1>2. ASSUME NEW u \in Threads \ {t} PROVE Passes(req'[u], req[u])
    BY DEF Passes, Acknowledged
  <1> QED BY <1>1, <1>2 DEF AllPass

(* The stitch. *)
LEMMA StitchPasses ==
    ASSUME ConsoleInv, NEW t \in Threads,
           CorrelateRead(t) \/ CorrelateStore(t) \/ CorrelateMark(t) \/ DropStale(t)
    PROVE  AllPass
  <1>1. req[t] # Idle /\ req[t].pc \in Stitching /\ DOMAIN req = Threads /\ DOMAIN req[t] = RequestFields
    BY RequestKnown DEF CorrelateRead, CorrelateStore, CorrelateMark, DropStale, At, Stitching,
                        ConsoleInv, SharedTrue
  <1>2. Entitled(t)
    BY <1>1 DEF Entitled, Acknowledged
  <1>3. RowsStay
    <2>1. CASE CorrelateMark(t)
      <3>1. PICK ids : ids = Ids(req[t].read)
        OBVIOUS
      <3>2. flows' = [f \in DOMAIN flows |->
                         IF f \in ids THEN [flows[f] EXCEPT !.checked = TRUE] ELSE flows[f]]
        BY <2>1, <3>1 DEF CorrelateMark
      <3>3. \A f \in DOMAIN flows : DOMAIN flows[f] = RowFields
        BY DEF ConsoleInv, SharedTrue, RowsTrue
      <3> QED BY <3>2, <3>3 DEF RowFields, RowsStay
    <2>2. CASE CorrelateRead(t) \/ CorrelateStore(t) \/ DropStale(t)
      BY <2>2, RewritesStay DEF CorrelateRead, CorrelateStore, DropStale
    <2> QED BY <2>1, <2>2
  <1>4. /\ \A u \in Threads \ {t} : req'[u] = req[u]
        /\ req'[t].kind = req[t].kind /\ req'[t].shape = req[t].shape
    <2>1. CASE CorrelateRead(t)
      BY <1>1, <2>1 DEF CorrelateRead, Answer, Goto, RequestFields
    <2>2. CASE CorrelateStore(t)
      <3>1. PICK keep : req' = [req EXCEPT ![t].pc = "mark", ![t].keep = keep]
        BY <2>2 DEF CorrelateStore
      <3> QED BY <1>1, <3>1 DEF RequestFields
    <2>3. CASE CorrelateMark(t)
      BY <1>1, <2>3 DEF CorrelateMark, Goto, RequestFields
    <2>4. CASE DropStale(t)
      BY <1>1, <2>4 DEF DropStale, RequestFields
    <2> QED BY <2>1, <2>2, <2>3, <2>4
  <1> QED BY <1>1, <1>2, <1>3, <1>4, EntitledPasses

(* Its route, and the corrections. *)
LEMMA StitchBegins ==
    ASSUME ConsoleInv, NEW t \in Threads,
           BeginCorrelate(t) \/ \E a \in DOMAIN flows, id \in CorrectionIds : Correct(t, a, id)
    PROVE  AllPass
  <1>1. CASE BeginCorrelate(t)
    <2>1. Begin(t, "correlate", [pc |-> "correlate"]) /\ flows' = flows
      BY <1>1 DEF BeginCorrelate
    <2> QED BY <2>1, BeginPasses DEF Given
  <1>2. ASSUME NEW a, NEW id, Correct(t, a, id) PROVE AllPass
    <2>1. PICK fields : fields = [pc |-> "reply", flow |-> a]
      OBVIOUS
    <2>2. Begin(t, "correct", fields) /\ flows' = flows /\ DOMAIN fields \subseteq Given
      BY <1>2, <2>1 DEF Correct, Given
    <2> QED BY <2>2, BeginPasses
  <1> QED BY <1>1, <1>2

(* What an analyst writes into a row tells nothing of what it is. *)
LEMMA SignedStays ==
    ASSUME ConsoleInv, NEW t, NEW field \in {"verdict", "triage", "assignee", "stamp"}, Signed(t, field)
    PROVE  RowsStay
  <1>1. \A f \in DOMAIN flows : DOMAIN flows[f] = RowFields
    BY DEF ConsoleInv, SharedTrue, RowsTrue
  <1> QED BY <1>1 DEF Signed, RowFields, RowsStay

(* The analyst's records. *)
LEMMA RecordsPass ==
    ASSUME ConsoleInv, NEW t \in Threads,
           \/ RowLoaded(t) \/ VerdictStored(t) \/ AssignmentStored(t)
           \/ TriageStored(t) \/ NoteStored(t) \/ StampStored(t) \/ MemoryStored(t)
    PROVE  AllPass
  <1>1. req[t] # Idle /\ req[t].kind # "sensor" /\ DOMAIN req = Threads /\ DOMAIN req[t] = RequestFields
    BY RequestKnown DEF RowLoaded, VerdictStored, AssignmentStored, TriageStored, NoteStored,
                        StampStored, MemoryStored, At, Control, ConsoleInv, SharedTrue
  <1>2. RowsStay
    <2>1. CASE flows' = flows
      BY <2>1, RewritesStay
    <2>2. CASE \E field \in {"verdict", "triage", "assignee", "stamp"} : Signed(t, field)
      BY <2>2, SignedStays
    <2> QED BY <2>1, <2>2 DEF RowLoaded, VerdictStored, AssignmentStored, TriageStored,
                              NoteStored, StampStored, MemoryStored
  <1>3. \A u \in Threads \ {t} : req'[u] = req[u]
    BY <1>1 DEF RowLoaded, VerdictStored, AssignmentStored, TriageStored, NoteStored,
                StampStored, MemoryStored, Goto, Answer
  <1>4. req'[t].kind = req[t].kind
    BY <1>1 DEF RowLoaded, VerdictStored, AssignmentStored, TriageStored, NoteStored,
                StampStored, MemoryStored, Goto, Answer, RequestFields
  <1> QED BY <1>1, <1>2, <1>3, <1>4, OthersPass

(* Their routes, the copilot's and the handoff's, and the response's. *)
LEMMA RoutesPass ==
    ASSUME ConsoleInv, NEW t \in Threads,
           \/ VerdictRoute(t) \/ AssignmentRoute(t) \/ MemoryRoute(t) \/ TriageRoute(t)
           \/ NotesRoute(t) \/ CopilotRoute(t) \/ HandoffRoute(t)
           \/ ApproveRoute(t) \/ DispatchRoute(t) \/ RangeRoute(t)
    PROVE  AllPass
  <1>1. ASSUME NEW kind, kind # "sensor", NEW pc, BeginRecord(t, kind, pc) PROVE AllPass
    <2>1. PICK f \in 1 .. lastId, a \in Actors :
              Begin(t, kind, [pc |-> pc, then |-> kind, flow |-> f, actor |-> a])
      BY <1>1 DEF BeginRecord
    <2>2. PICK fields : fields = [pc |-> pc, then |-> kind, flow |-> f, actor |-> a]
      OBVIOUS
    <2>3. DOMAIN fields \subseteq Given /\ flows' = flows /\ Begin(t, kind, fields)
      BY <1>1, <2>1, <2>2 DEF Given, BeginRecord
    <2> QED BY <1>1, <2>3, BeginPasses
  <1>2. ASSUME NEW kind, kind # "sensor", NEW actors, BeginResponse(t, kind, actors) PROVE AllPass
    <2>1. PICK f \in 1 .. lastId, a \in actors :
              Begin(t, kind, [pc |-> kind, flow |-> f, actor |-> a])
      BY <1>2 DEF BeginResponse
    <2>2. PICK fields : fields = [pc |-> kind, flow |-> f, actor |-> a]
      OBVIOUS
    <2>3. DOMAIN fields \subseteq Given /\ flows' = flows /\ Begin(t, kind, fields)
      BY <1>2, <2>1, <2>2 DEF Given, BeginResponse
    <2> QED BY <1>2, <2>3, BeginPasses
  <1>3. ASSUME NEW kind, kind # "sensor", NEW f, NEW pc,
               Begin(t, kind, [pc |-> pc, flow |-> f]), flows' = flows
        PROVE  AllPass
    <2>1. PICK fields : fields = [pc |-> pc, flow |-> f]
      OBVIOUS
    <2>2. DOMAIN fields \subseteq Given /\ Begin(t, kind, fields)
      BY <1>3, <2>1 DEF Given
    <2> QED BY <1>3, <2>2, BeginPasses
  <1>4. CASE CopilotRoute(t) \/ HandoffRoute(t)
    BY <1>3, <1>4 DEF CopilotRoute, HandoffRoute, AdviceOnly
  <1> QED
    BY <1>1, <1>2, <1>4 DEF VerdictRoute, AssignmentRoute, MemoryRoute, TriageRoute, NotesRoute,
                            ApproveRoute, DispatchRoute, RangeRoute

(* Advice and the handoff. *)
LEMMA AdvicePasses ==
    ASSUME ConsoleInv, NEW t \in Threads,
           \/ AdviceRead(t) \/ CacheRead(t) \/ DiskCacheRead(t) \/ Asked(t) \/ BriefStored(t)
           \/ HandoffRow(t) \/ HandoffEvents(t)
    PROVE  AllPass
  <1>1. req[t] # Idle /\ DOMAIN req = Threads /\ DOMAIN req[t] = RequestFields
    BY RequestKnown DEF AdviceRead, CacheRead, DiskCacheRead, Asked, BriefStored,
                        HandoffRow, HandoffEvents, At, ConsoleInv, SharedTrue
  <1>2. RowsStay
    BY RewritesStay DEF AdviceRead, CacheRead, DiskCacheRead, Asked, BriefStored,
                        HandoffRow, HandoffEvents, AdviceOnly
  <1>3. CASE \E pc \in {"cache_disk", "ask", "brief_disk"} : Goto(t, pc)
    BY <1>1, <1>2, <1>3, GotoPasses DEF Stitching
  <1>4. CASE \E outcome \in {"local_corpus", "local_flow_brief", "flow_not_stored"} : Answer(t, outcome)
    BY <1>1, <1>2, <1>4, AnswerPasses
  <1>5. CASE \E brief : Advised(t, brief)
    <2>1. PICK brief : Advised(t, brief)
      BY <1>5
    <2>2. /\ \A u \in Threads \ {t} : req'[u] = req[u]
          /\ req'[t].kind = req[t].kind /\ req'[t].shape = req[t].shape
          /\ req'[t].pc = "reply" /\ req'[t].outcome = "gemini_grounded"
      BY <1>1, <2>1 DEF Advised, RequestFields
    <2> QED BY <1>1, <1>2, <2>2, EntitledPasses DEF Acknowledged, Stitching
  <1>6. CASE \E pc \in {"cache", "handoff_events"} : \E row : req' = [req EXCEPT ![t].row = row, ![t].pc = pc]
    <2>1. PICK pc \in {"cache", "handoff_events"} : \E row : req' = [req EXCEPT ![t].row = row, ![t].pc = pc]
      BY <1>6
    <2>2. /\ \A u \in Threads \ {t} : req'[u] = req[u]
          /\ req'[t].kind = req[t].kind /\ req'[t].shape = req[t].shape /\ req'[t].pc = pc
      BY <1>1, <2>1 DEF RequestFields
    <2> QED BY <1>1, <1>2, <2>1, <2>2, EntitledPasses DEF Acknowledged, Stitching
  <1>7. CASE HandoffEvents(t)
    <2>1. PICK outcome \in {"grounded_brief", "explanation_not_grounded"} : \E read :
              req' = [req EXCEPT ![t].read = read, ![t].pc = "reply", ![t].outcome = outcome]
      BY <1>7 DEF HandoffEvents
    <2>2. /\ \A u \in Threads \ {t} : req'[u] = req[u]
          /\ req'[t].kind = req[t].kind /\ req'[t].shape = req[t].shape
          /\ req'[t].pc = "reply" /\ req'[t].outcome = outcome
      BY <1>1, <2>1 DEF RequestFields
    <2> QED BY <1>1, <1>2, <2>1, <2>2, EntitledPasses DEF Acknowledged, Stitching
  <1>8. CASE AdviceRead(t) \/ HandoffRow(t)
    BY <1>4, <1>6, <1>8 DEF AdviceRead, HandoffRow
  <1>9. CASE CacheRead(t) \/ DiskCacheRead(t) \/ Asked(t) \/ BriefStored(t)
    BY <1>3, <1>4, <1>5, <1>9 DEF CacheRead, DiskCacheRead, Asked, BriefStored
  <1> QED BY <1>7, <1>8, <1>9

(* Receipts and containments are no part of what a row is either. *)
LEMMA ResponseStays ==
    ASSUME ConsoleInv, NEW t,
           \/ ReceiptStored(t) \/ Awaited(t) \/ CallbackStored(t) \/ ContainmentStored(t)
    PROVE  RowsStay
  <1>1. \A f \in DOMAIN flows : DOMAIN flows[f] = RowFields
    BY DEF ConsoleInv, SharedTrue, RowsTrue
  <1>2. CASE flows' = flows
    BY <1>2, RewritesStay
  <1>3. CASE ReceiptStored(t)
    BY <1>1, <1>3 DEF ReceiptStored, FlowReceipt, RowFields, RowsStay
  <1>4. CASE Awaited(t)
    <2>1. CASE \E f, path : PathMarked(f, path)
      BY <1>1, <2>1 DEF PathMarked, RowFields, RowsStay
    <2> QED BY <1>2, <1>4, <2>1 DEF Awaited
  <1>5. CASE CallbackStored(t)
    <2>1. PICK f, case, path : flows' = CallbackReceipt(f, case, path)
      BY <1>5 DEF CallbackStored
    <2> QED BY <1>1, <2>1 DEF CallbackReceipt, RowFields, RowsStay
  <1>6. CASE ContainmentStored(t)
    BY <1>1, <1>6 DEF ContainmentStored, RowFields, RowsStay
  <1> QED BY <1>3, <1>4, <1>5, <1>6

(* The response. *)
LEMMA ResponsePasses ==
    ASSUME ConsoleInv, NEW t \in Threads,
           \/ ApproveRead(t) \/ Recommend(t) \/ Decide(t) \/ ReceiptStored(t)
           \/ DispatchRead(t) \/ VerifySent(t) \/ CallbackSent(t) \/ WebhookSent(t) \/ CaseCreated(t)
           \/ Awaited(t) \/ CallbackStored(t)
           \/ ContainRead(t) \/ RollbackRead(t) \/ DropChecked(t) \/ Dropped(t) \/ Removed(t)
           \/ Probed(t) \/ Undone(t) \/ ContainmentStored(t)
    PROVE  AllPass
  <1>1. req[t] # Idle /\ DOMAIN req = Threads /\ DOMAIN req[t] = RequestFields /\ Control(req[t])
    BY RequestKnown DEF ApproveRead, Recommend, Decide, ReceiptStored, DispatchRead, VerifySent,
           CallbackSent, WebhookSent, CaseCreated, Awaited, CallbackStored, ContainRead,
           RollbackRead, DropChecked, Dropped, Removed, Probed, Undone, ContainmentStored,
           At, ConsoleInv, SharedTrue
  <1>2. req[t].pc \in Calling \cup {"approve", "recommend", "decide", "receipt", "dispatch",
           "contain", "rollback", "drop_check", "drop", "remove", "probe", "undo", "applied",
           "rolled_back"}
    BY DEF ApproveRead, Recommend, Decide, ReceiptStored, DispatchRead, VerifySent,
           CallbackSent, WebhookSent, CaseCreated, Awaited, CallbackStored, ContainRead,
           RollbackRead, DropChecked, Dropped, Removed, Probed, Undone, ContainmentStored,
           At, Calling
  <1>3. req[t].kind # "sensor"
    BY <1>1, <1>2 DEF Control
  <1>4. CASE ApproveRead(t) \/ Recommend(t) \/ ReceiptStored(t) \/ DispatchRead(t) \/ CaseCreated(t)
    <2>1. RowsStay
      BY <1>4, RewritesStay, ResponseStays DEF ApproveRead, Recommend, DispatchRead, CaseCreated
    <2>2. (\A u \in Threads \ {t} : req'[u] = req[u]) /\ req'[t].kind = req[t].kind
      <3>1. CASE ApproveRead(t)
        <4>1. CASE \E outcome : Answer(t, outcome)
          BY <1>1, <4>1 DEF Answer, RequestFields
        <4>2. CASE \E row, pc, book : req' = [req EXCEPT ![t].row = row, ![t].pc = pc, ![t].book = book]
          BY <1>1, <4>2 DEF RequestFields
        <4> QED BY <3>1, <4>1, <4>2 DEF ApproveRead
      <3>2. CASE Recommend(t) \/ ReceiptStored(t)
        BY <1>1, <3>2 DEF Recommend, ReceiptStored, RequestFields
      <3>3. CASE DispatchRead(t)
        <4>1. CASE \E outcome : Answer(t, outcome)
          BY <1>1, <4>1 DEF Answer, RequestFields
        <4>2. CASE \E row, book, pc : req' = [req EXCEPT ![t].row = row, ![t].book = book, ![t].pc = pc]
          BY <1>1, <4>2 DEF RequestFields
        <4>3. PICK f, approved : f = req[t].flow /\ approved = Books(f, {"approved"})
          OBVIOUS
        <4>4. \/ \E outcome : Answer(t, outcome)
              \/ req' = [req EXCEPT ![t].row = flows[f], ![t].book = FirstOf(approved),
                                   ![t].pc = IF keys.webhook THEN "case" ELSE "verify"]
          BY <3>3, <4>3 DEF DispatchRead
        <4> QED BY <4>1, <4>2, <4>4
      <3>4. CASE CaseCreated(t)
        BY <1>1, <3>4 DEF CaseCreated, RequestFields
      <3> QED BY <1>4, <3>1, <3>2, <3>3, <3>4
    <2> QED BY <1>1, <1>3, <2>1, <2>2, OthersPass
  <1>5. ASSUME RowsStay, \E x : Goto(t, x) \/ Answer(t, x) PROVE AllPass
    BY <1>1, <1>3, <1>5, GotoPasses, AnswerPasses
  <1>6. CASE Decide(t)
    <2>1. RowsStay
      BY <1>6, RewritesStay DEF Decide
    <2> QED BY <1>5, <1>6, <2>1 DEF Decide
  <1>7. CASE VerifySent(t) \/ CallbackSent(t) \/ WebhookSent(t)
    BY <1>5, <1>7, RewritesStay DEF VerifySent, CallbackSent, WebhookSent, Sent
  <1>8. CASE Awaited(t) \/ CallbackStored(t) \/ ContainmentStored(t)
    <2>1. RowsStay
      BY <1>8, ResponseStays
    <2>2. \E x : Goto(t, x) \/ Answer(t, x)
      BY <1>8 DEF Awaited, CallbackStored, ContainmentStored
    <2> QED BY <1>5, <2>1, <2>2
  <1>9. CASE ContainRead(t) \/ RollbackRead(t) \/ DropChecked(t) \/ Dropped(t) \/ Removed(t)
             \/ Probed(t) \/ Undone(t)
    <2>1. RowsStay
      BY <1>9, RewritesStay DEF ContainRead, RollbackRead, DropChecked, Dropped, Removed,
                                Probed, Undone, RangeOnly
    <2>2. \E x : Goto(t, x) \/ Answer(t, x)
      BY <1>9 DEF ContainRead, RollbackRead, DropChecked, Dropped, Removed, Probed, Undone, Verdict
    <2> QED BY <1>5, <2>1, <2>2
  <1> QED BY <1>4, <1>6, <1>7, <1>8, <1>9

(* Who is disturbed goes on all the same. *)
LEMMA DisturbedPasses ==
    ASSUME ConsoleInv, flows' = flows, req' = Disturbed
    PROVE  AllPass
  <1>1. ASSUME NEW u \in Threads PROVE Passes(req'[u], req[u])
    <2>1. CASE req[u] = Idle
      BY <2>1 DEF Passes, Disturbed
    <2>2. CASE req[u] # Idle
      <3>1. DOMAIN req[u] = RequestFields
        BY <2>2, RequestKnown
      <3>2. PICK r : r = req'[u] /\ r = [req[u] EXCEPT !.alone = FALSE]
        BY <2>2 DEF Disturbed
      <3>3. /\ r.kind = req[u].kind /\ r.shape = req[u].shape /\ r.pc = req[u].pc
            /\ r.outcome = req[u].outcome
        BY <3>1, <3>2 DEF RequestFields
      <3> QED BY <2>2, <3>2, <3>3 DEF Passes, Acknowledged
    <2> QED BY <2>1, <2>2
  <1> QED BY <1>1, RewritesStay DEF AllPass

(* A request that ends, or goes with its server, or rests. *)
LEMMA EndsPass ==
    ASSUME ConsoleInv, flows' = flows,
           \A u \in Threads : req'[u] = req[u] \/ req'[u] = Idle
    PROVE  AllPass
  <1>1. ASSUME NEW u \in Threads PROVE Passes(req'[u], req[u])
    BY DEF Passes, Acknowledged
  <1> QED BY <1>1, RewritesStay DEF AllPass

(* A step of a contract request. *)
LEMMA PostPasses ==
    ASSUME ConsoleInv, NEW t, PostStep(t)
    PROVE  AllPass
  <1>1. flows' = flows /\ req' = req
    BY DEF PostStep, VerifyKeyChecked, CallbackKeyChecked, LookedUp, VerifyLedgerChecked,
           CallbackLedgerChecked, VerifyAnswered, CallbackAnswered, KeyCommitted, N8nContinues,
           PostForgotten, PostOnly
  <1> QED BY <1>1, EndsPass

(* Any step of the console keeps the rows of acknowledged events, whatever      *)
(* thread takes it.                                                             *)
LEMMA NextPasses ==
    ASSUME ConsoleInv, Next
    PROVE  AllPass
  <1>1. ASSUME NEW t \in Threads, IntakeStep(t) PROVE AllPass
    BY <1>1, IntakeRoutesPass, SensorPasses, BurstPasses, SeedingPasses, PurgePasses DEF IntakeStep
  <1>2. ASSUME NEW t \in Threads, CorrelationStep(t) PROVE AllPass
    BY <1>2, StitchPasses, StitchBegins DEF CorrelationStep
  <1>3. ASSUME NEW t \in Threads, RecordStep(t) PROVE AllPass
    BY <1>3, RoutesPass, RecordsPass DEF RecordStep
  <1>4. ASSUME NEW t \in Threads, AdviceStep(t) PROVE AllPass
    BY <1>4, RoutesPass, AdvicePasses DEF AdviceStep
  <1>5. ASSUME NEW t \in Threads, ResponseStep(t) PROVE AllPass
    <2>1. CASE PostStep(t)
      BY <2>1, PostPasses
    <2>2. CASE Resent(t)
      BY <2>2, DisturbedPasses DEF Resent
    <2> QED BY <1>5, <2>1, <2>2, RoutesPass, ResponsePasses DEF ResponseStep
  <1>6. ASSUME NEW t \in Threads, Reply(t) PROVE AllPass
    BY <1>6, EndsPass DEF Reply, ConsoleInv, SharedTrue
  <1>7. CASE Crash
    BY <1>7, EndsPass DEF Crash
  <1>8. CASE VictimToggled
    BY <1>8, DisturbedPasses DEF VictimToggled
  <1> QED BY <1>1, <1>2, <1>3, <1>4, <1>5, <1>6, <1>7, <1>8 DEF Next

(* What passes keeps the rows of what is acknowledged. *)
LEMMA PassesKeep ==
    ASSUME ConsoleInv, ConsoleInv', RowsInv, AllPass
    PROVE  RowsInv' /\ \A s \in Shapes : KeptRows(s) => KeptRows(s)'
  <1>1. EventRows' /\ \A s \in Shapes : KeptRows(s) => KeptIn(s, flows')
    BY RowsLast DEF RowsInv, AllPass
  <1>2. ASSUME NEW t \in Threads, req'[t] # Idle, req'[t].kind = "sensor"
        PROVE  /\ req'[t].shape \in Shapes
               /\ Acknowledged(req'[t]) => KeptIn(req'[t].shape, flows')
    <2>1. Passes(req'[t], req[t])
      BY DEF AllPass
    <2>2. CASE req[t] = Idle
      <3>1. req'[t].pc = "event"
        BY <1>2, <2>1, <2>2 DEF Passes
      <3>2. Control(req'[t])
        BY <1>2 DEF ConsoleInv, RequestTrue, TrueRequest
      <3> QED BY <3>1, <3>2 DEF Control, Sensing, Acknowledged, Stitching
    <2>3. CASE req[t] # Idle
      <3>1. /\ req'[t].shape = req[t].shape /\ req[t].kind = "sensor"
            /\ Acknowledged(req'[t]) => Acknowledged(req[t]) \/ KeptIn(req[t].shape, flows')
        BY <1>2, <2>1, <2>3 DEF Passes
      <3>2. /\ req[t].shape \in Shapes
            /\ Acknowledged(req[t]) => KeptRows(req[t].shape)
        BY <2>3, <3>1 DEF RowsInv, Acknowledges
      <3> QED BY <1>1, <3>1, <3>2
    <2> QED BY <2>2, <2>3
  <1> QED BY <1>1, <1>2 DEF RowsInv, Acknowledges, KeptRows, Acknowledged

-----------------------------------------------------------------------------
(* What was handed over: the request that is waited for is the sensor's, about  *)
(* the line at hand, and a flow that was handled has its row.                   *)
WaitsForIt ==
    eve.pc = "await" =>
        /\ req[eve.thread] # Idle /\ req[eve.thread].kind = "sensor"
        /\ req[eve.thread].shape = Stream[CurrentLine]
HandledKept ==
    \A i \in DOMAIN eve.handled :
        Stream[eve.handled[i]] # None => KeptRows(Stream[eve.handled[i]])

(* The inductive invariant of what the follower posts. *)
PostedInv == FollowerInv /\ FileTrue(eve) /\ RowsInv /\ WaitsForIt /\ HandledKept

(* A line is a shape or none. *)
LEMMA LineShapes ==
    ASSUME NEW n \in Lines
    PROVE  Stream[n] \in Shapes \cup {None}
  BY StreamAssumption DEF Lines

(* What was handled stays what it is when rows that were kept are. *)
LEMMA HandledStays ==
    ASSUME PostedInv, \A s \in Shapes : KeptRows(s) => KeptRows(s)', eve'.handled = eve.handled
    PROVE  HandledKept'
  <1>1. ASSUME NEW i \in DOMAIN eve.handled, Stream[eve.handled[i]] # None
        PROVE  KeptRows(Stream[eve.handled[i]])'
    <2>1. PICK n : n = eve.handled[i]
      OBVIOUS
    <2>2. n \in Lines
      BY <2>1 DEF PostedInv, FileTrue, TakenTrue
    <2>3. PICK s : s = Stream[n]
      OBVIOUS
    <2>4. s \in Shapes /\ KeptRows(s)
      BY <1>1, <2>1, <2>2, <2>3, LineShapes DEF PostedInv, HandledKept
    <2>5. KeptRows(s)'
      BY <2>4
    <2>6. eve'.handled[i] = n
      BY <2>1
    <2> QED BY <2>3, <2>5, <2>6 DEF KeptRows
  <1> QED BY <1>1 DEF HandledKept, KeptRows

(* A line that is done with was no flow, or has its row. *)
LEMMA HandledGrows ==
    ASSUME PostedInv, \A s \in Shapes : KeptRows(s) => KeptRows(s)',
           eve.todo # {}, eve' = LineDone,
           Stream[CurrentLine] # None => KeptRows(Stream[CurrentLine])
    PROVE  HandledKept'
  <1>1. PICK h, n : h = eve.handled /\ n = CurrentLine
    OBVIOUS
  <1>2. h \in Seq(Lines)
    BY <1>1 DEF PostedInv, FileTrue, TakenTrue
  <1>3. eve'.handled = Append(h, n)
    BY <1>1 DEF LineDone, PostedInv, FollowerInv, EveTrue, EveFields
  <1>4. PICK g : g = Append(h, n)
    OBVIOUS
  <1>5. n \in Lines
    BY <1>1, LineAtHand DEF PostedInv, FollowerInv
  <1>6. ASSUME NEW m, m \in Lines, Stream[m] # None, KeptRows(Stream[m])
        PROVE  KeptRows(Stream[m])'
    <2>1. PICK s : s = Stream[m]
      OBVIOUS
    <2>2. s \in Shapes
      BY <1>6, <2>1, LineShapes
    <2>3. KeptRows(s)'
      BY <1>6, <2>1, <2>2
    <2> QED BY <2>1, <2>3 DEF KeptRows
  <1>7. ASSUME NEW i \in DOMAIN g PROVE g[i] = n \/ (i \in DOMAIN h /\ g[i] = h[i])
    <2>1. DOMAIN g = 1 .. Len(h) + 1 /\ DOMAIN h = 1 .. Len(h) /\ Len(h) \in Nat
      BY <1>2, <1>4, <1>5
    <2>2. g[Len(h) + 1] = n /\ \A j \in 1 .. Len(h) : g[j] = h[j]
      BY <1>2, <1>4, <1>5
    <2> QED BY <2>1, <2>2
  <1>8. ASSUME NEW i \in DOMAIN g, Stream[g[i]] # None PROVE KeptRows(Stream[g[i]])'
    <2>1. PICK m : m = g[i]
      OBVIOUS
    <2>2. m \in Lines /\ KeptRows(Stream[m])
      <3>1. CASE m = n
        BY <1>1, <1>5, <1>8, <2>1, <3>1
      <3>2. CASE i \in DOMAIN h /\ m = h[i]
        BY <1>1, <1>2, <1>8, <2>1, <3>2 DEF PostedInv, HandledKept
      <3> QED BY <1>7, <2>1, <3>1, <3>2
    <2>3. KeptRows(Stream[m])'
      BY <1>6, <1>8, <2>1, <2>2
    <2> QED BY <1>4, <2>1, <2>3 DEF KeptRows
  <1>9. eve'.handled = g
    BY <1>3, <1>4
  <1> QED BY <1>8, <1>9 DEF HandledKept, KeptRows

(* Rows and requests that are left alone. *)
LEMMA RestPasses ==
    ASSUME ConsoleInv, UNCHANGED <<flows, req>>
    PROVE  AllPass
  BY EndsPass

(* A step of the console, or one that leaves it alone, that changes neither     *)
(* what was handled nor what is waited for.                                     *)
LEMMA PostedStays ==
    ASSUME PostedInv, FollowerInv', FileTrue(eve)', AllPass, eve'.handled = eve.handled,
           eve'.pc = "await" => /\ eve.pc = "await" /\ eve'.thread = eve.thread
                                /\ eve'.todo = eve.todo /\ req'[eve.thread] # Idle
    PROVE  PostedInv'
  <1>1. RowsInv' /\ \A s \in Shapes : KeptRows(s) => KeptRows(s)'
    BY PassesKeep DEF PostedInv, FollowerInv
  <1>2. HandledKept'
    BY <1>1, HandledStays
  <1>3. WaitsForIt'
    <2> SUFFICES ASSUME eve'.pc = "await"
                 PROVE  /\ req'[eve'.thread] # Idle /\ req'[eve'.thread].kind = "sensor"
                        /\ req'[eve'.thread].shape = Stream[CurrentLine']
      BY DEF WaitsForIt
    <2>1. PICK t \in Threads : t = eve.thread
      BY DEF PostedInv, FollowerInv, EveTrue
    <2>2. req[t] # Idle /\ req[t].kind = "sensor" /\ req[t].shape = Stream[CurrentLine]
      BY <2>1 DEF PostedInv, WaitsForIt
    <2>3. eve'.thread = t /\ req'[t] # Idle /\ eve'.todo = eve.todo
      BY <2>1
    <2>4. Passes(req'[t], req[t])
      BY DEF AllPass
    <2>5. CurrentLine' = CurrentLine
      BY <2>3 DEF CurrentLine
    <2> QED BY <2>2, <2>3, <2>4, <2>5 DEF Passes
  <1> QED BY <1>1, <1>2, <1>3 DEF PostedInv

(* What the follower does to itself when it neither posts nor waits. *)
LEMMA HandledSame ==
    ASSUME EveTrue, SuricataWrites \/ Rotated \/ EveLooked \/ EveRead \/ eve' = Dies \/ FollowerStarts
    PROVE  /\ eve'.handled = eve.handled
           /\ eve'.pc = "await" => eve.pc = "await" /\ eve'.thread = eve.thread /\ eve'.todo = eve.todo
  <1>1. DOMAIN eve = EveFields
    BY DEF EveTrue
  <1>2. CASE SuricataWrites
    <2>1. PICK h, due : eve' = [eve EXCEPT !.file = TRUE, !.text = Append(@, h), !.written = h, !.due = due]
      BY <1>2 DEF SuricataWrites
    <2> QED BY <1>1, <2>1 DEF EveFields
  <1>3. CASE Rotated
    BY <1>1, <1>3 DEF Rotated, EveFields
  <1>4. CASE EveLooked
    <2>1. eve.pc = "look"
      BY <1>4 DEF EveLooked
    <2>2. ASSUME NEW offset, NEW positioned, NEW e, e = From(offset, positioned)
          PROVE  DOMAIN e = EveFields /\ e.handled = eve.handled /\ e.pc = "look"
      BY <1>1, <2>1, <2>2 DEF From, EveFields
    <2>3. CASE eve' = [From(0, FALSE) EXCEPT !.due = {}]
      <3>1. PICK e : e = From(0, FALSE)
        OBVIOUS
      <3>2. eve' = [e EXCEPT !.due = {}]
        BY <2>3, <3>1
      <3> QED BY <2>2, <3>1, <3>2 DEF EveFields
    <2>4. CASE eve' = From(Len(eve.text), TRUE)
      BY <2>2, <2>4
    <2>5. CASE eve' = [From(0, TRUE) EXCEPT !.pc = IF Len(eve.text) > 0 THEN "read" ELSE "look"]
      <3>1. PICK e : e = From(0, TRUE)
        OBVIOUS
      <3>2. PICK pc \in {"look", "read"} : pc = IF Len(eve.text) > 0 THEN "read" ELSE "look"
        OBVIOUS
      <3>3. eve' = [e EXCEPT !.pc = pc]
        BY <2>5, <3>1, <3>2
      <3>4. DOMAIN e = EveFields /\ e.handled = eve.handled
        BY <2>2, <3>1
      <3>5. eve'.handled = e.handled /\ eve'.pc = pc
        BY ONLY <3>3, <3>4 DEF EveFields
      <3> QED BY <3>2, <3>4, <3>5
    <2>6. CASE eve' = [eve EXCEPT !.pc = IF Len(eve.text) > eve.offset THEN "read" ELSE "look",
                                  !.blind = eve.blind \/ eve.stale]
      <3>1. PICK pc \in {"look", "read"} : pc = IF Len(eve.text) > eve.offset THEN "read" ELSE "look"
        OBVIOUS
      <3>2. eve' = [eve EXCEPT !.pc = pc, !.blind = eve.blind \/ eve.stale]
        BY <2>6, <3>1
      <3> QED BY <1>1, <3>2 DEF EveFields
    <2> QED BY <1>4, <2>3, <2>4, <2>5, <2>6 DEF EveLooked
  <1>5. CASE eve' = Dies
    BY <1>1, <1>5 DEF Dies, EveFields
  <1>6. CASE EveRead
    <2>1. ASSUME NEW size, NEW all,
                 eve' = [eve EXCEPT !.offset = IF size > @ THEN size ELSE @,
                                    !.partial = RestOf(all), !.todo = LinesIn(all),
                                    !.pc = IF LinesIn(all) = {} THEN "look" ELSE "lines",
                                    !.blind = @ \/ (eve.stale /\ size > eve.offset)]
          PROVE  eve'.handled = eve.handled /\ eve'.pc # "await"
      <3>1. PICK pc : pc \in {"look", "lines"} /\ pc = IF LinesIn(all) = {} THEN "look" ELSE "lines"
        OBVIOUS
      <3>2. eve'.handled = eve.handled /\ eve'.pc = pc
        BY ONLY <1>1, <2>1, <3>1 DEF EveFields
      <3> QED BY <3>1, <3>2
    <2> QED BY <1>5, <1>6, <2>1 DEF EveRead
  <1>7. CASE FollowerStarts
    <2>1. PICK over : over = Over(Fresh, eve)
      OBVIOUS
    <2>2. DOMAIN over = EveFields /\ over.handled = eve.handled /\ over.pc = "look"
      BY <1>1, <2>1 DEF Over, Fresh, EveFields
    <2>3. eve' = [over EXCEPT !.due = {}, !.stale = FALSE, !.blind = FALSE]
      BY <1>7, <2>1 DEF FollowerStarts
    <2> QED BY <2>2, <2>3 DEF EveFields
  <1> QED BY <1>2, <1>3, <1>4, <1>5, <1>6, <1>7

(* A line is posted, on a thread that was free. *)
LEMMA PostedPosts ==
    ASSUME PostedInv, FollowerInv', FileTrue(eve)', NEW t \in Threads, LinePosted(t)
    PROVE  PostedInv'
  <1>1. PICK s : s = Stream[CurrentLine]
    OBVIOUS
  <1>2. PICK fields : fields = [pc |-> "event", shape |-> s]
    OBVIOUS
  <1>3. /\ Begin(t, "sensor", fields) /\ flows' = flows /\ DOMAIN fields \subseteq Given
        /\ DOMAIN fields = {"pc", "shape"} /\ fields.pc = "event" /\ fields.shape = s
    BY <1>1, <1>2 DEF LinePosted, BeginIntake, Given
  <1>4. AllPass
    BY <1>3, BeginPasses DEF PostedInv, FollowerInv
  <1>5. RowsInv' /\ \A x \in Shapes : KeptRows(x) => KeptRows(x)'
    BY <1>4, PassesKeep DEF PostedInv, FollowerInv
  <1>6. /\ eve'.handled = eve.handled /\ eve'.thread = t /\ eve'.todo = eve.todo
    BY DEF LinePosted, PostedInv, FollowerInv, EveTrue, EveFields
  <1>7. HandledKept'
    BY <1>5, <1>6, HandledStays
  <1>8. WaitsForIt'
    <2>1. req'[t].kind = "sensor" /\ req'[t].shape = s /\ DOMAIN req'[t] = RequestFields
      BY <1>3, BeginCarries DEF PostedInv, FollowerInv
    <2>2. req'[t] # Idle
      <3>1. DOMAIN Idle = {"kind"}
        BY DEF Idle
      <3> QED BY <2>1, <3>1 DEF RequestFields
    <2>3. CurrentLine' = CurrentLine
      BY <1>6 DEF CurrentLine
    <2> QED BY <1>1, <1>6, <2>1, <2>2, <2>3 DEF WaitsForIt
  <1> QED BY <1>5, <1>7, <1>8 DEF PostedInv

(* The answer that is waited for comes. *)
LEMMA PostedAnswers ==
    ASSUME PostedInv, FollowerInv', FileTrue(eve)', PostAnswered
    PROVE  PostedInv'
  <1>1. PICK t \in Threads : t = eve.thread
    BY DEF PostedInv, FollowerInv, EveTrue, PostAnswered
  <1>2. /\ eve.pc = "await" /\ eve.todo # {} /\ req[t] # Idle /\ req[t].pc = "reply"
        /\ req[t].kind = "sensor" /\ req[t].shape = Stream[CurrentLine]
    BY <1>1 DEF PostedInv, FollowerInv, EveTrue, PostAnswered, WaitsForIt, Reply, At
  <1>3. AllPass
    <2>1. flows' = flows /\ \A u \in Threads : req'[u] = req[u] \/ req'[u] = Idle
      BY <1>1 DEF PostAnswered, Reply, PostedInv, FollowerInv, ConsoleInv, SharedTrue
    <2> QED BY <2>1, EndsPass DEF PostedInv, FollowerInv
  <1>4. CASE eve' = Dies
    <2>1. eve'.handled = eve.handled /\ eve'.pc # "await"
      BY <1>4 DEF Dies, PostedInv, FollowerInv, EveTrue, EveFields
    <2> QED BY <1>3, <2>1, PostedStays
  <1>5. CASE req[t].outcome \in {"stored", "duplicate"} /\ eve' = LineDone
    <2>1. RowsInv' /\ \A s \in Shapes : KeptRows(s) => KeptRows(s)'
      BY <1>3, PassesKeep DEF PostedInv, FollowerInv
    <2>2. KeptRows(Stream[CurrentLine])
      <3>1. PICK r : r = req[t]
        OBVIOUS
      <3>2. Acknowledges(r) /\ r.kind = "sensor" /\ Acknowledged(r)
        BY <1>2, <1>5, <3>1 DEF PostedInv, RowsInv, Acknowledged
      <3>3. KeptRows(r.shape)
        BY <3>2 DEF Acknowledges
      <3> QED BY <1>2, <3>1, <3>3
    <2>3. HandledKept'
      BY <1>2, <1>5, <2>1, <2>2, HandledGrows
    <2>4. eve'.pc # "await"
      BY <1>5 DEF LineDone, PostedInv, FollowerInv, EveTrue, EveFields
    <2> QED BY <2>1, <2>3, <2>4 DEF PostedInv, WaitsForIt
  <1> QED BY <1>1, <1>4, <1>5 DEF PostAnswered

(* A line that is no flow is passed. *)
LEMMA PostedPasses ==
    ASSUME PostedInv, FollowerInv', FileTrue(eve)', LinePassed
    PROVE  PostedInv'
  <1>1. AllPass
    BY RestPasses DEF LinePassed, consoleVars, PostedInv, FollowerInv
  <1>2. RowsInv' /\ \A s \in Shapes : KeptRows(s) => KeptRows(s)'
    BY <1>1, PassesKeep DEF PostedInv, FollowerInv
  <1>3. eve.todo # {} /\ Stream[CurrentLine] = None /\ eve' = LineDone
    BY DEF LinePassed, PostedInv, FollowerInv, EveTrue
  <1>4. HandledKept'
    BY <1>2, <1>3, HandledGrows
  <1>5. eve'.pc # "await"
    BY <1>3 DEF LineDone, PostedInv, FollowerInv, EveTrue, EveFields
  <1> QED BY <1>2, <1>4, <1>5 DEF PostedInv, WaitsForIt

(* Every step of the console and of its follower. *)
LEMMA PostedKeeps ==
    ASSUME PostedInv, [FollowedNext]_followerVars
    PROVE  PostedInv'
  <1>1. FollowerInv' /\ FileTrue(eve)'
    <2>0. EveTrue /\ FileTrue(eve)
      BY DEF PostedInv, FollowerInv
    <2>1. FileTrue(eve')
      BY <2>0, FileKeeps
    <2>2. ASSUME FollowedNext PROVE FollowerInv'
      BY <2>2, FollowerKeeps DEF PostedInv
    <2>3. ASSUME UNCHANGED followerVars PROVE FollowerInv'
      <3>1. Rests /\ eve' = eve
        BY <2>3 DEF followerVars, consoleVars, Rests
      <3> QED BY <2>1, <3>1, ConsoleRests DEF PostedInv, FollowerInv, EveTrue
    <2>4. FollowerInv'
      BY <2>2, <2>3
    <2>5. FileTrue(eve)'
      BY <2>1 DEF FileTrue, TextTrue, PlaceTrue, TakenTrue, DueTrue, Taken, Unread, FirstHalfAt, SecondHalf
    <2> QED BY <2>4, <2>5
  <1>2. EveTrue /\ ConsoleInv
    BY DEF PostedInv, FollowerInv
  <1>3. CASE Next /\ UNCHANGED eve /\ (eve.pc = "await" => req'[eve.thread] # Idle)
    BY <1>1, <1>2, <1>3, NextPasses, PostedStays
  <1>4. CASE UNCHANGED followerVars
    <2>1. AllPass
      BY <1>2, <1>4, RestPasses DEF followerVars, consoleVars
    <2>2. eve.pc = "await" => req'[eve.thread] # Idle
      BY <1>4 DEF PostedInv, WaitsForIt, followerVars, consoleVars
    <2> QED BY <1>1, <1>4, <2>1, <2>2, PostedStays DEF followerVars
  <1>5. CASE SuricataWrites \/ Rotated \/ EveLooked \/ EveRead \/ FollowerStops \/ FollowerStarts
    <2>1. flows' = flows /\ req' = req
      BY <1>5 DEF SuricataWrites, Rotated, EveLooked, EveRead, FollowerStops, FollowerStarts, consoleVars
    <2>2. AllPass
      BY <1>2, <2>1, RestPasses
    <2>3. /\ eve'.handled = eve.handled
          /\ eve'.pc = "await" => eve.pc = "await" /\ eve'.thread = eve.thread /\ eve'.todo = eve.todo
      BY <1>2, <1>5, HandledSame DEF FollowerStops
    <2>4. eve.pc = "await" => req'[eve.thread] # Idle
      BY <2>1 DEF PostedInv, WaitsForIt
    <2> QED BY <1>1, <2>2, <2>3, <2>4, PostedStays
  <1>6. CASE LinePassed
    BY <1>1, <1>6, PostedPasses
  <1>7. ASSUME NEW t \in Threads, LinePosted(t) PROVE PostedInv'
    BY <1>1, <1>7, PostedPosts
  <1>8. CASE PostAnswered
    BY <1>1, <1>8, PostedAnswers
  <1>9. CASE ConsoleGone
    <2>1. flows' = flows /\ (\A u \in Threads : req'[u] = Idle) /\ eve' = Dies
      BY <1>9 DEF ConsoleGone, Crash
    <2>2. AllPass
      BY <1>2, <2>1, EndsPass
    <2>3. eve'.handled = eve.handled /\ eve'.pc # "await"
      BY <1>2, <2>1 DEF Dies, EveTrue, EveFields
    <2> QED BY <1>1, <2>2, <2>3, PostedStays
  <1> QED BY <1>3, <1>4, <1>5, <1>6, <1>7, <1>8, <1>9 DEF FollowedNext

(* At the start nobody has posted anything. *)
LEMMA PostedBegins == FollowedInit => PostedInv
  <1> SUFFICES ASSUME FollowedInit PROVE PostedInv
    OBVIOUS
  <1>1. FollowerInv /\ FileTrue(eve)
    BY FollowerBegins, FileBegins
  <1>2. RowsInv
    BY DEF FollowedInit, Init, RowsInv, EventRows
  <1>3. eve.pc = "look" /\ eve.handled = <<>>
    BY DEF FollowedInit, Over, Fresh
  <1> QED BY <1>1, <1>2, <1>3 DEF PostedInv, WaitsForIt, HandledKept

(* The invariant of the console, its follower and the file between them.        *)
THEOREM PostedInvHolds == FollowedSpec => []PostedInv
  <1>1. PostedInv /\ [FollowedNext]_followerVars => PostedInv'
    BY PostedKeeps
  <1> QED BY <1>1, PostedBegins, PTL DEF FollowedSpec

(* A line that is due and was not handled comes after all that were, and the    *)
(* follower has not caught up with it unless its second half is unwritten.      *)
LEMMA DueLineAhead ==
    ASSUME EveTrue, FileTrue(eve), ~eve.blind, eve.pc # "dead",
           NEW n \in eve.due, n \notin ToSet(eve.handled)
    PROVE  /\ \A k \in ToSet(eve.handled) : k < n
           /\ CaughtUp => eve.written < 2 * n
  <1>1. PICK e : e = eve
    OBVIOUS
  <1>2. /\ TextTrue(e) /\ PlaceTrue(e) /\ TakenTrue(e) /\ DueTrue(e)
        /\ n \in Nat /\ e.offset \in Nat /\ Len(e.text) \in Nat /\ e.written \in Nat
        /\ e.positioned
    BY <1>1 DEF FileTrue, PlaceTrue, DueTrue, EveTrue
  <1>3. ASSUME NEW k \in ToSet(e.handled) PROVE k \in Nat /\ k \in Taken(e)
    BY <1>2 DEF TakenTrue, Taken, ToSet, Lines
  <1>4. CASE n \in e.todo
    <2>1. \A k \in ToSet(e.handled) : k < n
      BY <1>2, <1>4 DEF TakenTrue
    <2>2. e.pc # "look"
      BY <1>2, <1>4 DEF PlaceTrue
    <2> QED BY <1>1, <2>1, <2>2 DEF CaughtUp
  <1>5. CASE n \notin Taken(e)
    <2>1. PICK i \in Nat : /\ FirstHalfAt(e, n, i)
                           /\ Unread(e, i) \/ (i = e.offset /\ e.partial # <<>>)
      BY <1>1, <1>2, <1>5 DEF DueTrue
    <2>2. i \in 1 .. Len(e.text) /\ e.text[i] = 2 * n - 1
      BY <2>1 DEF FirstHalfAt
    <2>3. Unread(e, i) \/ (~e.stale /\ e.partial = <<e.text[i]>>)
      BY <1>1, <1>2, <2>1 DEF Unread, PlaceTrue
    <2>4. ASSUME NEW k \in ToSet(e.handled) PROVE k < n
      <3>1. 2 * k < e.text[i]
        <4>1. CASE Unread(e, i)
          BY <1>2, <1>3, <2>2, <4>1 DEF TakenTrue
        <4>2. CASE e.partial = <<e.text[i]>>
          <5>1. 1 \in 1 .. Len(e.partial) /\ e.partial[1] = e.text[i]
            BY <4>2
          <5> QED BY <1>2, <1>3, <5>1 DEF TakenTrue
        <4> QED BY <2>3, <4>1, <4>2
      <3> QED BY <1>2, <1>3, <2>2, <3>1
    <2>5. ASSUME CaughtUp PROVE e.written < 2 * n
      <3>1. ~e.stale /\ e.offset = Len(e.text)
        BY <1>1, <2>5 DEF CaughtUp
      <3>2. i = Len(e.text)
        BY <1>2, <2>1, <2>2, <3>1 DEF Unread
      <3>3. e.text[i] = e.written - Len(e.text) + i
        BY <1>2, <2>2 DEF TextTrue
      <3>4. PICK a, b : a = e.written /\ b = Len(e.text) /\ a \in Nat /\ b \in Nat
        BY <1>2
      <3>5. 2 * n - 1 = a - b + b
        BY <2>2, <3>2, <3>3, <3>4
      <3>6. a < 2 * n
        BY ONLY <1>2, <3>4, <3>5
      <3> QED BY <3>4, <3>6
    <2> QED BY <1>1, <2>4, <2>5
  <1> QED BY <1>1, <1>4, <1>5 DEF Taken

(* No line is handled twice or skipped, and what was handled has its row. *)
LEMMA FollowedLines == PostedInv => LinesFollowed
  <1> SUFFICES ASSUME PostedInv PROVE LinesFollowed
    OBVIOUS
  <1>1. EveTrue /\ FileTrue(eve)
    BY DEF PostedInv, FollowerInv
  <1>2. \A i, j \in DOMAIN eve.handled : i < j => eve.handled[i] < eve.handled[j]
    BY <1>1 DEF FileTrue, TakenTrue
  <1>3. ASSUME NEW n \in ToSet(eve.handled), Stream[n] # None
        PROVE  Shape[Stream[n]].noisy \/ BridgeRows(Stream[n]) # {}
    <2>1. PICK i \in DOMAIN eve.handled : n = eve.handled[i]
      BY DEF ToSet
    <2>2. KeptRows(Stream[n])
      BY <1>3, <2>1 DEF PostedInv, HandledKept
    <2> QED BY <2>2 DEF KeptRows, KeptIn, BridgeRows
  <1>4. ASSUME ~eve.blind, eve.pc # "dead", NEW n \in eve.due, n \notin ToSet(eve.handled)
        PROVE  /\ \A k \in ToSet(eve.handled) : k < n
               /\ CaughtUp => eve.written < 2 * n
    BY <1>1, <1>4, DueLineAhead
  <1> QED BY <1>2, <1>3, <1>4 DEF LinesFollowed

(* An event has one row, and after a sensor request that ran alone its campaign. *)
LEMMA EventsStoredOnce == ConsoleInv => EventStoredOnce
  <1> SUFFICES ASSUME ConsoleInv PROVE EventStoredOnce
    OBVIOUS
  <1>1. ASSUME NEW s \in Shapes PROVE Cardinality(BridgeRows(s)) <= 1
    <2>1. CASE BridgeRows(s) = {}
      BY <2>1, FS_EmptySet
    <2>2. CASE BridgeRows(s) # {}
      <3>1. PICK f : f \in BridgeRows(s)
        BY <2>2
      <3>2. s # None
        BY ConsoleAssumption
      <3>3. BridgeRows(s) = {f}
        BY <3>1, <3>2 DEF BridgeRows, ConsoleInv, SharedTrue, RowsTrue
      <3> QED BY <3>3, FS_Singleton
    <2> QED BY <2>1, <2>2
  <1>2. ASSUME NEW t \in Threads, LoneTold(t, "sensor", {"stored", "duplicate"})
        PROVE  /\ BridgeRows(req[t].shape) # {}
               /\ Told(t, {"stored"}) => req[t].shape \in campaigns
    <2>1. /\ EventAlone(req[t]) /\ req[t].kind = "sensor" /\ req[t].pc = "reply"
          /\ req[t].outcome \in {"stored", "duplicate"}
      BY <1>2 DEF LoneTold, Told, At, ConsoleInv, RequestTrue, TrueRequest, AloneTrue
    <2> QED BY <2>1 DEF EventAlone, Told
  <1> QED BY <1>1, <1>2 DEF EventStoredOnce

(* A replay of the scenarios that ran alone leaves one row of them. *)
LEMMA ScenariosStoredOnce == ConsoleInv => OneScenarioRow
  <1> SUFFICES ASSUME ConsoleInv, NEW t \in Threads, LoneTold(t, "scenarios", {"correlated"})
               PROVE  Cardinality(ScenarioRows) = 1
    BY DEF OneScenarioRow
  <1>1. ScenarioAlone(req[t]) /\ req[t].kind = "scenarios" /\ req[t].pc = "reply"
        /\ req[t].outcome = "correlated"
    BY DEF LoneTold, Told, At, ConsoleInv, RequestTrue, TrueRequest, AloneTrue
  <1>2. PICK f : ScenarioRows = {f}
    BY <1>1 DEF ScenarioAlone
  <1> QED BY <1>2, FS_Singleton

(* No observation has two rows once a request of its kind has run alone, and    *)
(* none that Suricata wrote while it was followed is passed over: in however    *)
(* many pieces it is read, whatever file takes the place of the first, and      *)
(* whatever other threads and crashes of the console do between a post and its  *)
(* answer.                                                                      *)
THEOREM RowsStoredOnceHolds == FollowedSpec => []RowsStoredOnce
  <1>1. PostedInv => RowsStoredOnce
    BY FollowedLines, EventsStoredOnce, ScenariosStoredOnce DEF PostedInv, FollowerInv, RowsStoredOnce
  <1> QED BY <1>1, PostedInvHolds, PTL
=============================================================================
