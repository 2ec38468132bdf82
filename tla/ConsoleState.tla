---------------------------- MODULE ConsoleState ----------------------------
(* What the request threads of the live console share: live_flows and its       *)
(* campaigns, the incidents, the SOAR ledger as the console sees it, the         *)
(* idempotency keys of the contract server, TheHive's outbox, the DROP rules of  *)
(* the range's victim, and what each thread is doing.  A step of a thread is one *)
(* transaction or one external call; every handler of the console is a sequence  *)
(* of such steps with no lock across them.                                       *)
EXTENDS Naturals, Sequences, FiniteSets, TLC

CONSTANTS
    Threads,        \* request threads of the server, as slots
    Shapes,         \* what a flow can look like; a sensor event is identified by its shape
    Shape,          \* [Shapes -> [range, noisy (by the text of its observation), attack, at, tuple, pair, service, space]]
    Scenario,       \* the shape of the labelled scenario
    Recorded,       \* the shape of the recorded study vector
    Notable,        \* the shape of the seeded bridge row
    Supplied,       \* the shapes a client ingests as flows
    Actors,
    Budgets,        \* [uses: how many requests of each kind, serial: kinds that run by themselves]
    BurstSize,      \* rows of one replay
    MaxFlows,
    None

ASSUME ConsoleAssumption ==
    /\ {Scenario, Recorded, Notable} \cup Supplied \subseteq Shapes
    /\ \A s \in Shapes : Shape[s].at \in Nat
    /\ Shape[Scenario].attack /\ Shape[Recorded].attack     \* what is seeded scores Attack
    /\ MaxFlows \in Nat /\ BurstSize \in Nat
    /\ None \notin Shapes
    /\ None \notin {"stored", "duplicate", "correlated", "recorded", "approved", "applied",
                    "rolled_back", "gemini_grounded", "grounded_brief"}

VARIABLES
    flows,          \* [flow_id -> row] of the rows stored now
    lastId,         \* sqlite_sequence: the largest flow_id ever given
    campaigns,      \* campaign ids
    store,          \* incidents and the corrections made to them
    books,          \* the ledger: playbook records in order of creation
    keys,           \* idempotency keys: in memory, on disk, and their history
    cases,          \* TheHive's outbox: candidate of each case
    range,          \* the victim: running, and its number of DROP rules
    notes,          \* context_memory by entity and service; analyst_notes and
                    \* triage_events; the copilot's briefs, in memory and stored
    req,            \* what each thread does
    post,           \* the contract request a thread's client has in flight
    budget          \* requests and mishaps still allowed

consoleVars == <<flows, lastId, campaigns, store, books, keys, cases, range, notes, req, post, budget>>

Idle == [kind |-> None]
NoPost == [pc |-> None]

(* A row of live_flows.  born is not stored: it tells rows with one id apart.    *)
Row(label, shape, event, born) ==
    [label |-> label, shape |-> shape, event |-> event, born |-> born,
     playbook |-> None, receipt |-> FALSE, recorded |-> 0, path |-> None,
     containment |-> None, checked |-> FALSE,
     verdict |-> None, triage |-> None, assignee |-> None, stamp |-> None]

Candidate(f) == f                       \* "live_flow:<flow_id>"

Attacks == {f \in DOMAIN flows : Shape[flows[f].shape].attack}

(* Without AUTOINCREMENT SQLite takes the largest stored id plus one. *)
NextFlowIdReused ==
    IF flows = <<>> THEN 1 ELSE (CHOOSE f \in DOMAIN flows : \A g \in DOMAIN flows : g <= f) + 1

(* AUTOINCREMENT: an id is never given twice, deleted rows included. *)
NextFlowId == lastId + 1

Insert(label, shape, event) ==
    /\ Cardinality(DOMAIN flows) < MaxFlows
    /\ flows' = [f \in DOMAIN flows \cup {NextFlowId} |->
                    IF f = NextFlowId THEN Row(label, shape, event, lastId + 1) ELSE flows[f]]
    /\ lastId' = lastId + 1

Delete(doomed) == flows' = [f \in DOMAIN flows \ doomed |-> flows[f]]

(* A record, or a function, with some of its values replaced. *)
Over(new, old) ==
    [x \in DOMAIN new \cup DOMAIN old |-> IF x \in DOMAIN new THEN new[x] ELSE old[x]]

-----------------------------------------------------------------------------
(* Requests.  alone says that nothing else has run since the request began.     *)
Quiet(t) == req[t] = Idle /\ post[t] = NoPost

Alone(t) == \A u \in Threads \ {t} : Quiet(u)

Disturbed == [u \in Threads |-> IF req[u] = Idle THEN Idle ELSE [req[u] EXCEPT !.alone = FALSE]]

Spend(kind) == budget.uses[kind] > 0 /\ budget' = [budget EXCEPT !.uses[kind] = @ - 1]

MayBegin(t, kind) ==
    /\ budget.uses[kind] > 0 /\ Quiet(t)
    /\ kind \in budget.serial => Alone(t)
    /\ \A u \in Threads \ {t} : req[u] # Idle => req[u].kind \notin budget.serial

Begin(t, kind, fields) ==
    /\ MayBegin(t, kind) /\ Spend(kind)
    /\ req' = [Disturbed EXCEPT ![t] = Over(fields,
                  [kind |-> kind, pc |-> "begin", alone |-> Alone(t), flow |-> 0,
                   shape |-> None, actor |-> None, row |-> None, book |-> 0, case |-> 0,
                   todo |-> <<>>, read |-> {}, keep |-> {}, outcome |-> None, brief |-> None, then |-> "reply"])]

At(t, pc) == req[t] # Idle /\ req[t].pc = pc

Goto(t, pc) == req' = [req EXCEPT ![t].pc = pc]

Answer(t, outcome) == req' = [req EXCEPT ![t].pc = "reply", ![t].outcome = outcome]

(* The response leaves and the thread ends. *)
Reply(t) ==
    /\ At(t, "reply")
    /\ req' = [req EXCEPT ![t] = Idle]
    /\ UNCHANGED <<flows, lastId, campaigns, store, books, keys, cases, range, notes, post, budget>>

(* The server process dies and is started again: threads, and the keys and      *)
(* briefs in memory, are gone; what was committed is not.                        *)
Crash ==
    /\ Spend("crash")
    /\ req' = [t \in Threads |-> Idle]
    /\ post' = [t \in Threads |-> NoPost]
    /\ keys' = [keys EXCEPT !.memory = {}]
    /\ notes' = [notes EXCEPT !.briefs = <<>>]
    /\ UNCHANGED <<flows, lastId, campaigns, store, books, cases, range>>
=============================================================================
