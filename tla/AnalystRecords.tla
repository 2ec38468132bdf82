--------------------------- MODULE AnalystRecords ---------------------------
(* What an analyst writes beside a flow: a verdict with the rule it leaves in    *)
(* context_memory, triage, assignment, notes.  Each is several transactions, the *)
(* operator's stamp among them, and only the first looks whether the row exists. *)
EXTENDS ConsoleState

RecordsOnly == <<lastId, campaigns, store, books, keys, cases, range, post, budget>>

(* _flow_entities, each with the row's service. *)
Entities(row) == Shape[row.shape].pair \X {Shape[row.shape].service}

(* INSERT OR IGNORE where the code has ON CONFLICT DO UPDATE. *)
RememberedFirst(row, what) ==
    [notes EXCEPT !.memory = [e \in DOMAIN @ |-> IF e \in Entities(row) /\ @[e] = None THEN what ELSE @[e]]]

Remembered(row, what) == [notes EXCEPT !.memory = [e \in DOMAIN @ |-> IF e \in Entities(row) THEN what ELSE @[e]]]

BeginRecord(t, kind, pc) ==
    /\ MayBegin(t, kind)
    /\ \E f \in 1 .. lastId, a \in Actors :
          Begin(t, kind, [pc |-> pc, then |-> kind, flow |-> f, actor |-> a])
    /\ UNCHANGED <<flows, lastId, campaigns, store, books, keys, cases, range, notes, post>>

VerdictRoute(t) == BeginRecord(t, "verdict", "look")
AssignmentRoute(t) == BeginRecord(t, "assignment", "look")
MemoryRoute(t) == BeginRecord(t, "memory", "look")
TriageRoute(t) == BeginRecord(t, "triage", "triage")
NotesRoute(t) == BeginRecord(t, "note", "note")

(* _load_flow_row: what is read here is used to the end.  A verdict or a rule    *)
(* whose text names something that is not on the row is refused.                 *)
RowLoaded(t) ==
    /\ At(t, "look")
    /\ IF req[t].flow \notin DOMAIN flows THEN Answer(t, "flow_not_stored")
       ELSE \/ req' = [req EXCEPT ![t].row = flows[req[t].flow], ![t].pc = req[t].then]
            \/ req[t].kind # "assignment" /\ Answer(t, "explanation_not_grounded")
    /\ UNCHANGED <<flows, notes, RecordsOnly>>

(* An UPDATE of a row that may be gone by now; nobody looks. *)
Signed(t, field) ==
    flows' = IF req[t].flow \in DOMAIN flows
             THEN [flows EXCEPT ![req[t].flow][field] = req[t].actor] ELSE flows

VerdictStored(t) ==
    /\ At(t, "verdict")
    /\ Signed(t, "verdict") /\ Goto(t, "stamp")
    /\ UNCHANGED <<notes, RecordsOnly>>

AssignmentStored(t) ==
    /\ At(t, "assignment")
    /\ Signed(t, "assignee") /\ Goto(t, "stamp")
    /\ UNCHANGED <<notes, RecordsOnly>>

Logged(t) == [notes EXCEPT !.log = @ \cup {<<req[t].kind, req[t].flow, req[t].actor>>}]

(* record_triage_action and add_analyst_note look and write in one transaction. *)
TriageStored(t) ==
    /\ At(t, "triage")
    /\ IF req[t].flow \in DOMAIN flows
       THEN notes' = Logged(t) /\ Signed(t, "triage") /\ Goto(t, "stamp")
       ELSE Answer(t, "flow_not_stored") /\ UNCHANGED <<flows, notes>>
    /\ UNCHANGED RecordsOnly

NoteStored(t) ==
    /\ At(t, "note")
    /\ IF req[t].flow \in DOMAIN flows
       THEN notes' = Logged(t) /\ Answer(t, "recorded")
       ELSE Answer(t, "flow_not_stored") /\ UNCHANGED notes
    /\ UNCHANGED <<flows, RecordsOnly>>

(* _store_operator_stamp, the same for every kind of request. *)
StampStored(t) ==
    /\ At(t, "stamp")
    /\ Signed(t, "stamp")
    /\ req' = IF req[t].kind = "verdict" THEN [req EXCEPT ![t].pc = "memory"]
              ELSE [req EXCEPT ![t].pc = "reply",
                               ![t].outcome = IF @ = None THEN "recorded" ELSE @]
    /\ UNCHANGED <<notes, RecordsOnly>>

(* _upsert_context_memory_rows: one rule per entity and service, the last wins. *)
MemoryStored(t) ==
    /\ At(t, "memory")
    /\ notes' = Remembered(req[t].row, <<req[t].kind, req[t].flow, req[t].actor>>)
    /\ Answer(t, "recorded")
    /\ UNCHANGED <<flows, RecordsOnly>>

RecordStep(t) ==
    \/ VerdictRoute(t) \/ AssignmentRoute(t) \/ MemoryRoute(t) \/ TriageRoute(t) \/ NotesRoute(t)
    \/ RowLoaded(t) \/ VerdictStored(t) \/ AssignmentStored(t)
    \/ TriageStored(t) \/ NoteStored(t) \/ StampStored(t) \/ MemoryStored(t)
=============================================================================
