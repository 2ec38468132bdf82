---------------------------- MODULE CopilotAdvice ---------------------------
(* What the console tells an analyst about a row: the copilot's brief, cached in *)
(* memory and in live_copilot_cache, and the shift handoff.                      *)
EXTENDS ConsoleState

AdviceOnly == <<flows, lastId, campaigns, store, books, keys, cases, range, post>>

(* A brief is known by the row whose evidence it was written from. *)
Brief(row) == [born |-> row.born]

(* _copilot_cache_key, for one question and one model. *)
CacheKey(f) == f

Cached(where, f) == CacheKey(f) \in DOMAIN notes[where]

Cache(where, f, brief) == [notes EXCEPT ![where] = Over([k \in {CacheKey(f)} |-> brief], @)]

Advised(t, brief) == req' = [req EXCEPT ![t].pc = "reply", ![t].outcome = "gemini_grounded", ![t].brief = brief]

CopilotRoute(t) ==
    /\ MayBegin(t, "copilot")
    /\ \E f \in 1 .. lastId : Begin(t, "copilot", [pc |-> "advice", flow |-> f])
    /\ UNCHANGED <<AdviceOnly, notes>>

(* Without a row there is only the corpus; without a key for the provider only   *)
(* the local brief.                                                              *)
AdviceRead(t) ==
    /\ At(t, "advice")
    /\ IF req[t].flow \notin DOMAIN flows THEN Answer(t, "local_corpus")
       ELSE \/ req' = [req EXCEPT ![t].row = flows[req[t].flow], ![t].pc = "cache"]
            \/ Answer(t, "local_flow_brief")
    /\ UNCHANGED <<AdviceOnly, notes, budget>>

(* _cached_live_gemini: the memory, then the database, whose errors are misses. *)
CacheRead(t) ==
    /\ At(t, "cache")
    /\ IF Cached("briefs", req[t].flow) THEN Advised(t, notes.briefs[CacheKey(req[t].flow)])
       ELSE Goto(t, "cache_disk")
    /\ UNCHANGED <<AdviceOnly, notes, budget>>

DiskCacheRead(t) ==
    /\ At(t, "cache_disk")
    /\ LET f == req[t].flow
       IN \/ /\ Cached("briefsOnDisk", f)
             /\ notes' = Cache("briefs", f, notes.briefsOnDisk[CacheKey(f)])
             /\ Advised(t, notes.briefsOnDisk[CacheKey(f)]) /\ UNCHANGED budget
          \/ /\ Cached("briefsOnDisk", f) => Spend("dbfault")
             /\ ~Cached("briefsOnDisk", f) => UNCHANGED budget
             /\ Goto(t, "ask") /\ UNCHANGED notes
    /\ UNCHANGED AdviceOnly

(* The provider is unavailable, or its text does not stay on the evidence that   *)
(* was read; or it does, and is kept in memory.                                  *)
Asked(t) ==
    /\ At(t, "ask")
    /\ \/ Answer(t, "local_flow_brief") /\ UNCHANGED notes
       \/ /\ notes' = Cache("briefs", req[t].flow, Brief(req[t].row))
          /\ Goto(t, "brief_disk")
    /\ UNCHANGED <<AdviceOnly, budget>>

(* _remember_live_gemini: an error of the database is ignored. *)
BriefStored(t) ==
    /\ At(t, "brief_disk")
    /\ \/ notes' = Cache("briefsOnDisk", req[t].flow, Brief(req[t].row)) /\ UNCHANGED budget
       \/ Spend("dbfault") /\ UNCHANGED notes
    /\ Advised(t, Brief(req[t].row))
    /\ UNCHANGED AdviceOnly

-----------------------------------------------------------------------------
(* export_grounded_handoff reads the row, then its triage events: two SELECTs    *)
(* of one connection outside any transaction.                                    *)
HandoffRoute(t) ==
    /\ MayBegin(t, "handoff")
    /\ \E f \in 1 .. lastId : Begin(t, "handoff", [pc |-> "handoff_row", flow |-> f])
    /\ UNCHANGED <<AdviceOnly, notes>>

TriageEvents(f) == {e \in notes.log : e[1] = "triage" /\ e[2] = f}

(* The events before the row. *)
HandoffRowLast(t) ==
    /\ At(t, "handoff_row")
    /\ LET f == req[t].flow
       IN IF f \notin DOMAIN flows THEN Answer(t, "flow_not_stored")
          ELSE IF req[t].case = 0 THEN req' = [req EXCEPT ![t].read = TriageEvents(f), ![t].case = 1]
          ELSE req' = [req EXCEPT ![t].row = flows[f], ![t].pc = "reply",
                                  ![t].outcome = "grounded_brief"]
    /\ UNCHANGED <<AdviceOnly, notes, budget>>

HandoffRow(t) ==
    /\ At(t, "handoff_row")
    /\ LET f == req[t].flow
       IN IF f \notin DOMAIN flows THEN Answer(t, "flow_not_stored")
          ELSE req' = [req EXCEPT ![t].row = flows[f], ![t].pc = "handoff_events"]
    /\ UNCHANGED <<AdviceOnly, notes, budget>>

(* A supplied brief that names an address which is not on the row is refused. *)
HandoffEvents(t) ==
    /\ At(t, "handoff_events")
    /\ \E outcome \in {"grounded_brief", "explanation_not_grounded"} :
          req' = [req EXCEPT ![t].read = TriageEvents(req[t].flow), ![t].pc = "reply",
                             ![t].outcome = outcome]
    /\ UNCHANGED <<AdviceOnly, notes, budget>>

AdviceStep(t) ==
    \/ CopilotRoute(t) \/ AdviceRead(t) \/ CacheRead(t) \/ DiskCacheRead(t)
    \/ Asked(t) \/ BriefStored(t)
    \/ HandoffRoute(t) \/ HandoffRow(t) \/ HandoffEvents(t)
=============================================================================
