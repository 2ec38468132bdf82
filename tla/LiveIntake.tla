----------------------------- MODULE LiveIntake -----------------------------
(* How rows come into live_flows and leave it: the sensor route, ingest and      *)
(* replays, the labelled scenarios, the seeds, and the purge of bridge noise.    *)
EXTENDS ConsoleState

BridgeRows(s) == {f \in DOMAIN flows : flows[f].event = s}

EventTakenNever(s) == FALSE

(* The UNIQUE index on source_event_id. *)
EventTaken(s) == BridgeRows(s) # {}

Rest == <<campaigns, store, books, keys, cases, range, notes, post>>

BeginIntake(t, kind, fields) ==
    Begin(t, kind, fields) /\ UNCHANGED <<flows, lastId, Rest>>

SensorRoute(t) ==
    /\ MayBegin(t, "sensor")
    /\ \E s \in Shapes \ {Scenario, Recorded} : BeginIntake(t, "sensor", [pc |-> "event", shape |-> s])

IngestRoute(t) ==
    /\ MayBegin(t, "ingest")
    /\ \E s \in Supplied :
        BeginIntake(t, "ingest", [pc |-> "rows", todo |-> <<s>>, actor |-> "replayed"])

ReplayRoute(t) ==
    BeginIntake(t, "replay",
        [pc |-> "rows", todo |-> [i \in 1 .. BurstSize |-> Recorded], actor |-> "recorded"])

ScenariosRoute(t) == BeginIntake(t, "scenarios", [pc |-> "scenario", then |-> "correlate"])
PurgeRoute(t) == BeginIntake(t, "purge", [pc |-> "purge"])
ScanRoute(t) == BeginIntake(t, "scan", [pc |-> "purge"])

-----------------------------------------------------------------------------
(* record_suricata_bridge_flow.  A known event is acknowledged as it stands; a   *)
(* new one is scored, stored, and given its campaign in another transaction.     *)
After(t, outcome) ==
    IF req[t].kind = "sensor"
    THEN [req EXCEPT ![t].pc = IF outcome = "stored" THEN "correlate" ELSE "reply",
                     ![t].outcome = outcome]
    ELSE [req EXCEPT ![t].pc = req[t].then]

SensorRead(t) ==
    /\ At(t, "event")
    /\ \/ /\ BridgeRows(req[t].shape) # {}
          /\ req' = After(t, "duplicate")
       \/ /\ BridgeRows(req[t].shape) = {}
          /\ \/ Goto(t, "event_insert")
             \/ req' = After(t, "refused")      \* not scored by the frozen forest
    /\ UNCHANGED <<flows, lastId, Rest, budget>>

(* The second of two that both saw no row breaks the index and dies. *)
SensorInsert(t) ==
    /\ At(t, "event_insert")
    /\ \/ /\ EventTaken(req[t].shape)
          /\ Answer(t, "error") /\ UNCHANGED <<flows, lastId>>
       \/ /\ ~EventTaken(req[t].shape)
          /\ Insert("bridge", req[t].shape, req[t].shape) /\ Goto(t, "event_campaign")
    /\ UNCHANGED <<Rest, budget>>

(* The campaign of a purged event is still there: its second row is stored and   *)
(* the request dies all the same.                                                *)
SensorCampaign(t) ==
    /\ At(t, "event_campaign")
    /\ \/ /\ req[t].shape \in campaigns
          /\ Answer(t, "error") /\ UNCHANGED campaigns
       \/ /\ req[t].shape \notin campaigns
          /\ campaigns' = campaigns \cup {req[t].shape}
          /\ req' = After(t, "stored")
    /\ UNCHANGED <<flows, lastId, store, books, keys, cases, range, notes, post, budget>>

-----------------------------------------------------------------------------
(* /ingest, replay_supplied_flows, replay_benchmark_attack_burst: one            *)
(* transaction per row, then the stitch.  The flows a client supplies to /replay *)
(* take the steps of /ingest.                                                    *)
ReplayInsert(t) ==
    /\ At(t, "rows")
    /\ IF req[t].todo = <<>>
       THEN /\ Goto(t, IF req[t].kind = "replay" THEN "burst" ELSE "correlate")
            /\ UNCHANGED <<flows, lastId>>
       ELSE /\ Insert(req[t].actor, Head(req[t].todo), None)
            /\ req' = [req EXCEPT ![t].todo = Tail(@), ![t].outcome = "stored"]
    /\ UNCHANGED <<Rest, budget>>

(* The recorded burst ends with its campaign; the id holds the time, so it is new. *)
RecordedBurst(t) ==
    /\ At(t, "burst")
    /\ campaigns' = campaigns \cup {Recorded}
    /\ Goto(t, "correlate")
    /\ UNCHANGED <<flows, lastId, store, books, keys, cases, range, notes, post, budget>>

-----------------------------------------------------------------------------
(* replay_live_scenarios: _reuse_scenario_row keeps the oldest copy and deletes  *)
(* the others in one transaction; a row is inserted in another when there was    *)
(* none.                                                                         *)
ScenarioRows == {f \in DOMAIN flows : flows[f].label = "scenario"}

Oldest(rows) == CHOOSE f \in rows : \A g \in rows : f <= g

Copies == ScenarioRows \ {Oldest(ScenarioRows)}

ScenarioReuse(t) ==
    /\ At(t, "scenario")
    /\ IF ScenarioRows = {}
       THEN Goto(t, "scenario_insert") /\ UNCHANGED flows
       ELSE /\ Delete(Copies)
            /\ req' = [req EXCEPT ![t].pc = "candidate", ![t].flow = Oldest(ScenarioRows)]
    /\ UNCHANGED <<lastId, Rest, budget>>

ScenarioInsert(t) ==
    /\ At(t, "scenario_insert")
    /\ Insert("scenario", Scenario, None)
    /\ req' = [req EXCEPT ![t].pc = "candidate", ![t].flow = NextFlowId]
    /\ UNCHANGED <<Rest, budget>>

(* _store_candidate_playbook, only where the column is empty. *)
CandidateStored(t) ==
    /\ At(t, "candidate")
    /\ LET f == req[t].flow
       IN flows' = IF f \in DOMAIN flows /\ flows[f].playbook = None
                   THEN [flows EXCEPT ![f].playbook = "candidate"] ELSE flows
    /\ Goto(t, "seed")
    /\ UNCHANGED <<lastId, Rest, budget>>

(* ensure_recorded_attack_row: looked for first, inserted in another             *)
(* transaction: a recorded vector when one scores Attack, else the scenario.     *)
SeedRead(t) ==
    /\ At(t, "seed")
    /\ Goto(t, IF \E f \in Attacks : flows[f].label \in {"recorded", "scenario"}
               THEN "notable" ELSE "seed_insert")
    /\ UNCHANGED <<flows, lastId, Rest, budget>>

SeedInsert(t) ==
    /\ At(t, "seed_insert")
    /\ \E label \in {"recorded", "scenario"} : Insert(label, Recorded, None)
    /\ Goto(t, "notable")
    /\ UNCHANGED <<Rest, budget>>

(* ensure_notable_bridge_row *)
NotableRead(t) ==
    /\ At(t, "notable")
    /\ req' = IF \E f \in DOMAIN flows \ Attacks : flows[f].label = "bridge"
              THEN [req EXCEPT ![t].pc = req[t].then]
              ELSE [req EXCEPT ![t].pc = "event", ![t].shape = Notable]
    /\ UNCHANGED <<flows, lastId, Rest, budget>>

-----------------------------------------------------------------------------
(* purge_bridge_noise_rows, alone or before a scan of the range. *)
Noise == {f \in DOMAIN flows : flows[f].label = "bridge" /\ Shape[flows[f].shape].noisy}

Purge(t) ==
    /\ At(t, "purge")
    /\ Delete(Noise)
    /\ IF req[t].kind = "scan" THEN Goto(t, "scan") ELSE Answer(t, "purged")
    /\ UNCHANGED <<lastId, Rest, budget>>

(* run_live_range_scan: a row of the range, new or old, or the deadline. *)
ScanEnds(t) ==
    /\ At(t, "scan")
    /\ IF \E f \in DOMAIN flows : flows[f].label = "bridge" /\ Shape[flows[f].shape].range
       THEN Goto(t, "seed") ELSE Answer(t, "not_ingested")
    /\ UNCHANGED <<flows, lastId, Rest, budget>>

IntakeStep(t) ==
    \/ SensorRoute(t) \/ IngestRoute(t) \/ ReplayRoute(t)
    \/ ScenariosRoute(t) \/ PurgeRoute(t) \/ ScanRoute(t)
    \/ SensorRead(t) \/ SensorInsert(t) \/ SensorCampaign(t)
    \/ ReplayInsert(t) \/ RecordedBurst(t)
    \/ ScenarioReuse(t) \/ ScenarioInsert(t) \/ CandidateStored(t)
    \/ SeedRead(t) \/ SeedInsert(t) \/ NotableRead(t)
    \/ Purge(t) \/ ScanEnds(t)
=============================================================================
