----------------------------- MODULE SocConsole -----------------------------
(* The live console: intake, correlation, analyst records and the response, run  *)
(* by the threads of one ThreadingHTTPServer over the same files, with crashes   *)
(* of the server, resent contract requests and a victim that stops and starts.   *)
EXTENDS LiveIntake, LiveCorrelation, AnalystRecords, CopilotAdvice, SoarResponse

Init ==
    /\ flows = <<>> /\ lastId = 0 /\ campaigns = {}
    /\ store = [incidents |-> {}, corrections |-> {}]
    /\ books = <<>> /\ cases = <<>>
    /\ budget \in Budgets
    /\ \E w \in BOOLEAN :             \* was the server given an n8n webhook: only dispatch asks
          /\ w => budget.uses["dispatch"] > 0
          /\ keys = [memory |-> {}, disk |-> {}, answered |-> {}, sent |-> {}, unsure |-> {}, webhook |-> w]
    /\ range = [running |-> TRUE, rules |-> 0]
    /\ notes = [memory |-> [e \in UNION {Shape[s].pair \X {Shape[s].service} : s \in Shapes} |-> None],
                log |-> {}, briefs |-> <<>>, briefsOnDisk |-> <<>>]
    /\ req = [t \in Threads |-> Idle] /\ post = [t \in Threads |-> NoPost]

Next ==
    \/ \E t \in Threads :
          IntakeStep(t) \/ CorrelationStep(t) \/ RecordStep(t) \/ AdviceStep(t)
          \/ ResponseStep(t) \/ Reply(t)
    \/ Crash
    \/ VictimToggled

Spec == Init /\ [][Next]_consoleVars

Told(t, outcomes) == At(t, "reply") /\ req[t].outcome \in outcomes

LoneTold(t, kind, outcomes) == Told(t, outcomes) /\ req[t].kind = kind /\ req[t].alone

-----------------------------------------------------------------------------
(* An event the sensor route answered with 200 is stored, once, unless a purge   *)
(* took it: however many senders post it at the same moment, and whatever died   *)
(* between its row and its campaign.  No event ever has two rows.                *)
EventStoredOnce ==
    /\ \A s \in Shapes : Cardinality(BridgeRows(s)) <= 1
    /\ \A t \in Threads : LoneTold(t, "sensor", {"stored", "duplicate"}) =>
          /\ BridgeRows(req[t].shape) # {}
          /\ Told(t, {"stored"}) => req[t].shape \in campaigns

(* A stitch that ran alone leaves exactly the incidents of the attack rows: each *)
(* row in one of them, bursts and campaigns as the two windows define them, and  *)
(* nothing of an earlier stitch, whatever overlapping or crashed stitches left.  *)
LoneCorrelationExact ==
    \A t \in Threads :
        LoneTold(t, "correlate", {"correlated"}) /\ store.corrections = {} =>
            /\ Grouped(AttackAlerts, store.incidents)
            /\ \A i \in store.incidents : i.members \subseteq Attacks
            /\ \A f \in Attacks : flows[f].checked

(* An incident counts its members, has some, and holds no row twice, whatever    *)
(* splits and stitches did to it.                                                *)
IncidentsCounted ==
    \A i \in store.incidents : i.count = Cardinality(i.members) /\ i.count >= 1

(* A row says that its callback is recorded only if an analyst approved a        *)
(* playbook for this very row, a case for it is in the outbox, and the contract  *)
(* server accepted a callback of that playbook and wrote its timing: rows that   *)
(* were deleted, other rows, late answers and crashes never lend it theirs.      *)
ReceiptBacked ==
    \A f \in DOMAIN flows : flows[f].recorded # 0 =>
        /\ cases[flows[f].recorded] = Candidate(f)
        /\ \E b \in Books(f, {"approved"}) :
              /\ books[b].born = flows[f].born
              /\ books[b].timed /\ Key("callback", b) \in keys.answered

(* A contract request that begins after its key was accepted is never accepted,  *)
(* also after a restart, unless the key's database access failed.                *)
ReplayRefused ==
    \A t \in Threads : post[t] # NoPost =>
        (post[t].status = 200 => post[t].fresh \/ post[t].key \in keys.unsure)

(* Containment and rollback that ran alone and succeeded tell the truth about    *)
(* the victim, whatever rules overlapping or crashed requests left behind.       *)
RangeOutcomeTrue ==
    \A t \in Threads :
        /\ LoneTold(t, "contain", {"applied"}) =>
              range.rules > 0 /\ flows[req[t].flow].containment = "applied"
        /\ LoneTold(t, "rollback", {"rolled_back"}) =>
              range.rules = 0 /\ flows[req[t].flow].containment = "rolled_back"

(* What an analyst recorded alone stands in the row under the analyst's stamp;   *)
(* a verdict or a rule is what every endpoint of the row is now remembered for,  *)
(* whatever was said of that endpoint through other rows before.                 *)
RecordsKept ==
    \A t \in Threads : Told(t, {"recorded"}) /\ req[t].alone =>
        LET kind == req[t].kind
            row == flows[req[t].flow]
            word == <<kind, req[t].flow, req[t].actor>>
        IN /\ kind \in {"verdict", "triage", "assignment"} => row.stamp = req[t].actor
           /\ kind \in {"verdict", "triage"} => row[kind] = req[t].actor
           /\ kind = "assignment" => row.assignee = req[t].actor
           /\ kind \in {"verdict", "memory"} => \A e \in Entities(row) : notes.memory[e] = word
           /\ kind \in {"triage", "note"} => word \in notes.log

(* A replay of the scenarios that ran alone leaves one row of each, whatever     *)
(* copies overlapping replays and seeds had made.                                *)
OneScenarioRow ==
    \A t \in Threads : LoneTold(t, "scenarios", {"correlated"}) => Cardinality(ScenarioRows) = 1

(* A brief the copilot serves as Gemini's was written from the evidence of the   *)
(* row it is asked about: other rows, rows deleted since, crashes and failing    *)
(* databases never lend it theirs.                                               *)
BriefOfThisRow ==
    \A t \in Threads : Told(t, {"gemini_grounded"}) => req[t].brief.born = req[t].row.born

(* The triage state a handoff shows has its event among those the handoff lists, *)
(* though the two are read apart and triage goes on meanwhile.                   *)
HandoffTellsTriage ==
    \A t \in Threads : Told(t, {"grounded_brief"}) /\ req[t].row.triage # None =>
        <<"triage", req[t].flow, req[t].row.triage>> \in req[t].read

(* The incidents are those of the rows, and count them. *)
IncidentsExact == LoneCorrelationExact /\ IncidentsCounted

(* What the console tells of a row is of that row, all of one piece. *)
AdviceOfThisRow == BriefOfThisRow /\ HandoffTellsTriage
=============================================================================
