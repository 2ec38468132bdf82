---------------------------- MODULE MCSocConsole ----------------------------
(* Two request threads.  Each budget is one kind of day at the console.         *)
EXTENDS EveFollower

(* Two events of one tuple at the two ends of the burst window, a third of their *)
(* host pair at the end of the campaign window, which is noise to the purge, and *)
(* a flow of the range that is not an attack.                                    *)
MCShape ==
    LET S(victim, noisy, attack, at, hosts, port, space) ==
            [range |-> victim, noisy |-> noisy, attack |-> attack, at |-> at,
             tuple |-> <<hosts, port>>, pair |-> hosts, service |-> port, space |-> space]
    IN ("first" :> S(TRUE, TRUE, TRUE, 0, {"a", "b"}, 80, "live"))
       @@ ("second" :> S(TRUE, FALSE, TRUE, 2, {"a", "b"}, 80, "live"))
       @@ ("third" :> S(FALSE, TRUE, TRUE, 4, {"a", "b"}, 22, "live"))
       @@ ("notable" :> S(TRUE, FALSE, FALSE, 1, {"a", "c"}, 80, "live"))
       @@ ("scenario" :> S(FALSE, FALSE, TRUE, 3, {"d", "e"}, 80, "scenario"))
       @@ ("recorded" :> S(FALSE, FALSE, TRUE, 1, {"f", "g"}, 80, Unverified))

Kinds == {"sensor", "ingest", "replay", "scenarios", "purge", "scan", "correlate", "correct",
          "verdict", "triage", "assignment", "memory", "note", "copilot", "handoff", "approve", "dispatch", "contain",
          "rollback", "resend", "crash", "dbfault", "probe_lost", "victim", "write", "rotate", "stop", "restart"}

Day(serial, uses) == [uses |-> uses @@ [k \in Kinds |-> 0], serial |-> serial]

MCBudgets ==
    { Day({}, "sensor" :> 2 @@ "purge" :> 1 @@ "crash" :> 1),
      Day({}, "sensor" :> 3),
      Day({"ingest"}, "ingest" :> 3 @@ "correlate" :> 2),
      Day({"sensor"}, "sensor" :> 2 @@ "correlate" :> 1 @@ "correct" :> 2),
      Day({}, "scenarios" :> 3 @@ "scan" :> 1),
      Day({"replay"}, "replay" :> 1 @@ "scan" :> 1 @@ "purge" :> 1 @@ "sensor" :> 1),
      Day({"sensor", "purge", "approve"},
          "sensor" :> 2 @@ "approve" :> 1 @@ "purge" :> 1 @@ "dispatch" :> 1),
      Day({"replay", "dispatch"}, "replay" :> 1 @@ "approve" :> 2 @@ "dispatch" :> 1),
      Day({"replay", "approve"},
          "replay" :> 1 @@ "approve" :> 1 @@ "dispatch" :> 2 @@ "resend" :> 1),
      Day({"replay", "approve"},
          "replay" :> 1 @@ "approve" :> 1 @@ "dispatch" :> 1 @@ "resend" :> 1
          @@ "crash" :> 1 @@ "dbfault" :> 1),
      Day({"sensor", "approve", "dispatch"},
          "sensor" :> 1 @@ "approve" :> 1 @@ "dispatch" :> 1 @@ "contain" :> 2
          @@ "rollback" :> 2 @@ "probe_lost" :> 1),
      Day({"sensor", "approve", "dispatch"},
          "sensor" :> 1 @@ "approve" :> 1 @@ "dispatch" :> 1 @@ "contain" :> 2
          @@ "rollback" :> 1 @@ "victim" :> 1),
      Day({"sensor", "approve", "dispatch", "contain", "rollback"},
          "sensor" :> 1 @@ "approve" :> 1 @@ "dispatch" :> 1 @@ "contain" :> 2
          @@ "rollback" :> 1 @@ "crash" :> 1),
      Day({"sensor", "purge"},
          "sensor" :> 1 @@ "verdict" :> 2 @@ "memory" :> 1 @@ "purge" :> 1),
      Day({"sensor"},
          "sensor" :> 1 @@ "triage" :> 1 @@ "assignment" :> 1 @@ "note" :> 1 @@ "purge" :> 1),
      Day({"sensor", "purge"},
          "sensor" :> 2 @@ "copilot" :> 2 @@ "purge" :> 1),
      Day({"replay"}, "replay" :> 1 @@ "copilot" :> 2 @@ "crash" :> 1 @@ "dbfault" :> 1),
      Day({"sensor"}, "sensor" :> 1 @@ "triage" :> 2 @@ "handoff" :> 1 @@ "purge" :> 1),
      Day({"write"}, "write" :> 6 @@ "sensor" :> 1 @@ "stop" :> 1 @@ "restart" :> 1 @@ "crash" :> 1),
      Day({"write"}, "write" :> 6 @@ "sensor" :> 2 @@ "restart" :> 1 @@ "crash" :> 1),
      Day({"write"}, "write" :> 6 @@ "sensor" :> 2 @@ "rotate" :> 1) }

(* Two flows of the range with another line between them. *)
MCStream == <<"second", None, "notable">>

(* Bound of the days of the follower: one request at a time, of its events. *)
OneSender ==
    "write" \in budget.serial =>
        /\ Cardinality({t \in Threads : req[t] # Idle}) <= 1
        /\ \A t \in Threads : req[t] # Idle => req[t].shape \in {MCStream[1], MCStream[3]}

Symmetry == Permutations(Threads)
=============================================================================
