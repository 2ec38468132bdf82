--------------------------- MODULE MCEvidencePipeline ---------------------------
(* All tables of three flows over a few intervals are followed to their         *)
(* assignment; the Followed one, with flows of every disposition, to the end.   *)
EXTENDS FeedbackLedger

Flow(fp, tuple, start, end) ==
    [source |-> fp, tuple |-> tuple, start |-> start, end |-> end,
     timing |-> "explained", accepted |-> TRUE]

(* Before the development period, in it, past its end, between the periods, in *)
(* the test period.                                                            *)
Intervals == {<<0, 1>>, <<1, 4>>, <<2, 2>>, <<2, 5>>, <<3, 3>>, <<4, 4>>, <<5, 6>>}

(* A third flow the adapter rejects, or whose duration nothing explains. *)
ThirdFlows ==
    UNION {{f, [f EXCEPT !.accepted = FALSE], [f EXCEPT !.timing = "unexplained"]} :
              f \in {Flow(3, 1, z[1], z[2]) : z \in Intervals}}

ShortTables ==
    {<<Flow(1, 1, x[1], x[2]), Flow(b, t, y[1], y[2]), z>> :
        b \in {1, 2}, t \in {1, 2}, x \in Intervals, y \in Intervals, z \in ThirdFlows}

(* Rows with one source fingerprint are one row twice over. *)
Proper(table) == table[1].source = table[2].source => table[1] = table[2]

(* 1 and 2 train as one group, 3 validates, 4 is tested, 5 is rejected. *)
Followed ==
    {<<Flow(1, 1, 1, 3), Flow(2, 1, 2, 2), Flow(3, 2, 1, 2), Flow(4, 3, 5, 6),
       [Flow(5, 4, 0, 0) EXCEPT !.accepted = FALSE]>>}

MCTables == {table \in ShortTables : Proper(table)} \cup Followed

(* Bounds: two of faults and second runs together; the log1p variant only      *)
(* after the autoencoder, and with one of them.  The audit shares no file with *)
(* the variant, the CIC stage or the predictor, and runs before any of them.   *)
Oddities == faults.mishaps + faults.alterations + Cardinality(Seconds)
Variant == dirs["prepare"][1].made \/ \E w \in Workers : proc[w] # Idle /\ proc[w].stage = "prepare"

AuditApart ==
    audit # NoAudit =>
        /\ served = None /\ \A w \in Workers : proc[w] = Idle
        /\ \A s \in {"prepare", "rate", "cic"} : ~dirs[s][1].made

FeedbackApart ==
    feedback # NoFeedback =>
        /\ audit = NoAudit /\ AuditApart
        /\ served = None /\ \A w \in Workers : proc[w] = Idle
        /\ \A s \in {"prepare", "rate", "cic"} : ~dirs[s][1].made
        /\ \A s \in Stages : dirs[s][1].failure = "none"
        /\ faults.alterations + Cardinality(Seconds) = 0 /\ source = "registered"
        /\ feedback.drift > 1 => faults.mishaps = 0

Bounded ==
    /\ AuditApart /\ FeedbackApart
    /\ flows \notin Followed =>
        /\ \A s \in Stages \ MakesFirst : \A w \in Workers :
              proc[w] # Idle => proc[w].stage # s
        /\ Oddities = 0
        /\ \A v, w \in Workers : v # w => Idle \in {proc[v], proc[w]}
    /\ Oddities <= 2
    /\ Variant => Oddities <= 1 /\ dirs["autoencoder"][1].made

Rivals == Permutations(Workers) \cup Permutations(Auditors) \cup Permutations(Recorders)
=============================================================================
