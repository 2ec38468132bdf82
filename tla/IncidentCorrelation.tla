------------------------ MODULE IncidentCorrelation -------------------------
(* correlate_alert_candidates: alerts with verified provenance are grouped, in   *)
(* their own namespace, first by exact tuple in a burst window, then what is     *)
(* left by unordered host pair in a campaign window.  An alert is                *)
(* [id, at, tuple, pair, space]; space is Unverified when                        *)
(* verification_rejection_reason gives one.                                      *)
EXTENDS Naturals, Sequences, FiniteSets, SequencesExt

CONSTANTS
    BurstWindow,        \* BURST_WINDOW_SECONDS
    CampaignWindow,     \* CAMPAIGN_WINDOW_SECONDS
    Unverified

ASSUME WindowAssumption == BurstWindow \in Nat /\ CampaignWindow \in Nat

Ids(alerts) == {a.id : a \in alerts}

is_verified(a) == a.space # Unverified

(* The sort key (timestamp, alert_candidate_id). *)
Earlier(a, b) == a.at < b.at \/ (a.at = b.at /\ a.id < b.id)

InWindowStrict(t, anchor, window) == t - anchor < window

InWindow(t, anchor, window) == t - anchor <= window

(* One sweep: an alert joins the open cluster when it is within the window of    *)
(* that cluster's first alert, and opens a new one otherwise.                    *)
Sweep(alerts, window) ==
    LET Join(clusters, a) ==
            IF clusters # <<>> /\ InWindow(a.at, Last(clusters)[1].at, window)
            THEN [clusters EXCEPT ![Len(clusters)] = Append(@, a)]
            ELSE Append(clusters, <<a>>)
    IN {ToSet(c) : c \in ToSet(FoldLeft(Join, <<>>, SetToSortSeq(alerts, Earlier)))}

(* derive_incident_id hashes the rule and the sorted ids. *)
Incident(rule, alerts) ==
    [id |-> <<rule, Ids(alerts)>>, members |-> Ids(alerts), count |-> Cardinality(alerts)]

Swept(groups, window) == UNION {Sweep(g, window) : g \in groups}

Namespaces(alerts) == {{b \in alerts : b.space = a.space} : a \in alerts}
Tuples(alerts) == {{b \in alerts : b.tuple = a.tuple} : a \in alerts}
Pairs(alerts) == {{b \in alerts : b.pair = a.pair} : a \in alerts}

GroupNamespace(alerts) ==
    LET swept == Swept(Tuples(alerts), BurstWindow)
        bursts == {c \in swept : Cardinality(c) >= 2}
        left == UNION (swept \ bursts)
        pairs == Swept(Pairs(left), CampaignWindow)
    IN {Incident("burst", c) : c \in bursts}
       \cup {Incident(IF Cardinality(c) >= 2 THEN "campaign" ELSE "verified", c) : c \in pairs}

Correlate(alerts) ==
    LET verified == {a \in alerts : is_verified(a)}
    IN {Incident("unverified", {a}) : a \in alerts \ verified}
       \cup UNION {GroupNamespace(n) : n \in Namespaces(verified)}

(* compute_alert_reduction_metrics: nothing dropped, nothing twice. *)
Retained(alerts, incidents) ==
    \A a \in alerts : Cardinality({i \in incidents : a.id \in i.members}) = 1

-----------------------------------------------------------------------------
(* What the windows promise, said without a sweep.  Two alerts meet in a burst   *)
(* only with one tuple inside one window; a burst cannot be extended, and it     *)
(* starts as early as it can: an alert that is in no burst had nobody to its     *)
(* tuple inside the window after the last burst before it ended.  What is in no  *)
(* burst meets in campaigns in the same way.                                     *)
Spans(c, window) == \A a, b \in c : a.at <= b.at + window

First(c) == CHOOSE a \in c : \A b \in c : a = b \/ Earlier(a, b)

Maximal(clusters, group, window) ==
    /\ UNION clusters = group
    /\ \A c, d \in clusters : c # d => c \cap d = {}
    /\ \A c \in clusters : Spans(c, window)
    /\ \A c, d \in clusters : c # d /\ Earlier(First(c), First(d)) =>
          First(d).at > First(c).at + window

Grouped(alerts, incidents) ==
    LET Of(i) == {a \in alerts : a.id \in i.members}
        OfRule(r) == {Of(i) : i \in {j \in incidents : j.id[1] = r}}
        verified == {a \in alerts : is_verified(a)}
        left == verified \ UNION OfRule("burst")
    IN /\ Retained(alerts, incidents)
       /\ \A c \in OfRule("burst") : Cardinality(c) >= 2
       /\ \A n \in Namespaces(verified) : \A g \in Tuples(n) :
             Maximal({c \in OfRule("burst") : c \cap g # {}} \cup {{a} : a \in left \cap g},
                     g, BurstWindow)
       /\ \A n \in Namespaces(left) : \A g \in Pairs(n) :
             Maximal({c \in OfRule("campaign") \cup OfRule("verified") : c \cap g # {}},
                     g, CampaignWindow)
       /\ OfRule("unverified") = {{a} : a \in alerts \ verified}
=============================================================================
