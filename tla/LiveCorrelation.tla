-------------------------- MODULE LiveCorrelation ---------------------------
(* correlate_stored_attacks and the incident repository: four transactions in   *)
(* two databases, with no lock between them.                                     *)
EXTENDS ConsoleState, IncidentCorrelation

CONSTANT CorrectionIds

Alert(f, shape) ==
    [id |-> f, at |-> Shape[shape].at, tuple |-> Shape[shape].tuple,
     pair |-> Shape[shape].pair, space |-> Shape[shape].space]

AttackAlerts == {Alert(f, flows[f].shape) : f \in Attacks}

(* The rows are read; with none there is nothing to stitch and nothing to drop. *)
CorrelateRead(t) ==
    /\ At(t, "correlate")
    /\ IF AttackAlerts = {}
       THEN IF req[t].kind = "correlate" THEN Answer(t, "no_attack_flows") ELSE Goto(t, "reply")
       ELSE req' = [req EXCEPT ![t].pc = "group", ![t].read = AttackAlerts]
    /\ UNCHANGED <<flows, lastId, campaigns, store, books, keys, cases, range, notes, post, budget>>

(* correlate and insert_many: one transaction, ids already stored are skipped. *)
CorrelateStore(t) ==
    /\ At(t, "group")
    /\ LET found == Correlate(req[t].read)
           known == {i.id : i \in store.incidents}
       IN /\ Retained(req[t].read, found)
          /\ store' = [store EXCEPT !.incidents = @ \cup {i \in found : i.id \notin known}]
          /\ req' = [req EXCEPT ![t].pc = "mark", ![t].keep = {i.id : i \in found}]
    /\ UNCHANGED <<flows, lastId, campaigns, books, keys, cases, range, notes, post, budget>>

(* _mark_correlation_window_checked *)
CorrelateMark(t) ==
    /\ At(t, "mark")
    /\ flows' = [f \in DOMAIN flows |->
                    IF f \in Ids(req[t].read) THEN [flows[f] EXCEPT !.checked = TRUE] ELSE flows[f]]
    /\ Goto(t, "drop_stale")
    /\ UNCHANGED <<lastId, campaigns, store, books, keys, cases, range, notes, post, budget>>

Kept(keep) == {i \in store.incidents : i.id \in keep}

(* _drop_stale_incidents: everything this run did not compute goes.  A locked    *)
(* database is ignored; that takes another writer.                               *)
DropStale(t) ==
    /\ At(t, "drop_stale")
    /\ \/ store' = [store EXCEPT !.incidents = Kept(req[t].keep)]
       \/ ~req[t].alone /\ UNCHANGED store
    /\ req' = [req EXCEPT ![t].pc = "reply", ![t].outcome = IF @ = None THEN "correlated" ELSE @]
    /\ UNCHANGED <<flows, lastId, campaigns, books, keys, cases, range, notes, post, budget>>

BeginCorrelate(t) ==
    /\ Begin(t, "correlate", [pc |-> "correlate"])
    /\ UNCHANGED <<flows, lastId, campaigns, store, books, keys, cases, range, notes, post>>

-----------------------------------------------------------------------------
(* correct_incident_grouping, one transaction: an alert leaves its incident for  *)
(* one of its own.  The same request again is answered, not done again.          *)
Split(i, a) ==
    (store.incidents \ {i})
    \cup {[i EXCEPT !.members = @ \ {a}, !.count = @ - 1],
          [id |-> <<"split", {a}>>, members |-> {a}, count |-> 1]}

Correct(t, a, id) ==
    /\ Begin(t, "correct", [pc |-> "reply", flow |-> a])
    /\ LET done == {c \in store.corrections : c.id = id}
           homes == {i \in store.incidents : a \in i.members}
           target == <<"split", {a}>>
           entry(i) == [id |-> id, alert |-> a, target |-> i]
           free == target \notin {i.id : i \in store.incidents}
       IN \/ /\ done # {} \/ homes = {} \/ (~free /\ \E i \in homes : i.count > 1)
             /\ UNCHANGED store
          \/ /\ done = {}
             /\ \E i \in homes :
                  \/ /\ i.count <= 1
                     /\ store' = [store EXCEPT !.corrections = @ \cup {entry(i.id)}]
                  \/ /\ i.count > 1 /\ free
                     /\ store' = [incidents |-> Split(i, a),
                                  corrections |-> store.corrections \cup {entry(target)}]
    /\ UNCHANGED <<flows, lastId, campaigns, books, keys, cases, range, notes, post>>

CorrelationStep(t) ==
    \/ CorrelateRead(t) \/ CorrelateStore(t) \/ CorrelateMark(t) \/ DropStale(t)
    \/ BeginCorrelate(t)
    \/ MayBegin(t, "correct") /\ \E a \in DOMAIN flows, id \in CorrectionIds : Correct(t, a, id)
=============================================================================
