----------------------- MODULE AnalystStateRepository -----------------------
(* AnalystStateRepository.transition: optimistic, replayable state changes  *)
(* of alerts, with an append-only history, by analysts who retry and race.  *)
(*                                                                          *)
(* A call is one step, as its body is one BEGIN IMMEDIATE transaction; a    *)
(* database error may be reported after the commit took effect.  The actor  *)
(* stands for the actor and the rationale, which the code compares alike.   *)
EXTENDS Naturals, FiniteSets

CONSTANTS
    Alerts,   \* alert_candidate_id values
    Ids,      \* transition_id values
    Actors,   \* enabled actors with the analyst role
    Viewers,  \* enabled actors with the viewer role
    NoId, NoActor

ASSUME RepositoryConfiguration ==
    /\ NoId \notin Ids
    /\ NoActor \notin Actors \cup Viewers
    /\ Actors \cap Viewers = {}

VARIABLES
    known,     \* alerts in the alert repository
    row,       \* analyst_states; the implicit row of a new alert included
    events,    \* analyst_transition_events
    answer     \* the last call's command and its disposition

vars == <<known, row, events, answer>>

States == {"new", "in_review", "closed", "escalated"}
Targets == States \ {"new"}

(* A valid call's arguments. *)
Commands == [id : Ids, alert : Alerts, version : 0..2, to : Targets,
             actor : Actors \cup Viewers]
Events == [id : Ids, alert : Alerts, version : 0..1, to : Targets,
           actor : Actors, from : States]
Rows == [state : States, version : 0..2, by : Actors \cup {NoActor},
         last : Ids \cup {NoId}]
Dispositions == {"created", "existing", "identity_conflict", "version_conflict",
                 "transition_invalid", "not_found", "not_authorized", "failed"}

NoAnswer == <<>>
ImplicitNew == [state |-> "new", version |-> 0, by |-> NoActor, last |-> NoId]

(* The states that may follow a state. *)
Allowed(state) == CASE state = "new"       -> {"in_review"}
                    [] state = "in_review" -> {"closed", "escalated"}
                    [] OTHER               -> {}

TypeOK ==
    /\ known \subseteq Alerts
    /\ row \in [Alerts -> Rows]
    /\ events \subseteq Events
    /\ answer \in (Commands \X Dispositions) \cup {NoAnswer}

Init ==
    /\ known = {}
    /\ row = [a \in Alerts |-> ImplicitNew]
    /\ events = {}
    /\ answer = NoAnswer

(* The producer's pipeline persists an alert; it is never removed. *)
AlertPersisted(a) ==
    /\ a \notin known
    /\ known' = known \cup {a}
    /\ UNCHANGED <<row, events, answer>>

-----------------------------------------------------------------------------
Answer(c, disposition) == answer' = <<c, disposition>>

(* The event stored under the command's transition_id, if there is one. *)
Stored(c) == {e \in events : e.id = c.id}

(* The event says what the command says. *)
Matches(e, c) ==
    /\ e.alert = c.alert /\ e.version = c.version
    /\ e.to = c.to /\ e.actor = c.actor

(* The checks before the transaction. *)
Admitted(c) == c.actor \in Actors /\ c.alert \in known

(* No event is stored under the id, the version is current, the move legal. *)
Fresh(c) ==
    /\ Stored(c) = {}
    /\ row[c.alert].version = c.version
    /\ c.to \in Allowed(row[c.alert].state)

(* Mutant: the row's update leaves the last transition_id. *)
ApplyForgetsLast(c) ==
    /\ row' = [row EXCEPT ![c.alert].state = c.to,
                          ![c.alert].version = c.version + 1,
                          ![c.alert].by = c.actor]
    /\ events' = events \cup
                 {[id |-> c.id, alert |-> c.alert, version |-> c.version,
                   to |-> c.to, actor |-> c.actor, from |-> row[c.alert].state]}
    /\ UNCHANGED known

(* The two writes of the transaction. *)
Apply(c) ==
    /\ row' = [row EXCEPT ![c.alert] =
                 [state |-> c.to, version |-> c.version + 1,
                  by |-> c.actor, last |-> c.id]]
    /\ events' = events \cup
                 {[id |-> c.id, alert |-> c.alert, version |-> c.version,
                   to |-> c.to, actor |-> c.actor, from |-> row[c.alert].state]}
    /\ UNCHANGED known

TransitionCreated(c) ==
    /\ Admitted(c) /\ Fresh(c)
    /\ Apply(c)
    /\ Answer(c, "created")

(* The commit took effect and sqlite3 reported an error all the same. *)
TransitionUncertain(c) ==
    /\ Admitted(c) /\ Fresh(c)
    /\ Apply(c)
    /\ Answer(c, "failed")

(* Every answer that leaves the tables alone. *)
Refusal(c) ==
    IF c.actor \notin Actors THEN "not_authorized"
    ELSE IF c.alert \notin known THEN "not_found"
    ELSE IF Stored(c) # {}
         THEN IF \A e \in Stored(c) : Matches(e, c) THEN "existing"
                                                    ELSE "identity_conflict"
    ELSE IF row[c.alert].version # c.version THEN "version_conflict"
    ELSE "transition_invalid"

TransitionRefused(c) ==
    /\ ~(Admitted(c) /\ Fresh(c))
    /\ Answer(c, Refusal(c))
    /\ UNCHANGED <<known, row, events>>

(* The clock or the database fails and the transaction is rolled back. *)
TransitionFails(c) ==
    /\ Admitted(c)
    /\ Answer(c, "failed")
    /\ UNCHANGED <<known, row, events>>

Transition(c) ==
    \/ TransitionCreated(c) \/ TransitionUncertain(c)
    \/ TransitionRefused(c) \/ TransitionFails(c)

Next ==
    \/ \E a \in Alerts : AlertPersisted(a)
    \/ \E c \in Commands : Transition(c)

Spec == Init /\ [][Next]_vars

-----------------------------------------------------------------------------
History(a) == {e \in events : e.alert = a}

(* _validate_history never fails: an alert's events are one chain from      *)
(* "new" that ends in its row, whatever was retried or raced.               *)
HistoryChains ==
    \A a \in Alerts :
        /\ \A e \in History(a) :
              /\ e.version < row[a].version
              /\ e.from = "new" <=> e.version = 0
              /\ e.to \in Allowed(e.from)
              /\ e.version + 1 = row[a].version =>
                    /\ row[a].state = e.to
                    /\ row[a].by = e.actor /\ row[a].last = e.id
        /\ \A v \in 0..1 : v < row[a].version => \E e \in History(a) : e.version = v

(* Of two commands against one version at most one took effect, and one     *)
(* transition_id changed at most one alert, once.                           *)
NoLostUpdate ==
    \A e, f \in events :
        (e.alert = f.alert /\ e.version = f.version) \/ e.id = f.id => e = f

(* Whoever is told "created" or "existing" finds exactly that change in the *)
(* history, by that actor.                                                  *)
AcknowledgedIsStored ==
    \A c \in Commands :
        answer \in {<<c, "created">>, <<c, "existing">>} =>
            \E e \in events : e.id = c.id /\ Matches(e, c)

(* A closed or escalated alert never changes again, and no event is ever    *)
(* edited or removed.                                                       *)
EndsAreFinal ==
    [][/\ events \subseteq events'
       /\ \A a \in Alerts :
             row[a].state \in {"closed", "escalated"} => row'[a] = row[a]]_vars

(* Every reachable change is a step of the documented workflow. *)
Workflow == INSTANCE AlertWorkflow WITH stage <- [a \in Alerts |-> row[a].state]
WorkflowRefinement == Workflow!Spec

(* An alert's history is one chain in which nothing was lost, and every      *)
(* acknowledged change is in it, whatever was retried, reused or raced.      *)
RepositorySound == HistoryChains /\ NoLostUpdate /\ AcknowledgedIsStored
=============================================================================
