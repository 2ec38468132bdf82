-------------------- MODULE AnalystStateRepositoryProofs --------------------
(* Proofs about AnalystStateRepository, and about AnalystService in front   *)
(* of it, for any alerts, transition ids, people, commands and reloads.     *)
EXTENDS AnalystService, TLAPS

(* A row's version tells how far its state is from "new". *)
RowShape ==
    \A a \in Alerts :
        /\ row[a].state = "new" <=> row[a].version = 0
        /\ row[a].state = "in_review" <=> row[a].version = 1

(* The inductive invariant. *)
RepositoryInv == TypeOK /\ RowShape /\ HistoryChains /\ NoLostUpdate

(* The steps by what they do to the tables. *)
LEMMA NextCases ==
    ASSUME [Next]_vars
    PROVE  \/ UNCHANGED <<row, events>>
           \/ \E c \in Commands : Admitted(c) /\ Fresh(c) /\ Apply(c)
BY DEF Next, vars, AlertPersisted, Transition, TransitionCreated,
       TransitionUncertain, TransitionRefused, TransitionFails

(* What a change that takes effect does to the row and to the history. *)
LEMMA ApplyFacts ==
    ASSUME TypeOK, RowShape, NEW c \in Commands, Admitted(c), Fresh(c), Apply(c)
    PROVE  /\ c.actor \in Actors /\ c.id \in Ids /\ c.alert \in Alerts
           /\ c.version \in 0..1
           /\ c.to \in Allowed(row[c.alert].state)
           /\ row[c.alert].state \in States
           /\ row'[c.alert] = [state |-> c.to, version |-> c.version + 1,
                               by |-> c.actor, last |-> c.id]
           /\ \A a \in Alerts : a # c.alert => row'[a] = row[a]
           /\ DOMAIN row' = Alerts
           /\ c.to # "new"
           /\ c.version = 0 <=> row[c.alert].state = "new"
           /\ c.to = "in_review" <=> c.version = 0
<1>1. c.actor \in Actors /\ c.id \in Ids /\ c.alert \in Alerts /\ c.version \in 0..2
      /\ c.to \in Targets
  BY DEF Commands, Admitted
<1>2. row \in [Alerts -> Rows] /\ row[c.alert] \in Rows
  BY <1>1 DEF TypeOK
<1>3. row[c.alert].state \in States /\ row[c.alert].version \in 0..2
  BY <1>2 DEF Rows
<1>4. row[c.alert].version = c.version /\ c.to \in Allowed(row[c.alert].state)
  BY DEF Fresh
<1>5. row[c.alert].state \in {"new", "in_review"}
  BY <1>3, <1>4 DEF Allowed, States
<1>6. c.version \in 0..1 /\ (c.version = 0 <=> row[c.alert].state = "new")
  BY <1>1, <1>3, <1>4, <1>5 DEF RowShape
<1>7. c.to = "in_review" <=> c.version = 0
  BY <1>4, <1>5, <1>6 DEF Allowed
<1>8. c.to # "new"
  BY <1>1 DEF Targets
<1>9. /\ row'[c.alert] = [state |-> c.to, version |-> c.version + 1,
                          by |-> c.actor, last |-> c.id]
      /\ \A a \in Alerts : a # c.alert => row'[a] = row[a]
      /\ DOMAIN row' = Alerts
  BY <1>1, <1>2 DEF Apply
<1>. QED BY <1>1, <1>3, <1>4, <1>6, <1>7, <1>8, <1>9

(* The variables keep their types. *)
LEMMA TypeStep == ASSUME TypeOK, RowShape, [Next]_vars PROVE TypeOK'
<1>1. known' \subseteq Alerts
  <2>1. CASE known' = known
    BY <2>1 DEF TypeOK
  <2>2. CASE \E a \in Alerts : AlertPersisted(a)
    BY <2>2 DEF TypeOK, AlertPersisted
  <2>3. CASE \E c \in Commands : Transition(c)
    <3>1. PICK c \in Commands : Transition(c)
      BY <2>3
    <3>2. known' = known
      BY <3>1 DEF Transition, TransitionCreated, TransitionUncertain,
                  TransitionRefused, TransitionFails, Apply
    <3>. QED BY <2>1, <3>2
  <2>. QED BY <2>1, <2>2, <2>3 DEF Next, vars
<1>2. answer' \in (Commands \X Dispositions) \cup {NoAnswer}
  <2>1. CASE answer' = answer
    BY <2>1 DEF TypeOK
  <2>2. CASE \E c \in Commands : Transition(c)
    <3>1. PICK c \in Commands : Transition(c)
      BY <2>2
    <3>2. Refusal(c) \in Dispositions
      BY DEF Refusal, Dispositions
    <3>3. answer' \in {<<c, "created">>, <<c, "failed">>, <<c, Refusal(c)>>}
      BY <3>1 DEF Transition, TransitionCreated, TransitionUncertain,
                  TransitionRefused, TransitionFails, Answer
    <3>. QED BY <3>2, <3>3 DEF Dispositions
  <2>. QED BY <2>1, <2>2 DEF Next, vars, AlertPersisted
<1>3. row' \in [Alerts -> Rows] /\ events' \subseteq Events
  <2>1. CASE UNCHANGED <<row, events>>
    BY <2>1 DEF TypeOK
  <2>2. CASE \E c \in Commands : Admitted(c) /\ Fresh(c) /\ Apply(c)
    <3>1. PICK c \in Commands : Admitted(c) /\ Fresh(c) /\ Apply(c)
      BY <2>2
    <3>2. /\ c.actor \in Actors /\ c.id \in Ids /\ c.alert \in Alerts
          /\ c.version \in 0..1 /\ row[c.alert].state \in States
      BY <3>1, ApplyFacts
    <3>3. c.to \in Targets
      BY DEF Commands
    <3>4. [state |-> c.to, version |-> c.version + 1,
           by |-> c.actor, last |-> c.id] \in Rows
      BY <3>2, <3>3 DEF Rows, Targets
    <3>5. row' \in [Alerts -> Rows]
      BY <3>1, <3>2, <3>4 DEF TypeOK, Apply
    <3>6. [id |-> c.id, alert |-> c.alert, version |-> c.version, to |-> c.to,
           actor |-> c.actor, from |-> row[c.alert].state] \in Events
      BY <3>2, <3>3 DEF Events
    <3>7. events' \subseteq Events
      BY <3>1, <3>6 DEF TypeOK, Apply
    <3>. QED BY <3>5, <3>7
  <2>. QED BY <2>1, <2>2, NextCases
<1>. QED BY <1>1, <1>2, <1>3 DEF TypeOK

(* A change advances state and version together. *)
LEMMA RowShapeStep == ASSUME TypeOK, RowShape, [Next]_vars PROVE RowShape'
<1>1. CASE UNCHANGED <<row, events>>
  BY <1>1 DEF RowShape
<1>2. CASE \E c \in Commands : Admitted(c) /\ Fresh(c) /\ Apply(c)
  <2>1. PICK c \in Commands : Admitted(c) /\ Fresh(c) /\ Apply(c)
    BY <1>2
  <2>2. SUFFICES ASSUME NEW a \in Alerts
                 PROVE  /\ row'[a].state = "new" <=> row'[a].version = 0
                        /\ row'[a].state = "in_review" <=> row'[a].version = 1
    BY DEF RowShape
  <2>3. CASE a # c.alert
    BY <2>1, <2>3, ApplyFacts, ZenonT(60) DEF RowShape
  <2>4. CASE a = c.alert
    <3>1. row'[a] = [state |-> c.to, version |-> c.version + 1,
                     by |-> c.actor, last |-> c.id]
      BY <2>1, <2>4, ApplyFacts
    <3>2. c.version \in 0..1 /\ c.to # "new" /\ (c.to = "in_review" <=> c.version = 0)
      BY <2>1, ApplyFacts
    <3>. QED BY <3>1, <3>2
  <2>. QED BY <2>3, <2>4
<1>. QED BY <1>1, <1>2, NextCases

(* The new event has the number no stored event of its alert has yet, and   *)
(* an id that is not stored: the chain grows by one link and stays simple.  *)
LEMMA HistoryStep ==
    ASSUME RepositoryInv, [Next]_vars
    PROVE  HistoryChains' /\ NoLostUpdate'
<1>1. CASE UNCHANGED <<row, events>>
  BY <1>1 DEF RepositoryInv, HistoryChains, NoLostUpdate, History
<1>2. CASE \E c \in Commands : Admitted(c) /\ Fresh(c) /\ Apply(c)
  <2>1. PICK c \in Commands : Admitted(c) /\ Fresh(c) /\ Apply(c)
    BY <1>2
  <2> DEFINE n == [id |-> c.id, alert |-> c.alert, version |-> c.version,
                   to |-> c.to, actor |-> c.actor, from |-> row[c.alert].state]
  <2>2. events' = events \cup {n}
    BY <2>1 DEF Apply
  <2>3. /\ c.alert \in Alerts /\ c.version \in 0..1
        /\ c.to \in Allowed(row[c.alert].state)
        /\ row'[c.alert] = [state |-> c.to, version |-> c.version + 1,
                            by |-> c.actor, last |-> c.id]
        /\ \A a \in Alerts : a # c.alert => row'[a] = row[a]
        /\ c.version = 0 <=> row[c.alert].state = "new"
    BY <2>1, ApplyFacts DEF RepositoryInv
  <2>4. row[c.alert].version = c.version /\ \A e \in events : e.id # c.id
    BY <2>1 DEF Fresh, Stored
  <2>5. \A e \in events : e.version \in 0..1 /\ e.alert \in Alerts
    BY DEF RepositoryInv, TypeOK, Events
  <2>6. HistoryChains'
    <3>1. SUFFICES ASSUME NEW a \in Alerts
          PROVE /\ \A e \in History(a)' :
                      /\ e.version < row'[a].version
                      /\ e.from = "new" <=> e.version = 0
                      /\ e.to \in Allowed(e.from)
                      /\ e.version + 1 = row'[a].version =>
                            /\ row'[a].state = e.to
                            /\ row'[a].by = e.actor /\ row'[a].last = e.id
                /\ \A v \in 0..1 : v < row'[a].version =>
                      \E e \in History(a)' : e.version = v
      BY DEF HistoryChains
    <3>2. CASE a # c.alert
      <4>1. History(a)' = History(a) /\ row'[a] = row[a]
        BY <2>2, <2>3, <3>2 DEF History
      <4>. QED BY <4>1 DEF RepositoryInv, HistoryChains
    <3>3. CASE a = c.alert
      <4>1. History(a)' = History(a) \cup {n}
        BY <2>2, <3>3 DEF History
      <4>2. /\ row'[a].version = c.version + 1 /\ row'[a].state = c.to
            /\ row'[a].by = c.actor /\ row'[a].last = c.id
        BY <2>3, <3>3
      <4>3. ASSUME NEW e \in History(a)
            PROVE  /\ e.version < c.version
                   /\ e.from = "new" <=> e.version = 0
                   /\ e.to \in Allowed(e.from)
                   /\ e.version \in 0..1
        BY <2>4, <2>5, <3>3 DEF RepositoryInv, HistoryChains, History
      <4>4. /\ n.version = c.version /\ n.to = c.to /\ n.actor = c.actor
            /\ n.id = c.id /\ n.from = row[c.alert].state
        OBVIOUS
      <4>5. \A v \in 0..1 : v < c.version => \E e \in History(a) : e.version = v
        BY <2>4, <3>3 DEF RepositoryInv, HistoryChains
      <4>6. \A e \in History(a)' :
               /\ e.version < row'[a].version
               /\ e.from = "new" <=> e.version = 0
               /\ e.to \in Allowed(e.from)
               /\ e.version + 1 = row'[a].version =>
                     /\ row'[a].state = e.to
                     /\ row'[a].by = e.actor /\ row'[a].last = e.id
        <5>1. SUFFICES ASSUME NEW e \in History(a) \cup {n}
              PROVE /\ e.version < row'[a].version
                    /\ e.from = "new" <=> e.version = 0
                    /\ e.to \in Allowed(e.from)
                    /\ e.version + 1 = row'[a].version =>
                          /\ row'[a].state = e.to
                          /\ row'[a].by = e.actor /\ row'[a].last = e.id
          BY <4>1
        <5>2. CASE e \in History(a)
          BY <5>2, <4>2, <4>3, <2>3
        <5>3. CASE e = n
          <6>1. /\ e.version = c.version /\ e.to = c.to /\ e.actor = c.actor
                /\ e.id = c.id /\ e.from = row[c.alert].state
            BY <5>3, <4>4
          <6> HIDE DEF n
          <6>. QED BY <6>1, <4>2, <2>3
        <5>. QED BY <5>2, <5>3
      <4>7. ASSUME NEW v \in 0..1, v < row'[a].version
            PROVE  \E e \in History(a)' : e.version = v
        <5>1. CASE v < c.version
          BY <5>1, <4>1, <4>5
        <5>2. CASE v = c.version
          BY <5>2, <4>1, <4>4
        <5>. QED BY <5>1, <5>2, <4>2, <4>7, <2>3
      <4>. QED BY <4>6, <4>7
    <3>. QED BY <3>2, <3>3
  <2>7. NoLostUpdate'
    <3>1. ASSUME NEW e \in events
          PROVE  ~(e.alert = c.alert /\ e.version = c.version) /\ e.id # c.id
      BY <2>3, <2>4, <2>5 DEF RepositoryInv, HistoryChains, History
    <3>2. n.alert = c.alert /\ n.version = c.version /\ n.id = c.id
      OBVIOUS
    <3>. HIDE DEF n
    <3>. QED BY <2>2, <3>1, <3>2 DEF RepositoryInv, NoLostUpdate
  <2>. QED BY <2>6, <2>7
<1>. QED BY <1>1, <1>2, NextCases

(* An empty repository satisfies the invariant. *)
LEMMA InvInit == ASSUME Init PROVE RepositoryInv
BY RepositoryConfiguration
   DEF Init, RepositoryInv, TypeOK, RowShape, HistoryChains, NoLostUpdate, History,
       ImplicitNew, Rows, States, NoAnswer

(* Every call keeps it. *)
LEMMA InvStep == ASSUME RepositoryInv, [Next]_vars PROVE RepositoryInv'
BY TypeStep, RowShapeStep, HistoryStep DEF RepositoryInv

(* So it always holds. *)
LEMMA InvHolds == Spec => []RepositoryInv
BY InvInit, InvStep, PTL DEF Spec

(* Stored rows, events and answers keep the shapes the schema's CHECKs      *)
(* demand, in every sequence of calls.                                      *)
THEOREM RepositoryTypeCorrect == Spec => []TypeOK
<1>1. RepositoryInv => TypeOK
  BY DEF RepositoryInv
<1>. QED BY <1>1, InvHolds, PTL

(* _validate_history succeeds on every alert in every reachable state. *)
THEOREM HistoryAlwaysValid == Spec => []HistoryChains
<1>1. RepositoryInv => HistoryChains
  BY DEF RepositoryInv
<1>. QED BY <1>1, InvHolds, PTL

(* Racing and retried commands never overwrite each other's change. *)
THEOREM UpdatesAreNotLost == Spec => []NoLostUpdate
<1>1. RepositoryInv => NoLostUpdate
  BY DEF RepositoryInv
<1>. QED BY <1>1, InvHolds, PTL

(* Every call keeps the acknowledgements true. *)
LEMMA AcknowledgedStep ==
    ASSUME AcknowledgedIsStored, [Next]_vars PROVE AcknowledgedIsStored'
<1>1. CASE answer' = answer
  <2>1. events \subseteq events'
    BY NextCases DEF Apply
  <2>. QED BY <1>1, <2>1 DEF AcknowledgedIsStored, Matches
<1>2. CASE \E c \in Commands : Transition(c)
  <2>1. PICK c \in Commands : Transition(c)
    BY <1>2
  <2>2. SUFFICES ASSUME answer' \in {<<c, "created">>, <<c, "existing">>}
                 PROVE  \E e \in events' : e.id = c.id /\ Matches(e, c)
    <3>1. \E d : answer' = <<c, d>>
      BY <2>1 DEF Transition, TransitionCreated, TransitionUncertain,
                  TransitionRefused, TransitionFails, Answer
    <3>. QED BY <3>1 DEF AcknowledgedIsStored, Matches
  <2>3. CASE TransitionCreated(c)
    <3> DEFINE n == [id |-> c.id, alert |-> c.alert, version |-> c.version,
                     to |-> c.to, actor |-> c.actor, from |-> row[c.alert].state]
    <3>1. n \in events'
      BY <2>3 DEF TransitionCreated, Apply
    <3>2. n.id = c.id /\ Matches(n, c)
      BY DEF Matches
    <3>. QED BY <3>1, <3>2
  <2>4. CASE TransitionRefused(c)
    <3>1. Refusal(c) = "existing"
      BY <2>2, <2>4 DEF TransitionRefused, Answer, Refusal
    <3>2. Stored(c) # {} /\ \A e \in Stored(c) : Matches(e, c)
      BY <3>1 DEF Refusal
    <3>3. events' = events
      BY <2>4 DEF TransitionRefused
    <3>. QED BY <3>2, <3>3 DEF Stored
  <2>5. CASE TransitionUncertain(c) \/ TransitionFails(c)
    BY <2>2, <2>5 DEF TransitionUncertain, TransitionFails, Answer
  <2>. QED BY <2>1, <2>3, <2>4, <2>5 DEF Transition
<1>. QED BY <1>1, <1>2 DEF Next, vars, AlertPersisted

(* An acknowledgement always has its change in the history. *)
THEOREM AcknowledgementsAreTrue == Spec => []AcknowledgedIsStored
<1>1. ASSUME Init PROVE AcknowledgedIsStored
  BY <1>1 DEF Init, AcknowledgedIsStored, NoAnswer
<1>. QED BY <1>1, AcknowledgedStep, PTL DEF Spec

(* Whatever was retried, reused or raced, an alert's history is one chain    *)
(* without a lost update and holds every acknowledged change.                *)
THEOREM RepositoryIsSound == Spec => []RepositorySound
<1>1. HistoryChains /\ NoLostUpdate /\ AcknowledgedIsStored => RepositorySound
  BY DEF RepositorySound
<1>. QED
  BY <1>1, HistoryAlwaysValid, UpdatesAreNotLost, AcknowledgementsAreTrue, PTL

(* Ended alerts and stored events never change. *)
THEOREM EndsStay == Spec => EndsAreFinal
<1>1. ASSUME RepositoryInv, [Next]_vars
      PROVE  /\ events \subseteq events'
             /\ \A a \in Alerts :
                   row[a].state \in {"closed", "escalated"} => row'[a] = row[a]
  <2>1. CASE UNCHANGED <<row, events>>
    BY <2>1
  <2>2. CASE \E c \in Commands : Admitted(c) /\ Fresh(c) /\ Apply(c)
    <3>1. PICK c \in Commands : Admitted(c) /\ Fresh(c) /\ Apply(c)
      BY <2>2
    <3>2. events \subseteq events'
      BY <3>1 DEF Apply
    <3>3. row[c.alert].state \notin {"closed", "escalated"}
      BY <3>1 DEF Fresh, Allowed
    <3>4. \A a \in Alerts : a # c.alert => row'[a] = row[a]
      BY <1>1, <3>1, ApplyFacts DEF RepositoryInv
    <3>. QED BY <3>2, <3>3, <3>4
  <2>. QED BY <1>1, <2>1, <2>2, NextCases
<1>2. RepositoryInv /\ [Next]_vars =>
         [/\ events \subseteq events'
          /\ \A a \in Alerts :
                row[a].state \in {"closed", "escalated"} => row'[a] = row[a]]_vars
  BY <1>1
<1>. QED BY <1>2, InvHolds, PTL DEF Spec, EndsAreFinal

(* The repository implements the documented workflow. *)
THEOREM RepositoryImplementsWorkflow == Spec => WorkflowRefinement
<1>1. ASSUME Init PROVE Workflow!Init
  BY <1>1 DEF Init, Workflow!Init, ImplicitNew
<1>2. ASSUME RepositoryInv, [Next]_vars
      PROVE  [Workflow!Next]_([a \in Alerts |-> row[a].state])
  <2>1. CASE UNCHANGED <<row, events>>
    BY <2>1
  <2>2. CASE \E c \in Commands : Admitted(c) /\ Fresh(c) /\ Apply(c)
    <3>1. PICK c \in Commands : Admitted(c) /\ Fresh(c) /\ Apply(c)
      BY <2>2
    <3>0. /\ c.alert \in Alerts
          /\ c.to \in Allowed(row[c.alert].state)
          /\ row[c.alert].state \in States
          /\ row'[c.alert] = [state |-> c.to, version |-> c.version + 1,
                              by |-> c.actor, last |-> c.id]
          /\ \A a \in Alerts : a # c.alert => row'[a] = row[a]
      BY <1>2, <3>1, ApplyFacts DEF RepositoryInv
    <3>2. /\ c.alert \in Alerts
          /\ c.to \in Allowed(row[c.alert].state)
          /\ row[c.alert].state \in States
          /\ row'[c.alert].state = c.to
          /\ \A a \in Alerts : a # c.alert => row'[a] = row[a]
      BY <3>0
    <3>3. [a \in Alerts |-> row'[a].state] =
             [[a \in Alerts |-> row[a].state] EXCEPT ![c.alert] = c.to]
      BY <3>2
    <3>4. \/ row[c.alert].state = "new" /\ c.to = "in_review"
          \/ row[c.alert].state = "in_review" /\ c.to = "closed"
          \/ row[c.alert].state = "in_review" /\ c.to = "escalated"
      BY <3>2 DEF Allowed, States
    <3>5. Workflow!Review(c.alert) \/ Workflow!Close(c.alert)
             \/ Workflow!Escalate(c.alert)
      BY <3>2, <3>3, <3>4
         DEF Workflow!Review, Workflow!Close, Workflow!Escalate, Workflow!Step
    <3>. QED BY <3>2, <3>5 DEF Workflow!Next
  <2>. QED BY <1>2, <2>1, <2>2, NextCases
<1>. QED BY <1>1, <1>2, InvHolds, PTL DEF Spec, WorkflowRefinement, Workflow!Spec

-----------------------------------------------------------------------------
(* The service in front of the repository.  A connection that a listener    *)
(* serves, and the change it asks for.                                      *)
Places == {"authenticated", "admitted", "checked", "dispatched", "raised"}
Connections ==
    [phase : Places, person : People, request : Posts \cup {Reading}, token : Nat,
     trail : SUBSET {"request_admitted"}, outcome : Dispositions \cup {"none", "read"}]
Recorded(c) == \E e \in events : e.id = c.id /\ Matches(e, c)

(* What the stages a connection went through have established. *)
ConnectionTrue(l) ==
    worker[l] \in Connections =>
        /\ worker[l].request # Reading => worker[l].request.actor = worker[l].person
        /\ worker[l].phase # "authenticated" => worker[l].trail = {"request_admitted"}
        /\ worker[l].request # Reading /\ worker[l].token # 0 =>
              \E p \in pages : /\ p.generation = worker[l].token
                               /\ p.post = worker[l].request
        /\ worker[l].phase = "checked" =>
              /\ worker[l].request # Reading /\ worker[l].person \notin withdrawn
              /\ l = "browser" => worker[l].token = life.generation
        /\ worker[l].phase = "dispatched" /\ worker[l].outcome \in Successes =>
              worker[l].request # Reading /\ Recorded(worker[l].request)

(* The threads, the forms and the lifecycle keep their shapes. *)
Lives == [state : {"stopped", "stopping", "policy_loaded", "accepting", "failed"},
          generation : Nat]
ServiceTypeOK ==
    /\ worker \in [Listeners -> {NoWork, Serving, Finished} \cup Connections]
    /\ pages \subseteq [generation : Nat, post : Posts]
    /\ life \in Lives

(* Between two generations no worker is there; the browser's listener only  *)
(* ever works in one; nobody restricted when the credentials were loaded is *)
(* among them.                                                              *)
Between ==
    /\ control.pc \in {"maintaining", "loading", "opening"} =>
           \A l \in Listeners : worker[l] = NoWork
    /\ worker["browser"] # NoWork => life.generation # 0
    /\ registry \cap withdrawn = {}

(* A snapshot is of a repository that kept its promises, and holds what was *)
(* told by then.                                                            *)
Copy(s) == INSTANCE AnalystStateRepository
              WITH known <- s.known, row <- s.row, events <- s.events, answer <- NoAnswer
CopySound(s) ==
    /\ Copy(s)!TypeOK /\ Copy(s)!HistoryChains /\ Copy(s)!NoLostUpdate
    /\ \A a \in Alerts : /\ s.row[a].state = "new" <=> s.row[a].version = 0
                         /\ s.row[a].state = "in_review" <=> s.row[a].version = 1
    /\ \A x \in s.told : /\ \E e \in s.events : e.id = x[1].id /\ Matches(e, x[1])
                         /\ x[2] = {"request_admitted", "request_completed"}
CopiesSound == \A s \in saved : CopySound(s)

(* The inductive invariant of the service. *)
ServiceInv ==
    /\ RepositoryInv /\ AcknowledgedIsStored /\ ServiceTypeOK /\ Between
    /\ \A l \in Listeners : ConnectionTrue(l)
    /\ SuccessIsRecorded /\ CopiesSound

-----------------------------------------------------------------------------
(* The steps of a worker by what they do to its connection. *)
Begun(l) ==
    \E k \in Clients : \E token \in Tokens(l, k.request) :
        Connect(l, k.person, k.request, token)
Ended(l) == ConnectionLost(l) \/ Withdrawn(l) \/ DispatchRefused(l) \/ WorkerStops(l)

(* The steps that no worker takes. *)
Control ==
    \/ ControlStep \/ ExitStopped \/ Maintain \/ TriggerReload
    \/ \E person \in Changing : CredentialRestricted(person) \/ CertificateExpires(person)

(* Every step is one of a listener, of the failing browser worker, of the   *)
(* threads around them, or of the producer.                                 *)
LEMMA ServiceCases ==
    ASSUME ServiceNext
    PROVE  \/ \E l \in Listeners :
                 \/ Begun(l) \/ Ended(l) \/ RequestAudited(l)
                 \/ DispatchChecked(l) \/ DispatchPost(l) \/ DispatchGet(l)
                 \/ Answered(l) \/ AnswerUnavailable(l)
           \/ WorkerRaises \/ WorkerCloses \/ Control
           \/ \E a \in Alerts : Persisted(a)
<1>1. "api" \in Listeners /\ "browser" \in Listeners
  BY DEF Listeners
<1>2. CASE BrowserStep
  BY <1>1, <1>2 DEF BrowserStep, Ended, BrowserConnectionLost, BrowserRequestAudited,
                    BrowserDispatchRefused, BrowserDispatchChecked, BrowserDispatchPost,
                    BrowserDispatchGet, BrowserAnswered, BrowserAnswerUnavailable
<1>3. CASE ApiStep
  BY <1>1, <1>3 DEF ApiStep, Ended
<1>4. CASE \E k \in Clients : \E token \in Tokens(k.at, k.request) :
              \/ k.at = "api" /\ Connect("api", k.person, k.request, token)
              \/ k.at = "browser" /\ BrowserConnect(k.person, k.request, token)
  BY <1>1, <1>4 DEF Begun, BrowserConnect
<1>. QED BY <1>2, <1>3, <1>4 DEF ServiceNext, Control

(* What the shapes say of a worker in a phase. *)
LEMMA WorkerFacts ==
    ASSUME ServiceTypeOK, NEW l \in Listeners
    PROVE  /\ worker[l].phase \in Places <=> worker[l] \in Connections
           /\ worker[l] \in Gone \cup {Serving} => worker[l].phase \notin Places
           /\ worker[l] \in {NoWork, Serving, Finished} \cup Connections
           /\ NoWork \notin Connections /\ Serving \notin Connections
           /\ Finished \notin Connections /\ Serving # NoWork /\ Finished # NoWork
<1>1. /\ NoWork.phase = "none" /\ Serving.phase = "serving" /\ Finished.phase = "finished"
  BY DEF NoWork, Serving, Finished
<1>2. \A c \in Connections : c.phase \in Places
  BY DEF Connections
<1>3. "none" \notin Places /\ "serving" \notin Places /\ "finished" \notin Places
  BY DEF Places
<1>4. worker[l] \in {NoWork, Serving, Finished} \cup Connections
  BY DEF ServiceTypeOK
<1>. QED BY <1>1, <1>2, <1>3, <1>4 DEF Gone

(* The tables change as the repository's calls change them. *)
LEMMA ServiceKeepsRepository ==
    ASSUME RepositoryInv, AcknowledgedIsStored, [Next]_vars \/ AnswerTaken
    PROVE  /\ RepositoryInv' /\ AcknowledgedIsStored'
           /\ events \subseteq events'
           /\ \A c : Recorded(c) => Recorded(c)'
<1>1. CASE [Next]_vars
  <2>1. events \subseteq events'
    BY <1>1, NextCases DEF Apply
  <2>2. \A c : Recorded(c) => Recorded(c)'
    BY <2>1 DEF Recorded, Matches
  <2>. QED BY <1>1, <2>1, <2>2, InvStep, AcknowledgedStep
<1>2. CASE AnswerTaken
  <2>1. UNCHANGED <<known, row, events>> /\ answer' = NoAnswer
    BY <1>2 DEF AnswerTaken
  <2>2. RepositoryInv'
    BY <2>1 DEF RepositoryInv, TypeOK, RowShape, HistoryChains, History, NoLostUpdate
  <2>3. AcknowledgedIsStored'
    BY <2>1 DEF AcknowledgedIsStored, NoAnswer
  <2>. QED BY <2>1, <2>2, <2>3 DEF Recorded, Matches
<1>. QED BY <1>1, <1>2

(* A connection that stays as it is stays true. *)
LEMMA ConnectionKept ==
    ASSUME NEW l \in Listeners, ConnectionTrue(l), worker'[l] = worker[l],
           pages \subseteq pages', \A c : Recorded(c) => Recorded(c)',
           withdrawn' = withdrawn, life'.generation = life.generation
    PROVE  ConnectionTrue(l)'
<1>1. SUFFICES ASSUME worker[l] \in Connections
               PROVE  /\ worker[l].request # Reading =>
                            worker[l].request.actor = worker[l].person
                      /\ worker[l].phase # "authenticated" =>
                            worker[l].trail = {"request_admitted"}
                      /\ worker[l].request # Reading /\ worker[l].token # 0 =>
                            \E p \in pages' : /\ p.generation = worker[l].token
                                              /\ p.post = worker[l].request
                      /\ worker[l].phase = "checked" =>
                            /\ worker[l].request # Reading
                            /\ worker[l].person \notin withdrawn
                            /\ l = "browser" => worker[l].token = life.generation
                      /\ worker[l].phase = "dispatched" /\ worker[l].outcome \in Successes =>
                            worker[l].request # Reading /\ Recorded(worker[l].request)'
  BY DEF ConnectionTrue, Recorded
<1>. QED BY <1>1 DEF ConnectionTrue

(* A worker moves to a state of the right shape, and its connection, if it  *)
(* has one, is true. *)
LEMMA WorkerMoves ==
    ASSUME ServiceInv, NEW l \in Listeners, worker[l] # NoWork,
           NEW w \in {Serving, Finished} \cup Connections, Becomes(l, w),
           [Next]_vars \/ AnswerTaken,
           UNCHANGED <<policyVars, control>>,
           life' = life \/ life' = [life EXCEPT !.state = "failed"],
           pages \subseteq pages', pages' \subseteq [generation : Nat, post : Posts],
           w \in Connections => ConnectionTrue(l)'
    PROVE  /\ RepositoryInv' /\ AcknowledgedIsStored' /\ ServiceTypeOK' /\ Between'
           /\ \A k \in Listeners : ConnectionTrue(k)'
           /\ events \subseteq events'
<1>1. ServiceTypeOK /\ Between
  BY DEF ServiceInv
<1>2. /\ RepositoryInv' /\ AcknowledgedIsStored' /\ events \subseteq events'
      /\ \A c : Recorded(c) => Recorded(c)'
  BY ServiceKeepsRepository DEF ServiceInv
<1>3. /\ worker'[l] = w /\ \A k \in Listeners : k # l => worker'[k] = worker[k]
      /\ worker' \in [Listeners -> {NoWork, Serving, Finished} \cup Connections]
  BY <1>1 DEF ServiceTypeOK, Becomes
<1>4. life' \in Lives /\ life'.generation = life.generation
  BY <1>1 DEF ServiceTypeOK, Lives
<1>5. ServiceTypeOK'
  BY <1>1, <1>3, <1>4 DEF ServiceTypeOK
<1>6. w # NoWork /\ Serving \notin Connections /\ Finished \notin Connections
  BY <1>1, WorkerFacts
<1>7. Between'
  <2>1. UNCHANGED <<registry, withdrawn, control>>
    BY DEF policyVars
  <2>2. control.pc \notin {"maintaining", "loading", "opening"}
    BY <1>1 DEF Between
  <2>3. worker'["browser"] # NoWork => worker["browser"] # NoWork
    BY <1>3 DEF Listeners
  <2>. QED BY <1>1, <1>4, <2>1, <2>2, <2>3 DEF Between
<1>8. ASSUME NEW k \in Listeners PROVE ConnectionTrue(k)'
  <2>1. CASE k # l
    BY <1>2, <1>3, <1>4, <2>1, ConnectionKept DEF ServiceInv, policyVars
  <2>2. CASE k = l /\ w \in Connections
    BY <2>2
  <2>3. CASE k = l /\ w \notin Connections
    <3>1. worker'[l] \notin Connections
      BY <1>3, <2>3
    <3>. QED BY <2>3, <3>1 DEF ConnectionTrue
  <2>. QED BY <2>1, <2>2, <2>3
<1>. QED BY <1>2, <1>5, <1>7, <1>8

(* Nothing more is told, so what was told stays recorded. *)
LEMMA ToldKept ==
    ASSUME SuccessIsRecorded, told' = told, events \subseteq events'
    PROVE  SuccessIsRecorded'
BY DEF SuccessIsRecorded, Matches

(* The snapshots taken before stay as they are. *)
LEMMA CopiesKept == ASSUME CopiesSound, saved' = saved PROVE CopiesSound'
BY DEF CopiesSound

(* A step that only moves a worker, between requests or up to a dispatch. *)
LEMMA OnlyMoves ==
    ASSUME ServiceInv, NEW l \in Listeners, worker[l] # NoWork,
           NEW w \in {Serving, Finished} \cup Connections, Becomes(l, w), OnlyWorkers,
           w \in Connections => ConnectionTrue(l)'
    PROVE  ServiceInv'
<1>1. /\ vars' = vars /\ UNCHANGED <<policyVars, control, pages, told, saved, life>>
  BY DEF OnlyWorkers, controlVars
<1>2. [Next]_vars /\ pages' \subseteq [generation : Nat, post : Posts]
  BY <1>1 DEF ServiceInv, ServiceTypeOK
<1>3. /\ RepositoryInv' /\ AcknowledgedIsStored' /\ ServiceTypeOK' /\ Between'
      /\ \A k \in Listeners : ConnectionTrue(k)' /\ events \subseteq events'
  BY <1>1, <1>2, WorkerMoves
<1>. QED BY <1>1, <1>3, ToldKept, CopiesKept DEF ServiceInv

(* A connection is accepted. *)
LEMMA BegunStep == ASSUME ServiceInv, NEW l \in Listeners, Begun(l) PROVE ServiceInv'
<1>1. ServiceTypeOK
  BY DEF ServiceInv
<1>2. PICK person \in People, request \in Posts \cup {Reading}, token \in Nat :
         /\ Connect(l, person, request, token)
         /\ request # Reading => request.actor = person
         /\ token # 0 => \E p \in pages : p.generation = token /\ p.post = request
  <2>1. PICK k \in Clients :
           \E token \in Tokens(l, k.request) : Connect(l, k.person, k.request, token)
    BY DEF Begun
  <2>5. PICK token \in Tokens(l, k.request) : Connect(l, k.person, k.request, token)
    BY <2>1
  <2>2. /\ k.person \in People /\ k.request \in Posts \cup {Reading}
        /\ k.request # Reading => k.request.actor = k.person
    BY ServiceConfiguration DEF Posts
  <2>3. token = 0 \/ \E p \in pages : p.generation = token /\ p.post = k.request
    BY DEF Tokens
  <2>4. \A p \in pages : p.generation \in Nat
    BY <1>1 DEF ServiceTypeOK
  <2>. QED BY <2>2, <2>3, <2>4, <2>5
<1> DEFINE w == [phase |-> "authenticated", person |-> person, request |-> request,
                 token |-> token, trail |-> {}, outcome |-> "none"]
<1>3. w \in Connections
  BY DEF Connections, Places
<1>4. /\ w.phase = "authenticated" /\ w.person = person /\ w.request = request
      /\ w.token = token
  OBVIOUS
<1>5. worker[l] = Serving /\ Becomes(l, w) /\ OnlyWorkers
  BY <1>2 DEF Connect
<1> HIDE DEF w
<1>6. worker'[l] = w /\ pages' = pages
  BY <1>1, <1>5 DEF Becomes, OnlyWorkers, ServiceTypeOK
<1>7. ConnectionTrue(l)'
  BY <1>2, <1>4, <1>6 DEF ConnectionTrue
<1>8. worker[l] # NoWork
  BY <1>1, <1>5, WorkerFacts
<1>. QED BY <1>3, <1>5, <1>7, <1>8, OnlyMoves

(* A connection ends without an answer, or its worker does. *)
LEMMA EndedStep == ASSUME ServiceInv, NEW l \in Listeners, Ended(l) PROVE ServiceInv'
<1>1. OnlyWorkers /\ (Becomes(l, Serving) \/ Becomes(l, Finished))
  BY DEF Ended, ConnectionLost, Withdrawn, DispatchRefused, WorkerStops
<1>2. worker[l] = Serving \/ worker[l].phase \in {"authenticated", "admitted"}
  BY DEF Ended, ConnectionLost, Withdrawn, DispatchRefused, MayDispatch, WorkerStops
<1>3. worker[l] # NoWork /\ Serving \notin Connections /\ Finished \notin Connections
  BY <1>2, WorkerFacts DEF ServiceInv, Gone, Places
<1>. QED BY <1>1, <1>3, OnlyMoves

(* The row of the admission is stored, or the request dropped. *)
LEMMA AuditedStep ==
    ASSUME ServiceInv, NEW l \in Listeners, RequestAudited(l) PROVE ServiceInv'
<1>1. ServiceTypeOK /\ worker[l].phase = "authenticated" /\ OnlyWorkers
  BY DEF ServiceInv, RequestAudited
<1>2. worker[l] \in Connections /\ worker[l] # NoWork /\ Serving \notin Connections
  BY <1>1, WorkerFacts DEF Places
<1>3. CASE Becomes(l, Serving)
  BY <1>1, <1>2, <1>3, OnlyMoves
<1>4. CASE worker' = [worker EXCEPT ![l].phase = "admitted",
                                    ![l].trail = {"request_admitted"}]
  <2> DEFINE w == [worker[l] EXCEPT !.phase = "admitted", !.trail = {"request_admitted"}]
  <2>1. w \in Connections
    BY <1>2 DEF Connections, Places
  <2>2. /\ w.phase = "admitted" /\ w.person = worker[l].person
        /\ w.request = worker[l].request /\ w.token = worker[l].token
        /\ w.trail = {"request_admitted"}
    BY <1>2 DEF Connections
  <2>3. Becomes(l, w)
    BY <1>1, <1>4 DEF Becomes, ServiceTypeOK
  <2> HIDE DEF w
  <2>4. worker'[l] = w /\ pages' = pages
    BY <1>1, <2>3 DEF Becomes, OnlyWorkers, ServiceTypeOK
  <2>5. ConnectionTrue(l)
    BY DEF ServiceInv
  <2>6. ConnectionTrue(l)'
    BY <1>2, <2>2, <2>4, <2>5 DEF ConnectionTrue
  <2>. QED BY <1>1, <1>2, <2>1, <2>3, <2>6, OnlyMoves
<1>. QED BY <1>3, <1>4 DEF RequestAudited

(* The credential and the form are looked at again. *)
LEMMA CheckedStep ==
    ASSUME ServiceInv, NEW l \in Listeners, DispatchChecked(l) PROVE ServiceInv'
<1>1. /\ ServiceTypeOK /\ Between /\ ConnectionTrue(l) /\ OnlyWorkers
      /\ worker[l].phase = "admitted" /\ worker[l].request # Reading
      /\ worker[l].person \in registry
      /\ l = "browser" => worker[l].token = life.generation
  BY DEF ServiceInv, DispatchChecked, MayDispatch, Known, FormAccepted
<1>2. worker[l] \in Connections /\ worker[l] # NoWork
  BY <1>1, WorkerFacts DEF Places
<1> DEFINE w == [worker[l] EXCEPT !.phase = "checked"]
<1>3. w \in Connections
  BY <1>2 DEF Connections, Places
<1>4. /\ w.phase = "checked" /\ w.person = worker[l].person
      /\ w.request = worker[l].request /\ w.token = worker[l].token
      /\ w.trail = worker[l].trail
  BY <1>2 DEF Connections
<1>5. Becomes(l, w)
  BY <1>1 DEF Becomes, ServiceTypeOK, DispatchChecked, Phase
<1> HIDE DEF w
<1>6. worker'[l] = w /\ UNCHANGED <<pages, withdrawn, life>>
  BY <1>1, <1>5 DEF Becomes, OnlyWorkers, ServiceTypeOK, policyVars, controlVars
<1>7. worker[l].person \notin withdrawn
  BY <1>1 DEF Between
<1>8. ConnectionTrue(l)'
  BY <1>1, <1>2, <1>4, <1>6, <1>7 DEF ConnectionTrue
<1>. QED BY <1>1, <1>2, <1>3, <1>5, <1>8, OnlyMoves

(* A call's answer is one of its own command, and a success is recorded. *)
LEMMA TransitionTold ==
    ASSUME AcknowledgedIsStored, NEW c \in Commands, Transition(c)
    PROVE  /\ answer'[2] \in Dispositions
           /\ answer'[2] \in Successes => Recorded(c)'
           /\ [Next]_vars
<1>1. [Next]_vars
  BY DEF Next
<1>2. AcknowledgedIsStored'
  BY <1>1, AcknowledgedStep
<1>3. PICK d \in Dispositions : answer' = <<c, d>>
  BY DEF Transition, TransitionCreated, TransitionUncertain, TransitionRefused,
         TransitionFails, Answer, Refusal, Dispositions
<1>4. answer'[2] = d
  BY <1>3
<1>. QED BY <1>1, <1>2, <1>3, <1>4 DEF AcknowledgedIsStored, Recorded, Successes

(* Whoever posts posts a command. *)
LEMMA PostsAreCommands ==
    ASSUME NEW l \in Listeners, worker[l] \in Connections, worker[l].request # Reading
    PROVE  worker[l].request \in Posts /\ worker[l].request \in Commands
<1>1. worker[l].request \in Posts
  BY DEF Connections
<1>. QED BY <1>1, ServiceConfiguration DEF Posts

(* The command is given to the repository. *)
LEMMA PostStep == ASSUME ServiceInv, NEW l \in Listeners, DispatchPost(l) PROVE ServiceInv'
<1>1. /\ ServiceTypeOK /\ worker[l].phase = "checked" /\ AcknowledgedIsStored
      /\ ConnectionTrue(l) /\ SuccessIsRecorded
  BY DEF ServiceInv, DispatchPost
<1>2. worker[l] \in Connections /\ worker[l] # NoWork
  BY <1>1, WorkerFacts DEF Places
<1>3. PICK c \in Posts : c = worker[l].request /\ c \in Commands /\ c # Reading
  BY <1>1, <1>2, PostsAreCommands DEF ConnectionTrue
<1>4. PICK d \in Dispositions : answer'[2] = d /\ (d \in Successes => Recorded(c)')
  BY <1>1, <1>3, TransitionTold DEF DispatchPost
<1>5. [Next]_vars
  BY <1>1, <1>3, TransitionTold DEF DispatchPost
<1> DEFINE w == [worker[l] EXCEPT !.phase = "dispatched", !.outcome = d]
<1>6. w \in Connections
  BY <1>2 DEF Connections, Places
<1>7. /\ w.phase = "dispatched" /\ w.person = worker[l].person
      /\ w.request = c /\ w.token = worker[l].token
      /\ w.trail = worker[l].trail /\ w.outcome = d
  BY <1>2, <1>3 DEF Connections
<1>8. Becomes(l, w)
  BY <1>1, <1>4 DEF Becomes, ServiceTypeOK, DispatchPost
<1> HIDE DEF w
<1>9. worker'[l] = w /\ UNCHANGED <<pages, told, saved, policyVars, control, life>>
  BY <1>1, <1>8 DEF Becomes, DispatchPost, ServiceTypeOK, controlVars
<1>10. ConnectionTrue(l)'
  <2>1. /\ worker'[l].request = c /\ worker'[l].outcome = d
        /\ worker'[l].person = worker[l].person /\ worker'[l].token = worker[l].token
        /\ worker'[l].trail = {"request_admitted"} /\ pages' = pages
        /\ worker'[l].phase = "dispatched"
    BY <1>1, <1>2, <1>7, <1>9 DEF ConnectionTrue
  <2>2. d \in Successes => \E e \in events' : e.id = c.id /\ Matches(e, c)
    BY <1>4 DEF Recorded
  <2>. QED BY <1>1, <1>2, <1>3, <2>1, <2>2 DEF ConnectionTrue, Recorded
<1>11. pages' \subseteq [generation : Nat, post : Posts]
  BY <1>1, <1>9 DEF ServiceTypeOK
<1>12. /\ RepositoryInv' /\ AcknowledgedIsStored' /\ ServiceTypeOK' /\ Between'
       /\ \A k \in Listeners : ConnectionTrue(k)' /\ events \subseteq events'
  BY <1>2, <1>5, <1>6, <1>8, <1>9, <1>10, <1>11, WorkerMoves
<1>. QED BY <1>1, <1>9, <1>12, ToldKept, CopiesKept DEF ServiceInv

(* The forms handed out are those of posts and of this generation. *)
LEMMA FormFacts ==
    ASSUME ServiceTypeOK, NEW l, NEW a, FormGiven(l, a) \/ pages' = pages
    PROVE  pages \subseteq pages' /\ pages' \subseteq [generation : Nat, post : Posts]
BY DEF ServiceTypeOK, FormGiven, Lives

(* A list or a page is read. *)
LEMMA GetStep == ASSUME ServiceInv, NEW l \in Listeners, DispatchGet(l) PROVE ServiceInv'
<1>1. /\ ServiceTypeOK /\ worker[l].phase = "admitted"
      /\ ConnectionTrue(l) /\ SuccessIsRecorded
  BY DEF ServiceInv, DispatchGet, MayDispatch
<1>2. worker[l] \in Connections /\ worker[l] # NoWork
  BY <1>1, WorkerFacts DEF Places
<1> DEFINE w == [worker[l] EXCEPT !.phase = "dispatched", !.outcome = "read"]
<1>3. w \in Connections
  BY <1>2 DEF Connections, Places
<1>4. /\ w.phase = "dispatched" /\ w.request = worker[l].request
      /\ w.trail = worker[l].trail /\ w.outcome = "read"
  BY <1>2 DEF Connections
<1>5. Becomes(l, w)
  BY <1>1 DEF Becomes, ServiceTypeOK, DispatchGet
<1> HIDE DEF w
<1>6. /\ worker'[l] = w /\ vars' = vars
      /\ UNCHANGED <<told, saved, policyVars, control, life>>
  BY <1>1, <1>5 DEF Becomes, DispatchGet, ServiceTypeOK, controlVars
<1>7. pages \subseteq pages' /\ pages' \subseteq [generation : Nat, post : Posts]
  BY <1>1, FormFacts DEF DispatchGet
<1>8. worker[l].request = Reading /\ "read" \notin Successes
  BY DEF DispatchGet, Successes
<1>9. ConnectionTrue(l)'
  BY <1>1, <1>2, <1>4, <1>6, <1>8 DEF ConnectionTrue
<1>10. /\ RepositoryInv' /\ AcknowledgedIsStored' /\ ServiceTypeOK' /\ Between'
       /\ \A k \in Listeners : ConnectionTrue(k)' /\ events \subseteq events'
  BY <1>2, <1>3, <1>5, <1>6, <1>7, <1>9, WorkerMoves
<1>. QED BY <1>1, <1>6, <1>10, ToldKept, CopiesKept DEF ServiceInv

(* The answer is sent, after its row; or 503 without one. *)
LEMMA AnswerStep ==
    ASSUME ServiceInv, NEW l \in Listeners, Answered(l) \/ AnswerUnavailable(l)
    PROVE  ServiceInv'
<1>1. /\ ServiceTypeOK /\ worker[l].phase = "dispatched"
      /\ ConnectionTrue(l) /\ SuccessIsRecorded
  BY DEF ServiceInv, Answered, AnswerUnavailable
<1>2. /\ worker[l] \in Connections /\ worker[l] # NoWork /\ Serving \notin Connections
  BY <1>1, WorkerFacts DEF Places
<1>3. /\ Becomes(l, Serving) /\ AnswerTaken
      /\ UNCHANGED <<saved, policyVars, control, life>>
  BY DEF Answered, AnswerUnavailable, controlVars
<1>4. pages \subseteq pages' /\ pages' \subseteq [generation : Nat, post : Posts]
  BY <1>1, FormFacts DEF Answered, AnswerUnavailable
<1>5. /\ RepositoryInv' /\ AcknowledgedIsStored' /\ ServiceTypeOK' /\ Between'
      /\ \A k \in Listeners : ConnectionTrue(k)' /\ events \subseteq events'
  BY <1>2, <1>3, <1>4, WorkerMoves
<1>6. SuccessIsRecorded'
  <2>1. CASE told' = told
    BY <1>1, <1>5, <2>1, ToldKept
  <2>2. CASE /\ worker[l].outcome \in Successes
             /\ told' = told \cup {<<worker[l].request,
                                     worker[l].trail \cup {"request_completed"}>>}
    <3>1. /\ Recorded(worker[l].request)
          /\ worker[l].trail = {"request_admitted"}
      BY <1>1, <1>2, <2>2 DEF ConnectionTrue
    <3>2. events' = events
      BY <1>3 DEF AnswerTaken
    <3>3. worker[l].trail \cup {"request_completed"} =
             {"request_admitted", "request_completed"}
      BY <3>1
    <3>4. SUFFICES ASSUME NEW x \in told'
                   PROVE  /\ \E e \in events : e.id = x[1].id /\ Matches(e, x[1])
                          /\ x[2] = {"request_admitted", "request_completed"}
      BY <3>2 DEF SuccessIsRecorded, Matches
    <3>5. CASE x \in told
      BY <1>1, <3>5 DEF SuccessIsRecorded
    <3>6. CASE x = <<worker[l].request, worker[l].trail \cup {"request_completed"}>>
      BY <3>1, <3>3, <3>6 DEF Recorded
    <3>. QED BY <2>2, <3>4, <3>5, <3>6
  <2>. QED BY <2>1, <2>2 DEF Answered, AnswerUnavailable
<1>. QED BY <1>3, <1>5, <1>6, CopiesKept DEF ServiceInv

(* The steps that no worker takes: they leave the tables, the forms and the *)
(* answers, end or start workers, and change the credentials in force. *)
LEMMA ControlKeeps ==
    ASSUME ServiceInv, vars' = vars, UNCHANGED <<pages, told, saved>>,
           worker' \in [Listeners -> {NoWork, Serving, Finished} \cup Connections],
           \A l \in Listeners : worker'[l] \in Connections =>
               /\ worker'[l] = worker[l]
               /\ withdrawn' = withdrawn /\ life'.generation = life.generation,
           life' \in Lives, Between'
    PROVE  ServiceInv'
<1>1. [Next]_vars
  OBVIOUS
<1>2. /\ RepositoryInv' /\ AcknowledgedIsStored' /\ events \subseteq events'
      /\ \A c : Recorded(c) => Recorded(c)'
  BY <1>1, ServiceKeepsRepository DEF ServiceInv
<1>3. ServiceTypeOK'
  BY DEF ServiceInv, ServiceTypeOK
<1>4. ASSUME NEW l \in Listeners PROVE ConnectionTrue(l)'
  <2>1. CASE worker'[l] \in Connections
    BY <1>2, <2>1, ConnectionKept DEF ServiceInv
  <2>2. CASE worker'[l] \notin Connections
    BY <2>2 DEF ConnectionTrue
  <2>. QED BY <2>1, <2>2
<1>. QED BY <1>2, <1>3, <1>4, ToldKept, CopiesKept DEF ServiceInv

(* The browser's worker fails, and closes the listeners. *)
LEMMA RaiseStep == ASSUME ServiceInv, WorkerRaises \/ WorkerCloses PROVE ServiceInv'
<1>1. /\ ServiceTypeOK /\ Between /\ "browser" \in Listeners
      /\ ConnectionTrue("browser") /\ SuccessIsRecorded
  BY DEF ServiceInv, Listeners
<1>2. worker["browser"].phase \in Places
  BY DEF WorkerRaises, WorkerCloses, MayDispatch, Places
<1>3. /\ worker["browser"] \in Connections /\ worker["browser"] # NoWork
      /\ Finished \notin Connections
  BY <1>1, <1>2, WorkerFacts
<1>4. /\ vars' = vars /\ UNCHANGED <<pages, told, saved, policyVars, control>>
      /\ life' = life \/ life' = [life EXCEPT !.state = "failed"]
  BY DEF WorkerRaises, WorkerCloses, controlVars
<1>5. pages' \subseteq [generation : Nat, post : Posts] /\ [Next]_vars
  BY <1>1, <1>4 DEF ServiceTypeOK
<1>6. PICK w \in {Finished} \cup Connections :
         /\ Becomes("browser", w)
         /\ w \in Connections => ConnectionTrue("browser")'
  <2>1. CASE WorkerCloses
    BY <1>3, <2>1 DEF WorkerCloses
  <2>2. CASE WorkerRaises
    <3> DEFINE w == [worker["browser"] EXCEPT !.phase = "raised"]
    <3>1. w \in Connections
      BY <1>3 DEF Connections, Places
    <3>2. /\ w.phase = "raised" /\ w.person = worker["browser"].person
          /\ w.request = worker["browser"].request /\ w.token = worker["browser"].token
          /\ w.trail = worker["browser"].trail
      BY <1>3 DEF Connections
    <3>3. Becomes("browser", w)
      BY <1>1, <2>2 DEF Becomes, ServiceTypeOK, WorkerRaises, Phase
    <3> HIDE DEF w
    <3>4. worker'["browser"] = w
      BY <1>1, <3>3 DEF Becomes, ServiceTypeOK
    <3>5. worker["browser"].phase \in {"admitted", "dispatched"}
      BY <2>2 DEF WorkerRaises, MayDispatch
    <3>6. ConnectionTrue("browser")'
      BY <1>1, <1>3, <1>4, <3>2, <3>4, <3>5 DEF ConnectionTrue
    <3>. QED BY <3>1, <3>3, <3>6
  <2>. QED BY <2>1, <2>2
<1>7. /\ RepositoryInv' /\ AcknowledgedIsStored' /\ ServiceTypeOK' /\ Between'
      /\ \A k \in Listeners : ConnectionTrue(k)' /\ events \subseteq events'
  BY <1>1, <1>3, <1>4, <1>5, <1>6, WorkerMoves
<1>. QED BY <1>1, <1>4, <1>7, ToldKept, CopiesKept DEF ServiceInv

(* The control thread, the operator and time. *)
LEMMA ControlKept ==
    ASSUME ServiceInv, Control, ~MaintenanceEnds PROVE ServiceInv'
<1>1. ServiceTypeOK /\ Between /\ "browser" \in Listeners
  BY DEF ServiceInv, Listeners
<1>2. vars' = vars /\ UNCHANGED <<pages, told, saved>>
  BY DEF Restored, RestoreTorn, Control, ControlStep, Start, Reload, ExitFailed, ExitStopped, Maintain, Close,
         Joined, Maintained, Loaded, Opened, ReplaceFails, TriggerReload,
         CredentialRestricted, CertificateExpires, boundaryVars
<1>3. /\ worker \in [Listeners -> {NoWork, Serving, Finished} \cup Connections]
      /\ life \in Lives /\ life.generation \in Nat
      /\ NoWork \notin Connections /\ Serving \notin Connections /\ Serving # NoWork
  BY <1>1, WorkerFacts DEF ServiceTypeOK, Lives
<1>4. CASE Start \/ Reload \/ ExitFailed \/ ExitStopped \/ Maintain
  <2>1. /\ worker' = worker /\ UNCHANGED <<registry, withdrawn>>
        /\ control'.pc = "closing"
        /\ life' \in Lives /\ life'.generation = life.generation
    BY <1>3, <1>4 DEF Lives, Start, Reload, ExitFailed, ExitStopped, Maintain, ShutdownBegins, Goto,
                policyVars
  <2>2. Between'
    BY <1>1, <2>1 DEF Between
  <2>. QED BY <1>2, <1>3, <2>1, <2>2, ControlKeeps
<1>5. CASE \/ TriggerReload \/ \E l \in Listeners : Close(l)
           \/ \E person \in Changing : CredentialRestricted(person) \/ CertificateExpires(person)
  <2>1. UNCHANGED <<worker, registry, withdrawn, control, life>>
    BY <1>5 DEF TriggerReload, Close, CredentialRestricted, CertificateExpires,
                boundaryVars, policyVars, controlVars
  <2>2. Between'
    BY <1>1, <2>1 DEF Between
  <2>. QED BY <1>2, <1>3, <2>1, <2>2, ControlKeeps
<1>6. CASE Joined
  <2>1. /\ worker' = [l \in Listeners |-> NoWork] /\ UNCHANGED <<registry, withdrawn>>
        /\ life' \in Lives /\ life'.generation = life.generation
    BY <1>3, <1>6 DEF Joined, policyVars, Lives
  <2>2. Between'
    BY <1>1, <2>1 DEF Between
  <2>. QED BY <1>2, <1>3, <2>1, <2>2, ControlKeeps
<1>8. CASE Loaded
  <2>1. /\ worker' = worker /\ control.pc = "loading"
        /\ registry' = People \ restricted /\ withdrawn' = restricted
        /\ life' \in Lives /\ life'.generation = life.generation
    BY <1>3, <1>8 DEF Loaded, boundaryVars, Lives
  <2>2. Between'
    BY <1>1, <2>1 DEF Between
  <2>3. \A l \in Listeners : worker'[l] = NoWork
    BY <1>1, <2>1 DEF Between
  <2>. QED BY <1>2, <1>3, <2>1, <2>2, <2>3, ControlKeeps
<1>9. CASE Opened
  <2>1. /\ worker' = [l \in Listeners |-> Serving] /\ UNCHANGED <<registry, withdrawn>>
        /\ control'.pc = "idle" /\ life'.generation = life.generation + 1
        /\ life' = [state |-> "accepting", generation |-> life.generation + 1]
    BY <1>9 DEF Opened, Goto, policyVars
  <2>2. life' \in Lives /\ life'.generation # 0
    BY <1>3, <2>1 DEF Lives
  <2>3. Between'
    BY <1>1, <2>1, <2>2 DEF Between
  <2>. QED BY <1>2, <1>3, <2>1, <2>2, <2>3, ControlKeeps
<1>10. CASE ReplaceFails
  <2>1. /\ worker' \in [Listeners -> {NoWork, Serving}] /\ worker'["browser"] = NoWork
        /\ UNCHANGED <<registry, withdrawn>>
        /\ control'.pc = "closing"
        /\ life' \in Lives /\ life'.generation = life.generation
    BY <1>1, <1>3, <1>10 DEF ReplaceFails, ShutdownBegins, Goto, policyVars, Lives
  <2>2. Between'
    BY <1>1, <2>1 DEF Between
  <2>. QED BY <1>2, <1>3, <2>1, <2>2, ControlKeeps
<1>. QED BY <1>4, <1>5, <1>6, <1>8, <1>9, <1>10
         DEF Control, ControlStep, Maintained, Restored, RestoreTorn

(* What the repository's predicates say of a snapshot. *)
LEMMA CopyMeans ==
    ASSUME NEW s
    PROVE  /\ Copy(s)!TypeOK <=> /\ s.known \subseteq Alerts /\ s.row \in [Alerts -> Rows]
                                 /\ s.events \subseteq Events
           /\ Copy(s)!HistoryChains <=>
                 \A a \in Alerts :
                     /\ \A e \in {f \in s.events : f.alert = a} :
                           /\ e.version < s.row[a].version
                           /\ e.from = "new" <=> e.version = 0
                           /\ e.to \in Allowed(e.from)
                           /\ e.version + 1 = s.row[a].version =>
                                 /\ s.row[a].state = e.to
                                 /\ s.row[a].by = e.actor /\ s.row[a].last = e.id
                     /\ \A v \in 0..1 : v < s.row[a].version =>
                           \E e \in {f \in s.events : f.alert = a} : e.version = v
           /\ Copy(s)!NoLostUpdate <=>
                 \A e, f \in s.events :
                     (e.alert = f.alert /\ e.version = f.version) \/ e.id = f.id => e = f
<1>1. Copy(s)!TypeOK <=> /\ s.known \subseteq Alerts /\ s.row \in [Alerts -> Rows]
                         /\ s.events \subseteq Events
  BY DEF Copy!TypeOK, Copy!Rows, Copy!Events, Copy!States, Copy!Targets, Copy!NoAnswer,
         Rows, Events, States, Targets, NoAnswer
<1>. QED BY <1>1 DEF Copy!HistoryChains, Copy!NoLostUpdate, Copy!History, Copy!Allowed, Allowed

(* What a snapshot holds is a sound repository, with what it was told. *)
LEMMA CopyTaken ==
    ASSUME RepositoryInv, SuccessIsRecorded PROVE CopySound(Storage)
<1> DEFINE s == Storage
<1>1. /\ s.known = known /\ s.row = row /\ s.events = events /\ s.told = told
  BY DEF Storage
<1> HIDE DEF s
<1>2. /\ Copy(s)!TypeOK /\ Copy(s)!HistoryChains /\ Copy(s)!NoLostUpdate
  BY <1>1, CopyMeans DEF RepositoryInv, TypeOK, HistoryChains, NoLostUpdate, History
<1>3. CopySound(s)
  BY <1>1, <1>2 DEF CopySound, RepositoryInv, RowShape, SuccessIsRecorded
<1>. QED BY <1>3 DEF s

(* Maintenance runs without workers: it takes a snapshot, or restores one in *)
(* whole or, failing, in part.                                              *)
LEMMA MaintenanceStep ==
    ASSUME ServiceInv, \/ Maintained
                       \/ \E s \in saved : Restored(s) \/ RestoreTorn(s)
    PROVE  ServiceInv'
<1>1. ServiceTypeOK /\ Between /\ SuccessIsRecorded /\ CopiesSound /\ RepositoryInv
  BY DEF ServiceInv
<1>2. MaintenanceEnds
  BY DEF Maintained, Restored, RestoreTorn
<1>3. /\ UNCHANGED <<worker, pages, life, registry, withdrawn>>
      /\ control.pc = "maintaining" /\ control'.pc \in {"loading", "idle"}
  BY <1>2 DEF MaintenanceEnds, Goto, policyVars
<1>4. \A l \in Listeners : worker'[l] = NoWork
  BY <1>1, <1>3 DEF Between
<1>5. ServiceTypeOK' /\ Between'
  BY <1>1, <1>3 DEF ServiceTypeOK, Between
<1>6. \A l \in Listeners : ConnectionTrue(l)'
  <2>1. NoWork \notin Connections
    BY DEF NoWork, Connections, Places
  <2>. QED BY <1>4, <2>1 DEF ConnectionTrue
<1>7. CASE Maintained
  <2>1. vars' = vars /\ told' = told /\ saved' \in {saved, saved \cup {Storage}}
    BY <1>7 DEF Maintained
  <2>2. /\ RepositoryInv' /\ AcknowledgedIsStored' /\ events \subseteq events'
    BY <2>1, ServiceKeepsRepository DEF ServiceInv
  <2>3. CopySound(Storage)
    BY <1>1, CopyTaken
  <2>4. CopiesSound'
    BY <1>1, <2>1, <2>3 DEF CopiesSound
  <2>. QED BY <1>1, <1>5, <1>6, <2>1, <2>2, <2>4, ToldKept DEF ServiceInv
<1>8. ASSUME NEW s \in saved, Restored(s)
      PROVE  ServiceInv'
  <2>1. /\ known' = s.known /\ row' = s.row /\ events' = s.events /\ told' = s.told
        /\ answer' = NoAnswer /\ saved' = saved
    BY <1>8 DEF Restored
  <2>2. CopySound(s)
    BY <1>1 DEF CopiesSound
  <2>3. RepositoryInv'
    <3>1. /\ TypeOK' /\ HistoryChains' /\ NoLostUpdate'
      BY <2>1, <2>2, CopyMeans
         DEF CopySound, TypeOK, HistoryChains, NoLostUpdate, History
    <3>2. RowShape'
      BY <2>1, <2>2 DEF CopySound, RowShape
    <3>. QED BY <3>1, <3>2 DEF RepositoryInv
  <2>4. AcknowledgedIsStored'
    BY <2>1 DEF AcknowledgedIsStored, NoAnswer
  <2>5. SuccessIsRecorded'
    BY <2>1, <2>2 DEF CopySound, SuccessIsRecorded, Matches
  <2>. QED BY <1>1, <1>5, <1>6, <2>1, <2>3, <2>4, <2>5, CopiesKept DEF ServiceInv
<1>9. ASSUME NEW s \in saved, RestoreTorn(s)
      PROVE  ServiceInv'
  <2>1. /\ known' = s.known /\ UNCHANGED <<row, events, answer, told, saved>>
    BY <1>9 DEF RestoreTorn
  <2>2. s.known \subseteq Alerts
    BY <1>1, CopyMeans DEF CopiesSound, CopySound
  <2>3. RepositoryInv'
    BY <1>1, <2>1, <2>2 DEF RepositoryInv, RowShape, TypeOK, HistoryChains, NoLostUpdate,
                            History
  <2>4. AcknowledgedIsStored' /\ SuccessIsRecorded'
    BY <1>1, <2>1 DEF ServiceInv, AcknowledgedIsStored, SuccessIsRecorded, Matches
  <2>. QED BY <1>1, <1>5, <1>6, <2>1, <2>3, <2>4, CopiesKept DEF ServiceInv
<1>. QED BY <1>7, <1>8, <1>9

(* The invariant holds before the service is started, and every step keeps  *)
(* it. *)
LEMMA ServiceInvInit == ASSUME ServiceInit PROVE ServiceInv
<1>1. RepositoryInv /\ AcknowledgedIsStored
  BY InvInit DEF ServiceInit, Init, AcknowledgedIsStored, NoAnswer
<1>2. worker \in [Listeners -> {NoWork}] /\ life \in Lives /\ pages = {} /\ told = {}
  BY DEF ServiceInit, Lives
<1>3. NoWork \notin Connections
  BY DEF NoWork, Connections, Places
<1>4. ServiceTypeOK /\ \A l \in Listeners : ConnectionTrue(l)
  BY <1>2, <1>3 DEF ServiceTypeOK, ConnectionTrue
<1>5. Between
  BY <1>2 DEF ServiceInit, Between, Listeners
<1>6. SuccessIsRecorded
  BY <1>2 DEF SuccessIsRecorded
<1>7. CopiesSound
  BY <1>1, <1>6, CopyTaken DEF ServiceInit, CopiesSound
<1>. QED BY <1>1, <1>4, <1>5, <1>6, <1>7 DEF ServiceInv

(* Every step of the service. *)
LEMMA ServiceInvStep ==
    ASSUME ServiceInv, [ServiceNext]_serviceVars PROVE ServiceInv'
<1>1. CASE UNCHANGED serviceVars
  <2>1. /\ vars' = vars
        /\ UNCHANGED <<pages, told, saved, worker, life, control, registry, withdrawn>>
    BY <1>1 DEF serviceVars, boundaryVars, policyVars, controlVars
  <2>2. /\ worker \in [Listeners -> {NoWork, Serving, Finished} \cup Connections]
        /\ life \in Lives /\ Between
    BY DEF ServiceInv, ServiceTypeOK
  <2>3. Between'
    BY <2>1, <2>2 DEF Between
  <2>. QED BY <2>1, <2>2, <2>3, ControlKeeps
<1>2. CASE \E a \in Alerts : Persisted(a)
  <2>1. PICK a \in Alerts : AlertPersisted(a)
    BY <1>2 DEF Persisted
  <2>2. [Next]_vars
    BY <2>1 DEF Next
  <2>3. UNCHANGED <<pages, told, saved, worker, life, control, registry, withdrawn>>
    BY <1>2 DEF Persisted, boundaryVars, policyVars, controlVars
  <2>4. /\ RepositoryInv' /\ AcknowledgedIsStored' /\ events \subseteq events'
        /\ \A c : Recorded(c) => Recorded(c)'
    BY <2>2, ServiceKeepsRepository DEF ServiceInv
  <2>5. ServiceTypeOK' /\ Between'
    BY <2>3 DEF ServiceInv, ServiceTypeOK, Between
  <2>6. \A l \in Listeners : ConnectionTrue(l)'
    BY <2>3, <2>4, ConnectionKept DEF ServiceInv
  <2>. QED BY <2>3, <2>4, <2>5, <2>6, ToldKept, CopiesKept DEF ServiceInv
<1>3. CASE Control
  <2>1. CASE MaintenanceEnds
    <3>1. control.pc = "maintaining" /\ control' # control
      BY <2>1 DEF MaintenanceEnds, Goto
    <3>2. \/ Maintained \/ \E s \in saved : Restored(s) \/ RestoreTorn(s)
      BY <1>3, <3>1 DEF Control, ControlStep, Start, Reload, ExitFailed, ExitStopped, Maintain,
             Close, Joined, Loaded, Opened, ReplaceFails, TriggerReload,
             CredentialRestricted, CertificateExpires, controlVars
    <3>. QED BY <3>2, MaintenanceStep
  <2>. QED BY <1>3, <2>1, ControlKept
<1>. QED BY <1>1, <1>2, <1>3, ServiceCases, BegunStep, EndedStep, AuditedStep, CheckedStep,
            PostStep, GetStep, AnswerStep, RaiseStep

(* The stages of a connection stay as they were established, in every       *)
(* generation of the service. *)
THEOREM ServiceInvHolds == ServiceSpec => []ServiceInv
BY ServiceInvInit, ServiceInvStep, PTL DEF ServiceSpec

(* Whoever the listeners answered 200 has the change in the history and     *)
(* both of its rows in the security audit, whatever was retried, reloaded   *)
(* or failed on the way, until a restore goes back to before the answer.    *)
THEOREM SuccessesAreRecorded == ServiceSpec => []SuccessIsRecorded
<1>1. ServiceInv => SuccessIsRecorded
  BY DEF ServiceInv
<1>. QED BY <1>1, ServiceInvHolds, PTL

(* Behind the listeners the repository keeps what it promises by itself. *)
THEOREM RepositoryIsSoundInService == ServiceSpec => []RepositorySound
<1>1. ServiceInv => RepositorySound
  BY DEF ServiceInv, RepositoryInv, RepositorySound
<1>. QED BY <1>1, ServiceInvHolds, PTL

(* The step that adds to the history: a worker dispatches a checked post. *)
LEMMA NewEvents ==
    ASSUME ServiceInv, [ServiceNext]_serviceVars, control.pc # "maintaining",
           NEW e \in events' \ events
    PROVE  \E l \in Listeners :
              /\ DispatchPost(l) /\ worker[l] \in Connections
              /\ e.id = worker[l].request.id /\ Matches(e, worker[l].request)
              /\ e.actor \in Actors
<1>1. PICK l \in Listeners : DispatchPost(l)
  <2>1. CASE UNCHANGED serviceVars
    BY <2>1 DEF serviceVars, vars
  <2>2. CASE \E a \in Alerts : Persisted(a)
    BY <2>2 DEF Persisted, AlertPersisted
  <2>3. CASE Control
    <3>1. vars' = vars
      BY <2>3 DEF Restored, RestoreTorn, MaintenanceEnds, Control, ControlStep, Start, Reload, ExitFailed, ExitStopped, Maintain,
             Close, Joined, Maintained, Loaded, Opened, ReplaceFails, TriggerReload,
             CredentialRestricted, CertificateExpires
    <3>. QED BY <3>1 DEF vars
  <2>4. CASE WorkerRaises \/ WorkerCloses
    BY <2>4 DEF WorkerRaises, WorkerCloses, vars
  <2>5. ASSUME NEW k \in Listeners, Begun(k) \/ Ended(k) \/ RequestAudited(k)
        PROVE  FALSE
    <3>1. OnlyWorkers
      BY <2>5 DEF Begun, Connect, Ended, ConnectionLost, Withdrawn, DispatchRefused,
                  WorkerStops, RequestAudited
    <3>. QED BY <3>1 DEF OnlyWorkers, vars
  <2>6. ASSUME NEW k \in Listeners, DispatchGet(k) \/ DispatchChecked(k) PROVE FALSE
    BY <2>6 DEF DispatchGet, DispatchChecked, OnlyWorkers, vars
  <2>7. ASSUME NEW k \in Listeners, Answered(k) \/ AnswerUnavailable(k) PROVE FALSE
    BY <2>7 DEF Answered, AnswerUnavailable, AnswerTaken
  <2>. QED BY <2>1, <2>2, <2>3, <2>4, <2>5, <2>6, <2>7, ServiceCases
<1>2. worker[l] \in Connections /\ worker[l].phase = "checked"
  BY <1>1, WorkerFacts DEF ServiceInv, DispatchPost, Places
<1>7. worker[l].request # Reading
  BY <1>2 DEF ServiceInv, ConnectionTrue
<1>3. PICK c \in Commands : c = worker[l].request /\ Transition(c)
  BY <1>1, <1>2, <1>7, PostsAreCommands DEF DispatchPost
<1>4. Admitted(c) /\ Apply(c)
  BY <1>3 DEF Transition, TransitionCreated, TransitionUncertain, TransitionRefused,
              TransitionFails
<1>5. e = [id |-> c.id, alert |-> c.alert, version |-> c.version, to |-> c.to,
           actor |-> c.actor, from |-> row[c.alert].state]
  BY <1>4 DEF Apply
<1>6. e.id = c.id /\ Matches(e, c) /\ e.actor \in Actors
  BY <1>4, <1>5 DEF Matches, Admitted
<1>. QED BY <1>1, <1>2, <1>3, <1>6

(* Only the second look takes a connection on to its command. *)
LEMMA LooksAgain ==
    ASSUME ServiceInv, [ServiceNext]_serviceVars, NEW l \in Listeners,
           worker[l].phase # "checked", worker'[l].phase = "checked"
    PROVE  DispatchChecked(l)
<1>1. ServiceTypeOK /\ worker' # worker /\ worker'[l] # worker[l]
  BY DEF ServiceInv
<1>2. /\ NoWork.phase # "checked" /\ Serving.phase # "checked" /\ Finished.phase # "checked"
  BY DEF NoWork, Serving, Finished
<1>3. ASSUME NEW k \in Listeners, NEW w, Becomes(k, w), w.phase # "checked"
      PROVE  FALSE
  BY <1>1, <1>3 DEF Becomes, ServiceTypeOK
<1>4. ASSUME NEW k \in Listeners,
             \/ Begun(k) \/ Ended(k) \/ RequestAudited(k) \/ DispatchPost(k)
             \/ DispatchGet(k) \/ Answered(k) \/ AnswerUnavailable(k)
      PROVE  FALSE
  <2>1. CASE Begun(k)
    BY <1>1, <2>1 DEF Begun, Connect, Becomes, ServiceTypeOK
  <2>2. CASE Ended(k) \/ Answered(k) \/ AnswerUnavailable(k)
    BY <1>2, <1>3, <2>2 DEF Ended, ConnectionLost, Withdrawn, DispatchRefused, WorkerStops,
                            Answered, AnswerUnavailable
  <2>3. CASE RequestAudited(k)
    <3>1. \/ Becomes(k, Serving)
          \/ Becomes(k, [worker[k] EXCEPT !.phase = "admitted", !.trail = {"request_admitted"}])
      BY <1>1, <2>3 DEF RequestAudited, Becomes, ServiceTypeOK
    <3>2. worker[k] \in Connections
      BY <1>1, <2>3, WorkerFacts DEF RequestAudited, Places
    <3>3. [worker[k] EXCEPT !.phase = "admitted",
                            !.trail = {"request_admitted"}].phase = "admitted"
      BY <3>2 DEF Connections
    <3>. QED BY <1>2, <1>3, <3>1, <3>3
  <2>4. CASE DispatchPost(k) \/ DispatchGet(k)
    <3>1. worker[k] \in Connections
      BY <1>1, <2>4, WorkerFacts DEF DispatchPost, DispatchGet, MayDispatch, Places
    <3>2. worker'[k].phase = "dispatched" /\ \A j \in Listeners : j # k => worker'[j] = worker[j]
      BY <1>1, <2>4, <3>1 DEF DispatchPost, DispatchGet, ServiceTypeOK, Connections
    <3>. QED BY <1>1, <3>2
  <2>. QED BY <1>4, <2>1, <2>2, <2>3, <2>4
<1>5. ASSUME WorkerRaises \/ WorkerCloses PROVE FALSE
  <2>1. worker["browser"] \in Connections /\ "browser" \in Listeners
    BY <1>1, <1>5, WorkerFacts DEF WorkerRaises, WorkerCloses, MayDispatch, Places, Listeners
  <2>2. worker'["browser"].phase \in {"raised", "finished"}
        /\ \A j \in Listeners : j # "browser" => worker'[j] = worker[j]
    BY <1>1, <1>5, <2>1 DEF WorkerRaises, WorkerCloses, Phase, Becomes, ServiceTypeOK,
                            Connections, Finished
  <2>. QED BY <1>1, <2>2
<1>6. ~Control
  BY <1>1, <1>2 DEF Control, ControlStep, Start, Reload, ExitFailed, ExitStopped, Maintain,
                    Close, Joined, Maintained, Restored, RestoreTorn, MaintenanceEnds,
                    Loaded, Opened, ReplaceFails, TriggerReload, CredentialRestricted,
                    CertificateExpires, boundaryVars
<1>7. /\ ~(\E a \in Alerts : Persisted(a)) /\ ~UNCHANGED serviceVars
  BY <1>1 DEF Persisted, boundaryVars, serviceVars
<1>8. PICK k \in Listeners : DispatchChecked(k)
  BY <1>4, <1>5, <1>6, <1>7, ServiceCases
<1>9. k = l
  BY <1>1, <1>8 DEF DispatchChecked, Phase, ServiceTypeOK
<1>. QED BY <1>8, <1>9

(* Every change is made for an analyst whose credential was in force, after *)
(* the row of its admission, and with a certificate good at the second look. *)
THEOREM EntitledChanges == ServiceSpec => ChangesAreEntitled
<1>1. ASSUME ServiceInv, [ServiceNext]_serviceVars, NEW l \in Listeners,
             worker[l].phase # "checked", worker'[l].phase = "checked"
      PROVE  worker[l].person \notin withdrawn \cup outdated
  <2>1. DispatchChecked(l)
    BY <1>1, LooksAgain
  <2>2. worker[l].person \in registry \ outdated /\ registry \cap withdrawn = {}
    BY <1>1, <2>1 DEF ServiceInv, Between, DispatchChecked, Known
  <2>. QED BY <2>2
<1>2. ASSUME ServiceInv, [ServiceNext]_serviceVars, control.pc # "maintaining",
             NEW e \in events' \ events
      PROVE  /\ e.actor \in Actors \ withdrawn
             /\ \E l \in Listeners : /\ worker[l].phase = "checked"
                                     /\ "request_admitted" \in worker[l].trail
                                     /\ worker[l].person = e.actor
                                     /\ worker[l].request.id = e.id
  <2>1. PICK l \in Listeners :
           /\ DispatchPost(l) /\ worker[l] \in Connections
           /\ e.id = worker[l].request.id /\ Matches(e, worker[l].request)
           /\ e.actor \in Actors
    BY <1>2, NewEvents
  <2>2. worker[l].phase = "checked"
    BY <2>1 DEF DispatchPost
  <2>3. /\ worker[l].trail = {"request_admitted"}
        /\ worker[l].request.actor = worker[l].person
        /\ worker[l].person \notin withdrawn
    BY <1>2, <2>1, <2>2 DEF ServiceInv, ConnectionTrue
  <2>4. e.actor = worker[l].person
    BY <2>1, <2>3 DEF Matches
  <2>. QED BY <2>1, <2>2, <2>3, <2>4
<1>3. ServiceInv /\ [ServiceNext]_serviceVars =>
         [/\ \A l \in Listeners :
                worker[l].phase # "checked" /\ worker'[l].phase = "checked" =>
                    worker[l].person \notin withdrawn \cup outdated
          /\ control.pc # "maintaining" =>
                \A e \in events' \ events :
                    /\ e.actor \in Actors \ withdrawn
                    /\ \E l \in Listeners : /\ worker[l].phase = "checked"
                                            /\ "request_admitted" \in worker[l].trail
                                            /\ worker[l].person = e.actor
                                            /\ worker[l].request.id = e.id]_serviceVars
  BY <1>1, <1>2
<1>. QED BY <1>3, ServiceInvHolds, PTL DEF ServiceSpec, ChangesAreEntitled

(* While maintenance runs there is no worker, so only the producer and the  *)
(* control thread move. *)
LEMMA QuietStep ==
    ASSUME ServiceInv, [ServiceNext]_serviceVars, control.pc = "maintaining"
    PROVE  /\ UNCHANGED worker
           /\ <<row, events>>' # <<row, events>> =>
                  \E s \in saved : row' = s.row /\ events' = s.events
<1>1. \A l \in Listeners : worker[l] = NoWork
  BY DEF ServiceInv, Between
<1>2. "browser" \in Listeners /\ NoWork # Serving /\ NoWork.phase = "none"
  BY DEF Listeners, NoWork, Serving
<1>3. ASSUME NEW l \in Listeners,
             \/ Begun(l) \/ Ended(l) \/ RequestAudited(l) \/ DispatchChecked(l)
             \/ DispatchPost(l) \/ DispatchGet(l) \/ Answered(l) \/ AnswerUnavailable(l)
      PROVE  FALSE
  <2>1. worker[l] = NoWork /\ worker[l].phase = "none" /\ worker[l] # Serving
    BY <1>1, <1>2
  <2>2. \/ worker[l] = Serving
        \/ worker[l].phase \in {"authenticated", "admitted", "checked", "dispatched"}
    BY <1>3 DEF Begun, Connect, Ended, ConnectionLost, Withdrawn, DispatchRefused,
                MayDispatch, WorkerStops, RequestAudited, DispatchChecked, DispatchPost,
                DispatchGet, Answered, AnswerUnavailable
  <2>. QED BY <2>1, <2>2
<1>4. ~(WorkerRaises \/ WorkerCloses)
  BY <1>1, <1>2 DEF WorkerRaises, WorkerCloses, MayDispatch
<1>5. CASE Control
  <2>1. \/ Maintained \/ TriggerReload
        \/ \E s \in saved : Restored(s) \/ RestoreTorn(s)
        \/ \E person \in Changing :
              CredentialRestricted(person) \/ CertificateExpires(person)
    BY <1>5 DEF Control, ControlStep, Start, Reload, ExitFailed, ExitStopped, Maintain,
                Close, Joined, Loaded, Opened, ReplaceFails
  <2>2. worker' = worker
    BY <2>1 DEF Maintained, Restored, RestoreTorn, MaintenanceEnds, TriggerReload,
                CredentialRestricted, CertificateExpires, boundaryVars
  <2>3. \/ UNCHANGED <<row, events>>
        \/ \E s \in saved : row' = s.row /\ events' = s.events
    BY <2>1 DEF Maintained, Restored, RestoreTorn, TriggerReload, CredentialRestricted,
                CertificateExpires, vars
  <2>. QED BY <2>2, <2>3
<1>6. CASE \E a \in Alerts : Persisted(a)
  BY <1>6 DEF Persisted, AlertPersisted, boundaryVars
<1>7. CASE UNCHANGED serviceVars
  BY <1>7 DEF serviceVars, vars, boundaryVars
<1>. QED BY <1>3, <1>4, <1>5, <1>6, <1>7, ServiceCases

(* A change through the browser used a form of the generation in force. *)
LEMMA FormStep ==
    ASSUME ServiceInv, [ServiceNext]_serviceVars, NEW e \in events' \ events,
           worker["browser"].phase = "checked", worker'["browser"].phase = "dispatched"
    PROVE  \E p \in pages : p.generation = life.generation /\ Matches(e, p.post)
<1>1. PICK l \in Listeners :
         /\ DispatchPost(l) /\ worker[l] \in Connections
         /\ Matches(e, worker[l].request)
  <2>1. worker["browser"] # NoWork
    BY DEF NoWork
  <2>2. control.pc # "maintaining"
    BY <2>1 DEF ServiceInv, Between, Listeners
  <2>. QED BY <2>2, NewEvents
<1>2. ServiceTypeOK /\ "browser" \in Listeners
  BY DEF ServiceInv, Listeners
<1>3. l = "browser"
  <2>1. l # "browser" => worker'["browser"] = worker["browser"]
    BY <1>1, <1>2 DEF DispatchPost, ServiceTypeOK
  <2>. QED BY <2>1
<1>4. worker[l].token = life.generation /\ worker[l].request # Reading
  BY <1>1, <1>3 DEF DispatchPost, ServiceInv, ConnectionTrue
<1>5. worker[l].token # 0
  <2>1. worker["browser"] # NoWork
    BY <1>1, <1>2, <1>3, WorkerFacts
  <2>. QED BY <1>3, <1>4, <2>1 DEF ServiceInv, Between
<1>6. \E p \in pages : p.generation = worker[l].token /\ p.post = worker[l].request
  BY <1>1, <1>4, <1>5 DEF ServiceInv, ConnectionTrue
<1>. QED BY <1>1, <1>4, <1>6

(* Maintenance runs undisturbed between generations, and a form is worth    *)
(* nothing to the generation after its own. *)
THEOREM GenerationsKeepApart == ServiceSpec => GenerationsApart
<1>1. ServiceInv /\ [ServiceNext]_serviceVars =>
         [control.pc = "maintaining" =>
             /\ UNCHANGED worker
             /\ <<row, events>>' # <<row, events>> =>
                    \E s \in saved : row' = s.row /\ events' = s.events]_serviceVars
  BY QuietStep
<1>2. ServiceInv /\ [ServiceNext]_serviceVars =>
         [\A e \in events' \ events :
             worker["browser"].phase = "checked" /\ worker'["browser"].phase = "dispatched" =>
                \E p \in pages : p.generation = life.generation /\ Matches(e, p.post)]_serviceVars
  BY FormStep
<1>. QED BY <1>1, <1>2, ServiceInvHolds, PTL
         DEF ServiceSpec, GenerationsApart, MaintenanceIsQuiet, FormsDieWithGeneration
=============================================================================
