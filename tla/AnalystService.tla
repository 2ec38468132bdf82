---------------------------- MODULE AnalystService ----------------------------
(* The two human listeners in front of the analyst state repository, the      *)
(* lifecycle that drains, reloads and restarts them, and the runner that      *)
(* turns signals into reloads and stops.                                      *)
(*                                                                            *)
(* Each listener has one worker thread, which serves one connection at a      *)
(* time; a control thread runs one lifecycle call at a time.  A person holds  *)
(* one certificate.  The audit rows kept are those of the connection being    *)
(* served, as rows of earlier ones never change; an append that fails stands  *)
(* for a full table and for a database error.  Restoring a snapshot replaces  *)
(* the databases and with them what they say was acknowledged.                *)
EXTENDS AnalystStateRepository

CONSTANTS
    Clients,         \* what whom asks at which listener
    Changing,        \* bound: people whose credential is restricted or expires, once
    MaxReloads       \* bound: reload requests and maintenance calls

Listeners == {"api", "browser"}
People == Actors \cup Viewers

(* The request of a page or a list; any other is the post of a command. *)
Reading == [id |-> NoId]

ASSUME ServiceConfiguration ==
    /\ \A k \in Clients : /\ k.at \in Listeners /\ k.person \in People
                         /\ \/ k.request = Reading
                            \/ k.request \in Commands /\ k.request.actor = k.person
    /\ Changing \subseteq People
    /\ MaxReloads \in Nat

Posts == {k.request : k \in Clients} \ {Reading}

VARIABLES
    life,        \* the lifecycle's _state and _generation
    stop,        \* the lifecycle's _stop
    isOpen,      \* per listener, that _listener is a socket
    halted,      \* per listener, _admission_stopped
    worker,      \* per listener, its thread and the connection it serves
    registry,    \* people whose credential the listeners hold as active
    withdrawn,   \* people restricted on disk when the registry was loaded
    restricted,  \* people whose credential the policy file disables or revokes
    outdated,    \* people whose certificate has expired
    pages,       \* forms the browser listener handed out
    control,     \* the control thread: where it is and what it is about
    asked,       \* the runner's _reload_event is set
    reloads,     \* reload requests and maintenance calls so far
    told,        \* commands answered 200 that the storage in force goes back to
    saved        \* snapshots of the storage taken so far

boundaryVars == <<isOpen, halted, worker, pages, told, saved>>
policyVars == <<registry, withdrawn, restricted, outdated>>
controlVars == <<life, stop, control, asked, reloads>>
serviceVars == <<vars, boundaryVars, policyVars, controlVars>>

NoWork == [phase |-> "none"]
Serving == [phase |-> "serving"]
Finished == [phase |-> "finished"]
Gone == {NoWork, Finished}

(* What a snapshot of the databases holds. *)
Storage == [known |-> known, row |-> row, events |-> events, told |-> told]

ServiceInit ==
    /\ Init
    /\ life = [state |-> "stopped", generation |-> 0]
    /\ stop = FALSE
    /\ isOpen = [l \in Listeners |-> FALSE]
    /\ halted = [l \in Listeners |-> FALSE]
    /\ worker = [l \in Listeners |-> NoWork]
    /\ registry = {} /\ withdrawn = {} /\ restricted = {} /\ outdated = {}
    /\ pages = {} /\ told = {}
    /\ saved = {Storage}
    /\ control = [pc |-> "idle", task |-> "start"]
    /\ asked = FALSE
    /\ reloads = 0

-----------------------------------------------------------------------------
(* A connection, up to the point where it is dispatched. *)
Becomes(l, w) == worker' = [worker EXCEPT ![l] = w]
Phase(l, phase) == worker' = [worker EXCEPT ![l].phase = phase]
(* The call's answer has been taken. *)
AnswerTaken == answer' = NoAnswer /\ UNCHANGED <<known, row, events>>

OnlyWorkers == UNCHANGED <<vars, isOpen, halted, pages, told, saved, policyVars, controlVars>>

(* The tokens a client can send with a command: none, or one it was given. *)
Tokens(l, c) ==
    {0} \cup {p.generation : p \in {q \in pages : l = "browser" /\ q.post = c}}

Known(person) == person \in registry \ outdated

(* A connection is accepted, and its certificate is one of the registry; any *)
(* other connection is dropped.                                              *)
Connect(l, person, request, token) ==
    /\ worker[l] = Serving /\ isOpen[l] /\ ~halted[l]
    /\ Known(person)
    /\ Becomes(l, [phase |-> "authenticated", person |-> person, request |-> request,
                   token |-> token, trail |-> {}, outcome |-> "none"])
    /\ OnlyWorkers

(* The client is silent, leaves, is cut off by close, or sends what is not a *)
(* well-formed request of the same origin.                                   *)
ConnectionLost(l) ==
    /\ worker[l].phase = "authenticated"
    /\ Becomes(l, Serving)
    /\ OnlyWorkers

(* The request is read in time and its row stored; no row, no service. *)
RequestAudited(l) ==
    /\ worker[l].phase = "authenticated" /\ isOpen[l]
    /\ \/ worker' = [worker EXCEPT ![l].phase = "admitted",
                                   ![l].trail = {"request_admitted"}]
       \/ Becomes(l, Serving)
    /\ OnlyWorkers

-----------------------------------------------------------------------------
(* From here to the answer the worker holds the listener's _state_lock. *)
LockFree(l) == worker[l].phase \notin {"checked", "dispatched"}

Withdrawn(l) ==
    /\ worker[l].phase = "admitted"
    /\ ~isOpen[l] \/ halted[l]
    /\ Becomes(l, Serving)
    /\ OnlyWorkers

MayDispatch(l) ==
    /\ worker[l].phase = "admitted"
    /\ isOpen[l] /\ ~halted[l]

(* Mutant: the form's token is not bound to the listener's secret. *)
FormAcceptedAnyAge(l) == worker[l].person \in Actors /\ worker[l].token # 0

(* An analyst's form, of this generation's secret. *)
FormAccepted(l) ==
    /\ worker[l].person \in Actors
    /\ worker[l].token = life.generation

(* The second look at the credential, and the browser's at the form. *)
DispatchRefused(l) ==
    /\ MayDispatch(l)
    /\ \/ ~Known(worker[l].person)
       \/ /\ l = "browser" /\ worker[l].request # Reading
          /\ ~FormAccepted(l)
    /\ Becomes(l, Serving)
    /\ OnlyWorkers

DispatchChecked(l) ==
    /\ MayDispatch(l) /\ Known(worker[l].person)
    /\ worker[l].request # Reading
    /\ l = "browser" => FormAccepted(l)
    /\ Phase(l, "checked")
    /\ OnlyWorkers

(* The transaction of the command, the lock being held since the look. *)
DispatchPost(l) ==
    /\ worker[l].phase = "checked"
    /\ Transition(worker[l].request)
    /\ worker' = [worker EXCEPT ![l].phase = "dispatched", ![l].outcome = answer'[2]]
    /\ UNCHANGED <<isOpen, halted, pages, told, saved, policyVars, controlVars>>

(* A page with a form for this alert, at its version, under a new id; of the *)
(* forms only those are kept that someone will post.                         *)
FormGiven(l, a) ==
    /\ l = "browser" /\ worker[l].person \in Actors /\ a \in known
    /\ \E c \in Posts :
          /\ c.actor = worker[l].person /\ c.alert = a /\ c.version = row[a].version
          /\ \A p \in pages : p.post.id # c.id
          /\ pages' = pages \cup {[generation |-> life.generation, post |-> c]}

(* A read changes nothing; the browser's may hand out a form. *)
DispatchGet(l) ==
    /\ MayDispatch(l) /\ Known(worker[l].person)
    /\ worker[l].request = Reading
    /\ \/ \E a \in Alerts : FormGiven(l, a)
       \/ pages' = pages
    /\ worker' = [worker EXCEPT ![l].phase = "dispatched", ![l].outcome = "read"]
    /\ UNCHANGED <<vars, isOpen, halted, told, saved, policyVars, controlVars>>

(* The outcomes the listener answers only after a row of their completion.  *)
NeedsRow(l) ==
    IF l = "api"
    THEN {"read", "created", "existing", "not_found", "version_conflict",
          "identity_conflict", "not_authorized"}
    ELSE {"read", "created", "existing"}

Successes == {"created", "existing"}

(* Mutant: the answer does not wait for its row. *)
AnsweredRowOrNot(l) ==
    /\ worker[l].phase = "dispatched"
    /\ told' = told \cup (IF worker[l].outcome \in Successes
                          THEN {<<worker[l].request, worker[l].trail>>} ELSE {})
    /\ Becomes(l, Serving)
    /\ pages' = pages
    /\ AnswerTaken
    /\ UNCHANGED <<isOpen, halted, saved, policyVars, controlVars>>

(* The row is stored and the answer sent; after its change the browser       *)
(* renders the alert anew, with the form for its next version.               *)
Answered(l) ==
    /\ worker[l].phase = "dispatched"
    /\ told' = told \cup (IF worker[l].outcome \in Successes
                          THEN {<<worker[l].request,
                                  worker[l].trail \cup {"request_completed"}>>}
                          ELSE {})
    /\ \/ /\ worker[l].outcome \in Successes
          /\ FormGiven(l, worker[l].request.alert)
       \/ pages' = pages
    /\ Becomes(l, Serving)
    /\ AnswerTaken
    /\ UNCHANGED <<isOpen, halted, saved, policyVars, controlVars>>

(* The row cannot be stored, or the alert not rendered: 503, and the change  *)
(* stands.                                                                   *)
AnswerUnavailable(l) ==
    /\ worker[l].phase = "dispatched" /\ worker[l].outcome \in NeedsRow(l)
    /\ Becomes(l, Serving)
    /\ AnswerTaken
    /\ UNCHANGED <<isOpen, halted, pages, told, saved, policyVars, controlVars>>

(* An exception the browser listener does not catch ends its worker, which   *)
(* closes both listeners once their locks are free: a token that cannot be   *)
(* compared, or a page that cannot be rendered after the change.             *)
WorkerRaises ==
    /\ \/ /\ MayDispatch("browser") /\ Known(worker["browser"].person)
          /\ worker["browser"].request # Reading /\ worker["browser"].person \in Actors
       \/ /\ worker["browser"].phase = "dispatched"
          /\ worker["browser"].outcome \in Successes
    /\ Phase("browser", "raised")
    /\ life' = [life EXCEPT !.state = "failed"]
    /\ stop' = TRUE
    /\ halted' = [l \in Listeners |-> TRUE]
    /\ UNCHANGED <<vars, isOpen, pages, told, saved, policyVars, control, asked, reloads>>

WorkerCloses ==
    /\ worker["browser"].phase = "raised" /\ \A l \in Listeners : LockFree(l)
    /\ isOpen' = [l \in Listeners |-> FALSE]
    /\ Becomes("browser", Finished)
    /\ UNCHANGED <<vars, halted, pages, told, saved, policyVars, controlVars>>

WorkerStops(l) ==
    /\ worker[l] = Serving /\ stop
    /\ Becomes(l, Finished)
    /\ OnlyWorkers

-----------------------------------------------------------------------------
(* The control thread. *)
Goto(pc, task) == control' = [pc |-> pc, task |-> task]

(* _shutdown up to the closing of the listeners. *)
ShutdownBegins(task) ==
    /\ Goto("closing", task)
    /\ life' = [life EXCEPT !.state = "stopping"]
    /\ stop' = TRUE
    /\ halted' = [l \in Listeners |-> TRUE]

Start ==
    /\ control = [pc |-> "idle", task |-> "start"]
    /\ ShutdownBegins("replace")
    /\ UNCHANGED <<vars, isOpen, worker, pages, told, saved, policyVars, asked, reloads>>

(* Mutant: a reload asked for during a request is dropped. *)
ReloadDropped ==
    /\ control = [pc |-> "idle", task |-> "supervise"]
    /\ asked
    /\ asked' = FALSE
    /\ IF \A l \in Listeners : worker[l] = Serving
       THEN ShutdownBegins("replace")
       ELSE UNCHANGED <<control, life, stop, halted>>
    /\ UNCHANGED <<vars, isOpen, worker, pages, told, saved, policyVars, reloads>>

Reload ==
    /\ control = [pc |-> "idle", task |-> "supervise"]
    /\ asked
    /\ asked' = FALSE
    /\ ShutdownBegins("replace")
    /\ UNCHANGED <<vars, isOpen, worker, pages, told, saved, policyVars, reloads>>

(* The loop finds a failed generation or no live worker. *)
ExitFailed ==
    /\ control = [pc |-> "idle", task |-> "supervise"]
    /\ life.state = "failed" \/ \A l \in Listeners : worker[l] \in Gone
    /\ ShutdownBegins("end")
    /\ UNCHANGED <<vars, isOpen, worker, pages, told, saved, policyVars, asked, reloads>>

(* The loop finds _stop_event set, by a signal or trigger_shutdown before. *)
ExitStopped ==
    /\ control = [pc |-> "idle", task |-> "supervise"]
    /\ ShutdownBegins("end")
    /\ UNCHANGED <<vars, isOpen, worker, pages, told, saved, policyVars, asked, reloads>>

(* snapshot_quiescent, restore_quiescent and prune_security_audit_quiescent. *)
Maintain ==
    /\ control = [pc |-> "idle", task |-> "supervise"]
    /\ reloads < MaxReloads
    /\ reloads' = reloads + 1
    /\ ShutdownBegins("maintain")
    /\ UNCHANGED <<vars, isOpen, worker, pages, told, saved, policyVars, asked>>

(* close waits for the listener's lock. *)
Close(l) ==
    /\ control.pc = "closing" /\ isOpen[l] /\ LockFree(l)
    /\ isOpen' = [isOpen EXCEPT ![l] = FALSE]
    /\ UNCHANGED <<vars, halted, worker, pages, told, saved, policyVars, controlVars>>

AfterShutdown == [replace |-> "loading", maintain |-> "maintaining", end |-> "ended"]

Joined ==
    /\ control.pc = "closing"
    /\ \A l \in Listeners : ~isOpen[l] /\ worker[l] \in Gone
    /\ Goto(AfterShutdown[control.task], control.task)
    /\ life' = [life EXCEPT !.state = "stopped"]
    /\ worker' = [l \in Listeners |-> NoWork]
    /\ UNCHANGED <<vars, isOpen, halted, pages, told, saved, policyVars, stop, asked,
                   reloads>>

(* Maintenance ends with a new generation, or raises and leaves the service  *)
(* stopped.                                                                  *)
MaintenanceEnds ==
    /\ control.pc = "maintaining"
    /\ \/ Goto("loading", "replace")
       \/ Goto("idle", "supervise")
    /\ UNCHANGED <<isOpen, halted, worker, pages, policyVars, life, stop, asked, reloads>>

(* A snapshot is published, or nothing is, and a prune touches rows of       *)
(* earlier connections only.                                                 *)
Maintained ==
    /\ MaintenanceEnds
    /\ saved' \in {saved, saved \cup {Storage}}
    /\ UNCHANGED <<vars, told>>

(* The databases are those of a snapshot: what was acknowledged since then   *)
(* is taken back.                                                            *)
Restored(s) ==
    /\ MaintenanceEnds
    /\ known' = s.known /\ row' = s.row /\ events' = s.events
    /\ told' = s.told
    /\ answer' = NoAnswer
    /\ UNCHANGED saved

(* The restore raises after the alerts and before the states. *)
RestoreTorn(s) ==
    /\ MaintenanceEnds /\ control'.pc = "idle"
    /\ known' = s.known
    /\ UNCHANGED <<row, events, answer, told, saved>>

(* Mutant: a reload adds to the credentials it has. *)
LoadedOnTop ==
    /\ control.pc = "loading"
    /\ (People \ restricted) # {} /\ (People \ restricted) \cap outdated = {}
    /\ registry' = registry \cup (People \ restricted)
    /\ withdrawn' = restricted
    /\ Goto("opening", "replace")
    /\ life' = [life EXCEPT !.state = "policy_loaded"]
    /\ stop' = FALSE
    /\ UNCHANGED <<vars, boundaryVars, restricted, outdated, asked, reloads>>

(* The policy is readable, someone in it is active, the databases answer. *)
Loaded ==
    /\ control.pc = "loading"
    /\ (People \ restricted) # {} /\ (People \ restricted) \cap outdated = {}
    /\ registry' = People \ restricted
    /\ withdrawn' = restricted
    /\ Goto("opening", "replace")
    /\ life' = [life EXCEPT !.state = "policy_loaded"]
    /\ stop' = FALSE
    /\ UNCHANGED <<vars, boundaryVars, restricted, outdated, asked, reloads>>

Opened ==
    /\ control.pc = "opening"
    /\ isOpen' = [l \in Listeners |-> TRUE]
    /\ halted' = [l \in Listeners |-> FALSE]
    /\ worker' = [l \in Listeners |-> Serving]
    /\ life' = [state |-> "accepting", generation |-> life.generation + 1]
    /\ Goto("idle", "supervise")
    /\ UNCHANGED <<vars, pages, told, saved, policyVars, stop, asked, reloads>>

(* Loading or opening fails, with listeners open and workers started or not: *)
(* all is shut down and the runner ends.                                     *)
ReplaceFails ==
    /\ control.pc \in {"loading", "opening"}
    /\ isOpen' \in IF control.pc = "loading" THEN {isOpen} ELSE [Listeners -> BOOLEAN]
    /\ worker' = [l \in Listeners |-> IF isOpen'["browser"] /\ isOpen'[l] /\ l = "api"
                                      THEN Serving ELSE NoWork]
    /\ ShutdownBegins("end")
    /\ UNCHANGED <<vars, pages, told, saved, policyVars, asked, reloads>>

-----------------------------------------------------------------------------
TriggerReload ==
    /\ reloads < MaxReloads /\ ~asked
    /\ asked' = TRUE
    /\ reloads' = reloads + 1
    /\ UNCHANGED <<vars, boundaryVars, policyVars, life, stop, control>>

(* The operator restricts a credential; a loading replace has it locked out. *)
CredentialRestricted(person) ==
    /\ person \notin restricted \cup outdated /\ control.pc \notin {"loading", "opening"}
    /\ restricted' = restricted \cup {person}
    /\ UNCHANGED <<vars, boundaryVars, registry, withdrawn, outdated, controlVars>>

CertificateExpires(person) ==
    /\ person \notin restricted \cup outdated
    /\ outdated' = outdated \cup {person}
    /\ UNCHANGED <<vars, boundaryVars, registry, withdrawn, restricted, controlVars>>

Persisted(a) ==
    /\ AlertPersisted(a)
    /\ UNCHANGED <<boundaryVars, policyVars, controlVars>>

(* The browser listener goes through the same stages by code of its own: the *)
(* same-origin rule is among its ways to lose a request, the role and the    *)
(* form among its refusals.                                                  *)
BrowserConnect(person, request, token) == Connect("browser", person, request, token)
BrowserConnectionLost == ConnectionLost("browser")
BrowserRequestAudited == RequestAudited("browser")
BrowserDispatchRefused == DispatchRefused("browser")
BrowserDispatchChecked == DispatchChecked("browser")
BrowserDispatchPost == DispatchPost("browser")
BrowserDispatchGet == DispatchGet("browser")
BrowserAnswered == Answered("browser")
BrowserAnswerUnavailable == AnswerUnavailable("browser")

BrowserStep ==
    \/ BrowserConnectionLost \/ BrowserRequestAudited
    \/ Withdrawn("browser") \/ BrowserDispatchRefused \/ BrowserDispatchChecked
    \/ BrowserDispatchPost \/ BrowserDispatchGet
    \/ BrowserAnswered \/ BrowserAnswerUnavailable \/ WorkerStops("browser")

ApiStep ==
    \/ ConnectionLost("api") \/ RequestAudited("api")
    \/ Withdrawn("api") \/ DispatchRefused("api") \/ DispatchChecked("api")
    \/ DispatchPost("api") \/ DispatchGet("api")
    \/ Answered("api") \/ AnswerUnavailable("api") \/ WorkerStops("api")

ControlStep ==
    \/ Start \/ Reload \/ ExitFailed
    \/ (\E l \in Listeners : Close(l)) \/ Joined \/ Maintained
    \/ (\E s \in saved : Restored(s) \/ RestoreTorn(s))
    \/ Loaded \/ Opened \/ ReplaceFails

ServiceNext ==
    \/ BrowserStep \/ ApiStep
    \/ \E k \in Clients : \E token \in Tokens(k.at, k.request) :
          \/ k.at = "api" /\ Connect("api", k.person, k.request, token)
          \/ k.at = "browser" /\ BrowserConnect(k.person, k.request, token)
    \/ WorkerRaises \/ WorkerCloses
    \/ ControlStep \/ ExitStopped \/ Maintain
    \/ TriggerReload
    \/ \E person \in Changing : CredentialRestricted(person) \/ CertificateExpires(person)
    \/ \E a \in Alerts : Persisted(a)

(* Every thread keeps running: a connection's waits have deadlines (three    *)
(* seconds for the handshake, five for the request), close waits only for an *)
(* answer being sent, and the runner polls its events.                       *)
ServiceFairness ==
    /\ WF_serviceVars(BrowserStep) /\ WF_serviceVars(ApiStep)
    /\ WF_serviceVars(WorkerCloses)
    /\ WF_serviceVars(ControlStep)

ServiceSpec == ServiceInit /\ [][ServiceNext]_serviceVars /\ ServiceFairness

-----------------------------------------------------------------------------
(* A change is made for a person who was not restricted when the credentials *)
(* in force were loaded, whose certificate was still good at the second look *)
(* and whose form was then in force, and after the row of its admission was  *)
(* stored: a restricted analyst's open connection or form does nothing after *)
(* the reload.  A restore, which runs without workers, makes no change.      *)
ChangesAreEntitled ==
    [][/\ \A l \in Listeners :
             worker[l].phase # "checked" /\ worker'[l].phase = "checked" =>
                 worker[l].person \notin withdrawn \cup outdated
       /\ control.pc # "maintaining" =>
             \A e \in events' \ events :
                 /\ e.actor \in Actors \ withdrawn
                 /\ \E l \in Listeners : /\ worker[l].phase = "checked"
                                         /\ "request_admitted" \in worker[l].trail
                                         /\ worker[l].person = e.actor
                                         /\ worker[l].request.id = e.id]_serviceVars

(* A client that was answered 200 finds its change stored, with the rows of  *)
(* its admission and of its completion, until a restore goes back to a       *)
(* snapshot from before the answer.                                          *)
SuccessIsRecorded ==
    \A x \in told : /\ \E e \in events : e.id = x[1].id /\ Matches(e, x[1])
                    /\ x[2] = {"request_admitted", "request_completed"}

(* While a snapshot, a restore or a prune runs no listener serves anyone,    *)
(* and the history changes only when it is replaced as a whole.              *)
MaintenanceIsQuiet ==
    [][control.pc = "maintaining" =>
          /\ UNCHANGED worker
          /\ <<row, events>>' # <<row, events>> =>
                 \E s \in saved : row' = s.row /\ events' = s.events]_serviceVars

(* A form only works for the generation that handed it out. *)
FormsDieWithGeneration ==
    [][\A e \in events' \ events :
          worker["browser"].phase = "checked" /\ worker'["browser"].phase = "dispatched" =>
             \E p \in pages : p.generation = life.generation /\ Matches(e, p.post)]_serviceVars

(* A restriction followed by a reload request reaches the listeners, or the  *)
(* service ends.                                                             *)
RestrictionTakesEffect ==
    \A person \in People :
        (person \in restricted /\ asked)
            ~> (person \in withdrawn \/ control.pc = "ended")

(* A generation's work ends with it: maintenance runs between generations    *)
(* undisturbed, and the forms of one are worth nothing to the next.          *)
GenerationsApart == MaintenanceIsQuiet /\ FormsDieWithGeneration
=============================================================================
