---------------------- MODULE ProducerServingLifecycle ----------------------
(* ProducerServingLifecycle: one listener, two handler threads, and the     *)
(* start() and shutdown() calls that any control thread may make.           *)
(*                                                                          *)
(* A step is one critical section of self._lock, one call on the listener   *)
(* or one thread operation; a handler's request is one step with a          *)
(* nondeterministic outcome (ProducerOrchestrator models its inside).       *)
(* Attempt counters, which no guard reads, are left out.                    *)
EXTENDS Naturals, FiniteSets

CONSTANTS
    Controllers,   \* threads that call start() and shutdown()
    HandlerCount,  \* PRODUCER_SERVICE_HANDLER_COUNT
    MaxStarts      \* bound: start() calls that pass their guard

ASSUME LifecycleConfiguration ==
    /\ HandlerCount \in Nat \ {0}
    /\ MaxStarts \in Nat

VARIABLES
    state,        \* _state
    stopping,     \* _stop_requested
    registered,   \* _threads
    fatal,        \* the orchestrator's _fatal
    listening,    \* the transport's _listener is not None
    thread,       \* where each handler thread ever created is
    call,         \* where each control thread is
    starts        \* generations created so far

vars == <<state, stopping, registered, fatal, listening, thread, call, starts>>

Threads == (1..MaxStarts) \X (1..HandlerCount)
States == {"created", "starting", "ready", "stopping", "stopped", "failed"}

(* "absent" and "created" threads have not run, "exited" ones are joined.   *)
Running == {"loop", "called", "accepting", "handling", "timeout", "rejected",
            "unavailable", "unexpected", "done", "failing", "closing"}
Places == Running \cup {"absent", "created", "exited"}

Idle == [at |-> "idle", threads |-> {}, preserve |-> FALSE]
CallPlaces == {"idle", "opening", "registering", "launching", "abandoning",
               "finishing", "halting", "halted", "reaping",
               "closing", "joining", "closed"}

TypeOK ==
    /\ state \in States
    /\ stopping \in BOOLEAN /\ fatal \in BOOLEAN /\ listening \in BOOLEAN
    /\ registered \subseteq Threads
    /\ thread \in [Threads -> Places]
    /\ call \in [Controllers -> [at : CallPlaces, threads : SUBSET Threads,
                                 preserve : BOOLEAN]]
    /\ starts \in 0..MaxStarts

Live == {t \in Threads : thread[t] \in Running}

Init ==
    /\ state = "created"
    /\ stopping = FALSE
    /\ registered = {}
    /\ fatal = FALSE
    /\ listening = FALSE
    /\ thread = [t \in Threads |-> "absent"]
    /\ call = [c \in Controllers |-> Idle]
    /\ starts = 0

At(c, place) == call[c].at = place
Goto(c, place) == call' = [call EXCEPT ![c].at = place]
Return(c) == call' = [call EXCEPT ![c] = Idle]
Move(t, place) == thread' = [thread EXCEPT ![t] = place]

-----------------------------------------------------------------------------
(* The handler threads: _serve.                                             *)

(* The loop's test of _stop_requested. *)
Loop(t) ==
    /\ thread[t] = "loop"
    /\ Move(t, IF stopping THEN "exited" ELSE "called")
    /\ UNCHANGED <<state, stopping, registered, fatal, listening, call, starts>>

(* process_one up to the test of _listener in accept_authenticated; the    *)
(* trusted clock may fail on the way.                                       *)
EnterAccept(t) ==
    /\ thread[t] = "called"
    /\ \E place \in {"rejected"} \cup IF fatal \/ ~listening THEN {"unavailable"}
                                                         ELSE {"accepting"} :
          Move(t, place)
    /\ UNCHANGED <<state, stopping, registered, fatal, listening, call, starts>>

(* The accept call.  A listener closed since the test fails the call, or    *)
(* leaves None behind, whose accept is an AttributeError.                   *)
Accept(t) ==
    /\ thread[t] = "accepting"
    /\ \E place \in {"timeout", "rejected"} \cup
                    IF listening THEN {"handling"}
                                 ELSE {"unavailable", "unexpected"} :
          Move(t, place)
    /\ UNCHANGED <<state, stopping, registered, fatal, listening, call, starts>>

(* The rest of process_one: a result, an error, either of them poisoned, or *)
(* an exception nobody expected.                                            *)
Handle(t) ==
    /\ thread[t] = "handling"
    /\ \E place \in {"done", "rejected", "unexpected"} : Move(t, place)
    /\ fatal' \in {fatal, TRUE}
    /\ UNCHANGED <<state, stopping, registered, listening, call, starts>>

(* except ProducerOrchestratorError, and the test after a result. *)
Judge(t) ==
    /\ thread[t] \in {"timeout", "rejected", "unavailable", "done"}
    /\ LET stops == stopping /\ thread[t] # "done"
           fails == thread[t] = "unavailable" \/ (fatal /\ thread[t] # "timeout")
       IN  Move(t, IF stops THEN "exited" ELSE IF fails THEN "failing" ELSE "loop")
    /\ UNCHANGED <<state, stopping, registered, fatal, listening, call, starts>>

(* The locked half of _mark_failed. *)
MarkFailed(t) ==
    /\ thread[t] \in {"failing", "unexpected"}
    /\ state' = "failed"
    /\ stopping' = TRUE
    /\ Move(t, "closing")
    /\ UNCHANGED <<registered, fatal, listening, call, starts>>

(* Mutant: the failing handler joins its peers before it closes. *)
CloseFailedJoinsPeers(t) ==
    /\ thread[t] = "closing"
    /\ \A u \in registered \ {t} : thread[u] = "exited"
    /\ listening' = FALSE
    /\ Move(t, "exited")
    /\ UNCHANGED <<state, stopping, registered, fatal, call, starts>>

(* Its orchestrator.close(), and the thread's end. *)
CloseFailed(t) ==
    /\ thread[t] = "closing"
    /\ listening' = FALSE
    /\ Move(t, "exited")
    /\ UNCHANGED <<state, stopping, registered, fatal, call, starts>>

-----------------------------------------------------------------------------
(* start().                                                                 *)

(* The guard and the first critical section. *)
StartBegin(c) ==
    /\ At(c, "idle")
    /\ starts < MaxStarts
    /\ state \in {"created", "stopped"} /\ ~fatal
    /\ state' = "starting"
    /\ stopping' = FALSE
    /\ Goto(c, "opening")
    /\ UNCHANGED <<registered, fatal, listening, thread, starts>>

(* orchestrator.open(): refused when fatal or open already, and the socket  *)
(* may be refused.                                                          *)
StartOpen(c) ==
    /\ At(c, "opening")
    /\ \/ /\ ~fatal /\ ~listening
          /\ listening' = TRUE
          /\ Goto(c, "registering")
       \/ /\ Goto(c, "abandoning")
          /\ UNCHANGED listening
    /\ UNCHANGED <<state, stopping, registered, fatal, thread, starts>>

(* The generation's thread objects are created and registered. *)
StartRegister(c) ==
    /\ At(c, "registering")
    /\ LET new == {starts + 1} \X (1..HandlerCount)
       IN  /\ registered' = new
           /\ thread' = [t \in Threads |-> IF t \in new THEN "created"
                                                        ELSE thread[t]]
           /\ call' = [call EXCEPT ![c] = [Idle EXCEPT !.at = "launching",
                                                       !.threads = new]]
    /\ starts' = starts + 1
    /\ UNCHANGED <<state, stopping, fatal, listening>>

Unstarted(c) == {t \in call[c].threads : thread[t] = "created"}

(* thread.start(), in order; the platform may refuse a thread. *)
StartLaunch(c) ==
    /\ At(c, "launching")
    /\ \E t \in Unstarted(c) :
          /\ \A u \in Unstarted(c) : t[2] <= u[2]
          /\ \/ /\ Move(t, "loop")
                /\ Goto(c, IF Unstarted(c) = {t} THEN "finishing" ELSE "launching")
             \/ /\ Goto(c, "abandoning")
                /\ UNCHANGED thread
    /\ UNCHANGED <<state, stopping, registered, fatal, listening, starts>>

(* The last critical section of a start whose threads all started. *)
StartFinish(c) ==
    /\ At(c, "finishing")
    /\ \/ /\ state = "failed"
          /\ Goto(c, "halting")
          /\ UNCHANGED state
       \/ /\ state # "failed"
          /\ state' = "ready"
          /\ Return(c)
    /\ UNCHANGED <<stopping, registered, fatal, listening, thread, starts>>

(* The clean-up of a failed start: stop, close, join what was started. *)
StartHalt(c) ==
    /\ call[c].at \in {"abandoning", "halting"}
    /\ stopping' = TRUE
    /\ call' = [call EXCEPT ![c] =
                  [at |-> "halted",
                   threads |-> call[c].threads \ Unstarted(c),
                   preserve |-> At(c, "halting")]]
    /\ UNCHANGED <<state, registered, fatal, listening, thread, starts>>

StartClose(c) ==
    /\ At(c, "halted")
    /\ listening' = FALSE
    /\ Goto(c, "reaping")
    /\ UNCHANGED <<state, stopping, registered, fatal, thread, starts>>

(* A join gives up only on a thread that is still inside a request: an      *)
(* accept is bounded by seconds, the joins by minutes.                      *)
Joined(c) == \A t \in call[c].threads : thread[t] = "exited"
JoinGivesUp(c) == \E t \in call[c].threads : thread[t] = "handling"

StartReap(c) ==
    /\ At(c, "reaping")
    /\ Joined(c) \/ JoinGivesUp(c)
    /\ registered' = {}
    /\ state' = IF call[c].preserve THEN state ELSE "failed"
    /\ Return(c)
    /\ UNCHANGED <<stopping, fatal, listening, thread, starts>>

-----------------------------------------------------------------------------
(* shutdown().                                                              *)

(* A service that was never started is simply stopped. *)
ShutdownCreated(c) ==
    /\ At(c, "idle")
    /\ state = "created"
    /\ state' = "stopped"
    /\ UNCHANGED <<stopping, registered, fatal, listening, thread, call, starts>>

(* The first critical section. *)
ShutdownBegin(c) ==
    /\ At(c, "idle")
    /\ state \in {"ready", "failed"}
    /\ state' = IF state = "failed" THEN "failed" ELSE "stopping"
    /\ stopping' = TRUE
    /\ call' = [call EXCEPT ![c] = [at |-> "closing", threads |-> registered,
                                    preserve |-> state = "failed"]]
    /\ UNCHANGED <<registered, fatal, listening, thread, starts>>

(* orchestrator.close(). *)
ShutdownClose(c) ==
    /\ At(c, "closing")
    /\ listening' = FALSE
    /\ Goto(c, "joining")
    /\ UNCHANGED <<state, stopping, registered, fatal, thread, starts>>

(* Mutant: the is_alive() test after the joins is left out. *)
ShutdownJoinUnchecked(c) ==
    /\ At(c, "joining")
    /\ Joined(c) \/ JoinGivesUp(c)
    /\ Goto(c, "closed")
    /\ UNCHANGED <<state, stopping, registered, fatal, listening, thread, starts>>

(* The joins and the is_alive() test that follows them.  Joining a thread   *)
(* that start() has registered but not started is a RuntimeError.           *)
ShutdownJoin(c) ==
    /\ At(c, "joining")
    /\ \/ /\ Joined(c)
          /\ Goto(c, "closed")
          /\ UNCHANGED state
       \/ /\ JoinGivesUp(c)
          /\ state' = "failed"
          /\ Return(c)
       \/ /\ Unstarted(c) # {}
          /\ Return(c)
          /\ UNCHANGED state
    /\ UNCHANGED <<stopping, registered, fatal, listening, thread, starts>>

(* The last critical section. *)
ShutdownFinish(c) ==
    /\ At(c, "closed")
    /\ registered' = {}
    /\ state' = IF call[c].preserve THEN "failed" ELSE "stopped"
    /\ Return(c)
    /\ UNCHANGED <<stopping, fatal, listening, thread, starts>>

-----------------------------------------------------------------------------
Serve(t) ==
    \/ Loop(t) \/ EnterAccept(t) \/ Accept(t) \/ Handle(t)
    \/ Judge(t) \/ MarkFailed(t) \/ CloseFailed(t)

Proceed(c) ==
    \/ StartOpen(c) \/ StartRegister(c) \/ StartLaunch(c) \/ StartFinish(c)
    \/ StartHalt(c) \/ StartClose(c) \/ StartReap(c)
    \/ ShutdownClose(c) \/ ShutdownJoin(c) \/ ShutdownFinish(c)

Next ==
    \/ \E t \in Threads : Serve(t)
    \/ \E c \in Controllers :
          StartBegin(c) \/ ShutdownCreated(c) \/ ShutdownBegin(c) \/ Proceed(c)

Spec == Init /\ [][Next]_vars

(* Threads are scheduled, every blocking call in a handler has a timeout,   *)
(* and a call that was made runs on; nobody is obliged to make a call.      *)
FairSpec ==
    /\ Spec
    /\ \A t \in Threads : WF_vars(Serve(t))
    /\ \A c \in Controllers : WF_vars(Proceed(c))

-----------------------------------------------------------------------------
(* A service that says "stopped" has no handler running and no open         *)
(* listener, so that reopening it is safe.                                  *)
StoppedIsDrained == state = "stopped" => Live = {} /\ ~listening

(* Handlers of two generations are never alive together.                    *)
OneGeneration == \A t, u \in Live : t[1] = u[1]

(* A service that says "ready" has all its handlers running and registered, *)
(* none of them told to stop: snapshot() would report them.                 *)
ReadyIsServed ==
    state = "ready" => /\ Cardinality(registered \cap Live) = HandlerCount
                       /\ ~stopping

(* A poisoned orchestrator ends with admission closed and no handler.       *)
PoisonCloses == fatal ~> (~listening /\ Live = {})

(* A start() or shutdown() call returns.                                    *)
CallsReturn == \A c \in Controllers : (call[c].at # "idle") ~> At(c, "idle")

(* What the service says of itself is so, whichever of start(), shutdown()   *)
(* and a failing handler overlap.                                            *)
StatusHonest == TypeOK /\ StoppedIsDrained /\ OneGeneration /\ ReadyIsServed

(* Control calls return and a poisoned service comes to rest. *)
ServiceSettles == PoisonCloses /\ CallsReturn
=============================================================================
