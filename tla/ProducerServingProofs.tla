----------------------- MODULE ProducerServingProofs ------------------------
(***************************************************************************)
(* What the service says of itself is so: for every number of handlers, of *)
(* control threads and of start() calls.                                   *)
(*                                                                         *)
(* The argument is about who may still change the state.  A start, and a   *)
(* shutdown of a service that had not failed, exclude each other; what the *)
(* others can do to the state is to fail it, and nobody takes that back    *)
(* while a start is under way.                                             *)
(*                                                                         *)
(* Then the connections those handlers serve: for every number of clients, *)
(* every plan of them, every size of their records and every deadline.  A  *)
(* connection has one handler from accept to close, so what the handler    *)
(* has spent and what it has read can be followed on that one connection.  *)
(***************************************************************************)
EXTENDS ProducerServingLifecycle, ProducerTlsTransport, FiniteSetTheorems, TLAPS

(* The threads of a start. *)
Generation(n) == {n} \X (1..HandlerCount)

(* The places of a handler that nobody has told to stop. *)
Serving == Running \ {"closing"}

(* Where a start() is, and that a call is one. *)
Opening == {"opening", "registering"}
StartPlaces == Opening \cup {"launching", "finishing", "abandoning", "halting",
                             "halted", "reaping"}
Starting(c) == call[c].at \in StartPlaces

(* A shutdown that will say "stopped". *)
Stops(c) == call[c].at \in {"closing", "joining", "closed"} /\ ~call[c].preserve

(* Calls under way at the same time keep out of each other's way. *)
CallsApart ==
    /\ \A c \in Controllers : Starting(c) =>
           /\ state \in {"starting", "failed"}
           /\ \A e \in Controllers : (Starting(e) => e = c) /\ ~Stops(e)
    /\ \A c \in Controllers : Stops(c) =>
           /\ state \in {"stopping", "failed"}
           /\ \A e \in Controllers : Stops(e) => e = c

(* A start that nobody has failed finds its generation as it left it. *)
StartTrue(c) ==
    /\ call[c].at \in Opening => Live = {} /\ starts < MaxStarts
    /\ call[c].at \in {"launching", "finishing"} =>
           call[c].threads = Generation(starts)
    /\ call[c].at \in Opening \cup {"launching", "finishing"} /\ state = "starting" =>
           ~stopping
    /\ call[c].at \in {"launching", "finishing"} /\ state = "starting" =>
           registered = Generation(starts)
    /\ call[c].at = "launching" /\ state = "starting" =>
           \A t \in Generation(starts) : thread[t] \in Serving \cup {"created"}
    /\ call[c].at = "finishing" /\ state = "starting" =>
           \A t \in Generation(starts) : thread[t] \in Serving
    /\ call[c].at = "halting" => state = "failed"
    /\ call[c].at \in {"halted", "reaping"} /\ call[c].preserve => state = "failed"

(* A shutdown waits for every handler there is, behind a closed listener. *)
StopTrue(c) ==
    /\ Live \subseteq call[c].threads
    /\ call[c].at # "closing" => ~listening
    /\ call[c].at = "closed" => Live = {}

(* A service that reports ready has every handler serving. *)
ReadyTrue ==
    state = "ready" => /\ ~stopping
                       /\ registered = Generation(starts)
                       /\ \A t \in Generation(starts) : thread[t] \in Serving

(* One at rest has no live thread and no listener. *)
RestTrue == state \in {"created", "stopped"} => Live = {} /\ ~listening

(* The inductive invariant. *)
Inv ==
    /\ TypeOK /\ CallsApart /\ ReadyTrue /\ RestTrue
    /\ Live \subseteq Generation(starts)
    /\ \A c \in Controllers : Starting(c) => StartTrue(c)
    /\ \A c \in Controllers : Stops(c) => StopTrue(c)

-----------------------------------------------------------------------------
(* The threads of a generation are as many as the handlers of the service. *)
LEMMA GenerationCount ==
    ASSUME NEW n PROVE Cardinality(Generation(n)) = HandlerCount
  <1>1. HandlerCount \in Nat /\ HandlerCount >= 1
    BY LifecycleConfiguration
  <1>2. IsFiniteSet({n}) /\ Cardinality({n}) = 1
    BY FS_Singleton
  <1>3. IsFiniteSet(1..HandlerCount) /\ Cardinality(1..HandlerCount) = HandlerCount
    BY <1>1, FS_Interval
  <1>4. Cardinality(Generation(n)) = 1 * HandlerCount
    BY <1>2, <1>3, FS_Product, ZenonT(60) DEF Generation
  <1> QED
    BY <1>1, <1>4

(* Steps that begin nothing: handlers run, calls return, the service fails. *)
LEMMA Recedes ==
    ASSUME Inv, TypeOK',
           \A e \in Controllers : \/ call'[e] = call[e]
                                  \/ ~Starting(e)' /\ ~Stops(e)',
           starts' = starts, Live' \subseteq Live, listening' => listening,
           \/ state' = "failed"
           \/ /\ state' = state /\ registered' = registered /\ stopping' = stopping
              /\ ~stopping =>
                    \A t \in Threads :
                        /\ thread[t] \in Serving => thread'[t] \in Serving
                        /\ thread[t] = "created" => thread'[t] = "created"
    PROVE  Inv'
  <1>1. /\ \A e \in Controllers : Starting(e)' => Starting(e) /\ call'[e] = call[e]
        /\ \A e \in Controllers : Stops(e)' => Stops(e) /\ call'[e] = call[e]
    BY DEF Starting, Stops
  <1>2. CallsApart'
    BY <1>1 DEF Inv, CallsApart
  <1>3. /\ registered \subseteq Threads
        /\ \A c \in Controllers : call[c].threads \subseteq Threads
    BY DEF Inv, TypeOK
  <1>4. ReadyTrue'
    BY <1>3 DEF Inv, ReadyTrue
  <1>5. RestTrue'
    BY DEF Inv, RestTrue
  <1>6. (Live \subseteq Generation(starts))'
    BY DEF Inv, Generation
  <1>7. ASSUME NEW c \in Controllers, Starting(c)' PROVE StartTrue(c)'
    <2>1. StartTrue(c) /\ call'[c] = call[c]
      BY <1>1, <1>7 DEF Inv
    <2>2. CASE state' = "failed"
      BY <2>1, <2>2 DEF StartTrue, Generation
    <2>3. CASE state' # "failed"
      BY <1>3, <2>1, <2>3 DEF StartTrue, Generation
    <2> QED
      BY <2>2, <2>3
  <1>8. ASSUME NEW c \in Controllers, Stops(c)' PROVE StopTrue(c)'
    <2>1. StopTrue(c) /\ call'[c] = call[c]
      BY <1>1, <1>8 DEF Inv
    <2> QED
      BY <2>1 DEF StopTrue
  <1> QED
    BY <1>2, <1>4, <1>5, <1>6, <1>7, <1>8 DEF Inv

-----------------------------------------------------------------------------
(* A handler that is not told to stop goes on, or fails the service. *)
LEMMA ServeStep == ASSUME Inv, NEW t \in Threads, Serve(t) PROVE Inv'
  <1>1. TypeOK
    BY DEF Inv
  <1>2. /\ thread[t] \in Running
        /\ thread' = [thread EXCEPT ![t] = thread'[t]]
        /\ thread'[t] \in Running \cup {"exited"}
    BY <1>1 DEF Serve, Loop, EnterAccept, Accept, Handle, Judge, MarkFailed,
                CloseFailed, Move, Running, TypeOK
  <1>3. UNCHANGED <<call, starts, registered>>
    BY DEF Serve, Loop, EnterAccept, Accept, Handle, Judge, MarkFailed, CloseFailed
  <1>4. /\ listening' = listening \/ listening' = FALSE
        /\ fatal' = fatal \/ fatal' = TRUE
        /\ stopping' = stopping \/ stopping' = TRUE
        /\ state' = state \/ state' = "failed"
    BY DEF Serve, Loop, EnterAccept, Accept, Handle, Judge, MarkFailed, CloseFailed
  <1>5. /\ \A u \in Threads \ {t} : thread'[u] = thread[u]
        /\ thread' \in [Threads -> Places]
    BY <1>1, <1>2 DEF TypeOK, Places
  <1>6. TypeOK'
    <2>1. listening' \in BOOLEAN /\ fatal' \in BOOLEAN /\ stopping' \in BOOLEAN
      BY <1>1, <1>4 DEF TypeOK
    <2>2. state' \in States
      BY <1>1, <1>4 DEF TypeOK, States
    <2> QED
      BY <1>1, <1>3, <1>5, <2>1, <2>2 DEF TypeOK
  <1>7. Live' \subseteq Live
    BY <1>2, <1>5 DEF Live
  <1>8. \/ state' = "failed"
        \/ /\ state' = state /\ stopping' = stopping
           /\ ~stopping /\ thread[t] \in Serving => thread'[t] \in Serving
    <2>1. CASE MarkFailed(t)
      BY <2>1 DEF MarkFailed
    <2>2. CASE Loop(t) \/ Judge(t)
      BY <1>1, <2>2 DEF Loop, Judge, Move, Serving, Running, TypeOK
    <2>3. CASE EnterAccept(t) \/ Accept(t) \/ Handle(t) \/ CloseFailed(t)
      BY <1>1, <2>3 DEF EnterAccept, Accept, Handle, CloseFailed, Move, Serving,
                        Running, TypeOK
    <2> QED
      BY <2>1, <2>2, <2>3 DEF Serve
  <1>9. listening' => listening
    BY <1>4
  <1>10. "created" \notin Running
    BY DEF Running
  <1> QED
    BY <1>2, <1>3, <1>5, <1>6, <1>7, <1>8, <1>9, <1>10, Recedes

-----------------------------------------------------------------------------
(* A control thread's step is about its own call. *)
LEMMA OwnCall ==
    ASSUME TypeOK, NEW c \in Controllers,
           \/ StartBegin(c) \/ ShutdownCreated(c) \/ ShutdownBegin(c) \/ Proceed(c)
    PROVE  /\ \A e \in Controllers \ {c} : call'[e] = call[e]
           /\ call' = [call EXCEPT ![c] = call'[c]]
           /\ fatal' = fatal
  BY DEF StartBegin, ShutdownCreated, ShutdownBegin, Proceed, StartOpen,
     StartRegister, StartLaunch, StartFinish, StartHalt, StartClose, StartReap,
     ShutdownClose, ShutdownJoin, ShutdownFinish, Goto, Return, TypeOK

(* A start under way has no other start and no clean shutdown beside it. *)
LEMMA StartsAlone ==
    ASSUME Inv, NEW c \in Controllers, Starting(c),
           \A e \in Controllers \ {c} : call'[e] = call[e]
    PROVE  \A e \in Controllers \ {c} : /\ ~Starting(e) /\ ~Stops(e)
                                        /\ ~Starting(e)' /\ ~Stops(e)'
  <1>1. \A e \in Controllers \ {c} : ~Starting(e) /\ ~Stops(e)
    BY DEF Inv, CallsApart
  <1> QED
    BY <1>1 DEF Starting, Stops

(* What is left to show of a step of a start that goes on. *)
LEMMA StartGoesOn ==
    ASSUME Inv, TypeOK', NEW c \in Controllers,
           \A e \in Controllers \ {c} : /\ ~Starting(e)' /\ ~Stops(e)',
           Starting(c)', state' \in {"starting", "failed"},
           (Live \subseteq Generation(starts))', StartTrue(c)'
    PROVE  Inv'
  <1>1. ~Stops(c)'
    BY DEF Starting, Stops, StartPlaces, Opening
  <1>2. CallsApart'
    BY <1>1 DEF CallsApart
  <1>3. ReadyTrue' /\ RestTrue'
    BY DEF ReadyTrue, RestTrue
  <1> QED
    BY <1>1, <1>2, <1>3 DEF Inv

(* A start begins only at rest. *)
LEMMA StartBeginStep == ASSUME Inv, NEW c \in Controllers, StartBegin(c) PROVE Inv'
  <1>1. TypeOK /\ Live = {} /\ ~listening
    BY DEF Inv, RestTrue, StartBegin
  <1>2. \A e \in Controllers : ~Starting(e) /\ ~Stops(e)
    BY DEF Inv, CallsApart, StartBegin
  <1>3. \A e \in Controllers \ {c} : call'[e] = call[e]
    BY <1>1, OwnCall
  <1>4. \A e \in Controllers \ {c} : /\ ~Starting(e)' /\ ~Stops(e)'
    BY <1>2, <1>3 DEF Starting, Stops
  <1>5. call'[c].at = "opening"
    BY <1>1 DEF StartBegin, Goto, TypeOK
  <1>6. TypeOK'
    BY <1>1 DEF StartBegin, Goto, TypeOK, States, CallPlaces
  <1>7. Live' = {}
    BY <1>1 DEF StartBegin, Live
  <1>8. StartTrue(c)'
    BY <1>5, <1>7 DEF StartBegin, StartTrue, Opening
  <1> QED
    BY <1>4, <1>5, <1>6, <1>7, <1>8, StartGoesOn
       DEF StartBegin, Starting, StartPlaces, Opening

(* Only the start under way opens the listener. *)
LEMMA StartOpenStep == ASSUME Inv, NEW c \in Controllers, StartOpen(c) PROVE Inv'
  <1>1. TypeOK /\ Starting(c) /\ StartTrue(c) /\ state \in {"starting", "failed"}
    BY DEF Inv, CallsApart, StartOpen, At, Starting, StartPlaces, Opening
  <1>2. \A e \in Controllers \ {c} : /\ ~Starting(e)' /\ ~Stops(e)'
    BY <1>1, OwnCall, StartsAlone DEF Proceed
  <1>3. call'[c].at \in {"registering", "abandoning"}
    BY <1>1 DEF StartOpen, Goto, TypeOK
  <1>4. TypeOK'
    BY <1>1, ZenonT(60) DEF StartOpen, Goto, TypeOK, CallPlaces
  <1>5. Live = {} /\ Live' = {} /\ starts < MaxStarts
    BY <1>1 DEF StartOpen, StartTrue, At, Live, Opening
  <1>6. StartTrue(c)'
    BY <1>1, <1>3, <1>5 DEF StartOpen, StartTrue, At, Opening
  <1> QED
    BY <1>1, <1>2, <1>3, <1>4, <1>5, <1>6, StartGoesOn
       DEF StartOpen, Starting, StartPlaces, Opening

(* A new generation is created when no handler is alive. *)
LEMMA StartRegisterStep ==
    ASSUME Inv, NEW c \in Controllers, StartRegister(c) PROVE Inv'
  <1>1. TypeOK /\ Starting(c) /\ StartTrue(c) /\ state \in {"starting", "failed"}
    BY DEF Inv, CallsApart, StartRegister, At, Starting, StartPlaces, Opening
  <1>2. \A e \in Controllers \ {c} : /\ ~Starting(e)' /\ ~Stops(e)'
    BY <1>1, OwnCall, StartsAlone DEF Proceed
  <1>3. Live = {} /\ starts < MaxStarts /\ (state = "starting" => ~stopping)
    BY <1>1 DEF StartRegister, StartTrue, At, Opening
  <1>4. /\ call'[c] = [at |-> "launching", threads |-> Generation(starts + 1),
                       preserve |-> FALSE]
        /\ registered' = Generation(starts + 1) /\ starts' = starts + 1
        /\ thread' = [t \in Threads |-> IF t \in Generation(starts + 1)
                                        THEN "created" ELSE thread[t]]
        /\ UNCHANGED <<state, stopping, fatal, listening>>
        /\ call' = [call EXCEPT ![c] = call'[c]]
    BY <1>1 DEF StartRegister, Generation, Idle, TypeOK
  <1>5. starts' \in 0..MaxStarts /\ Generation(starts + 1) \subseteq Threads
    BY <1>1, <1>3, <1>4, LifecycleConfiguration DEF Generation, Threads, TypeOK
  <1>6. Live' = {}
    BY <1>1, <1>3, <1>4 DEF Live, Running
  <1>7. TypeOK'
    <2>1. thread' \in [Threads -> Places]
      BY <1>1, <1>4 DEF TypeOK, Places
    <2>2. call'[c] \in [at : CallPlaces, threads : SUBSET Threads, preserve : BOOLEAN]
      BY <1>4, <1>5 DEF CallPlaces
    <2> HIDE DEF CallPlaces
    <2>3. call' \in [Controllers -> [at : CallPlaces, threads : SUBSET Threads,
                                     preserve : BOOLEAN]]
      BY <1>1, <1>4, <2>2 DEF TypeOK
    <2> QED
      BY <1>1, <1>4, <1>5, <2>1, <2>3 DEF TypeOK
  <1>8. \A t \in Generation(starts + 1) : thread'[t] = "created"
    BY <1>4, <1>5
  <1>9. StartTrue(c)'
    BY <1>3, <1>4, <1>8 DEF StartTrue, Opening
  <1> QED
    BY <1>1, <1>2, <1>4, <1>6, <1>7, <1>9, StartGoesOn
       DEF Starting, StartPlaces, Opening

(* A launch adds a handler of the current generation. *)
LEMMA StartLaunchStep ==
    ASSUME Inv, NEW c \in Controllers, StartLaunch(c) PROVE Inv'
  <1>1. TypeOK /\ Starting(c) /\ StartTrue(c) /\ state \in {"starting", "failed"}
    BY DEF Inv, CallsApart, StartLaunch, At, Starting, StartPlaces, Opening
  <1>2. \A e \in Controllers \ {c} : /\ ~Starting(e)' /\ ~Stops(e)'
    BY <1>1, OwnCall, StartsAlone DEF Proceed
  <1>3. /\ call[c].at = "launching" /\ call[c].threads = Generation(starts)
        /\ Live \subseteq Generation(starts) /\ Generation(starts) \subseteq Threads
        /\ UNCHANGED <<state, stopping, registered, fatal, listening, starts>>
    BY <1>1 DEF StartLaunch, StartTrue, At, Inv, TypeOK
  <1>4. CASE call' = [call EXCEPT ![c].at = "abandoning"] /\ thread' = thread
    <2>1. call'[c].at = "abandoning"
      BY <1>1, <1>4 DEF TypeOK
    <2>2. TypeOK'
      BY <1>1, <1>3, <1>4 DEF TypeOK, CallPlaces
    <2>3. (Live \subseteq Generation(starts))'
      BY <1>3, <1>4 DEF Live, Generation
    <2>4. StartTrue(c)'
      BY <2>1 DEF StartTrue, Opening
    <2> QED
      BY <1>1, <1>2, <1>3, <2>1, <2>2, <2>3, <2>4, StartGoesOn
         DEF Starting, StartPlaces, Opening
  <1>5. ASSUME NEW t \in Unstarted(c), Move(t, "loop"),
               Goto(c, IF Unstarted(c) = {t} THEN "finishing" ELSE "launching")
        PROVE  Inv'
    <2>1. t \in Generation(starts) /\ t \in Threads /\ "loop" \in Serving
      BY <1>3 DEF Unstarted, Serving, Running
    <2>2. /\ call'[c].at = (IF Unstarted(c) = {t} THEN "finishing" ELSE "launching")
          /\ call'[c].threads = call[c].threads
      BY <1>1, <1>5 DEF Goto, TypeOK
    <2>3. thread'[t] = "loop" /\ \A u \in Threads \ {t} : thread'[u] = thread[u]
      BY <1>1, <1>5, <2>1 DEF Move, TypeOK
    <2>4. TypeOK'
      <3>1. thread' \in [Threads -> Places]
        BY <1>1, <1>5 DEF TypeOK, Move, Places, Running
      <3>2. call' \in [Controllers -> [at : CallPlaces, threads : SUBSET Threads,
                                       preserve : BOOLEAN]]
        BY <1>1, <1>5 DEF TypeOK, Goto, CallPlaces
      <3> QED
        BY <1>1, <1>3, <3>1, <3>2 DEF TypeOK
    <2>5. (Live \subseteq Generation(starts))'
      BY <1>3, <2>1, <2>3 DEF Live, Generation
    <2>6. StartTrue(c)'
      <3>1. ASSUME state = "starting" PROVE
              /\ ~stopping /\ registered = Generation(starts)
              /\ \A u \in Generation(starts) : thread'[u] \in Serving \cup {"created"}
              /\ Unstarted(c) = {t} =>
                    \A u \in Generation(starts) : thread'[u] \in Serving
        BY <1>1, <1>3, <2>1, <2>3, <3>1 DEF StartTrue, Unstarted
      <3> QED
        BY <1>1, <1>3, <2>2, <3>1 DEF StartTrue, Opening, Generation
    <2> QED
      BY <1>1, <1>2, <1>3, <2>2, <2>4, <2>5, <2>6, StartGoesOn
         DEF Starting, StartPlaces, Opening
  <1> QED
    BY <1>4, <1>5 DEF StartLaunch, Goto

(* A start returns ready only if nobody has failed it. *)
LEMMA StartFinishStep ==
    ASSUME Inv, NEW c \in Controllers, StartFinish(c) PROVE Inv'
  <1>1. TypeOK /\ Starting(c) /\ StartTrue(c) /\ state \in {"starting", "failed"}
    BY DEF Inv, CallsApart, StartFinish, At, Starting, StartPlaces, Opening
  <1>2. \A e \in Controllers \ {c} : /\ ~Starting(e)' /\ ~Stops(e)'
    BY <1>1, OwnCall, StartsAlone DEF Proceed
  <1>3. /\ Live' = Live /\ Live \subseteq Generation(starts) /\ call[c].at = "finishing"
        /\ UNCHANGED <<stopping, registered, fatal, listening, thread, starts>>
    BY DEF StartFinish, Live, Inv, At
  <1>4. CASE state = "failed" /\ Goto(c, "halting") /\ state' = state
    <2>1. call'[c].at = "halting"
      BY <1>1, <1>4 DEF Goto, TypeOK
    <2>2. TypeOK'
      BY <1>1, <1>3, <1>4 DEF Goto, TypeOK, CallPlaces
    <2>3. (Live \subseteq Generation(starts))'
      BY <1>3 DEF Generation
    <2>4. StartTrue(c)'
      BY <1>4, <2>1 DEF StartTrue, Opening
    <2> QED
      BY <1>1, <1>2, <1>4, <2>1, <2>2, <2>3, <2>4, StartGoesOn
         DEF Starting, StartPlaces, Opening
  <1>5. CASE state = "starting" /\ state' = "ready" /\ Return(c)
    <2>1. call'[c] = Idle
      BY <1>1, <1>5 DEF Return, TypeOK
    <2>2. \A e \in Controllers : ~Starting(e)' /\ ~Stops(e)'
      BY <1>2, <2>1 DEF Starting, Stops, Idle, StartPlaces, Opening
    <2>3. TypeOK'
      BY <1>1, <1>3, <1>5 DEF Return, Idle, TypeOK, CallPlaces, States
    <2>4. ReadyTrue'
      BY <1>1, <1>3, <1>5 DEF StartTrue, ReadyTrue, Generation, Opening
    <2>5. (Live \subseteq Generation(starts))'
      BY <1>3 DEF Generation
    <2> QED
      BY <1>5, <2>2, <2>3, <2>4, <2>5 DEF Inv, CallsApart, RestTrue
  <1> QED
    BY <1>1, <1>4, <1>5 DEF StartFinish

(* The clean-up of a failed start stays its own. *)
LEMMA StartCleansUp ==
    ASSUME Inv, NEW c \in Controllers, StartHalt(c) \/ StartClose(c) PROVE Inv'
  <1>1. TypeOK /\ Starting(c) /\ StartTrue(c) /\ state \in {"starting", "failed"}
    BY DEF Inv, CallsApart, StartHalt, StartClose, At, Starting, StartPlaces, Opening
  <1>2. \A e \in Controllers \ {c} : /\ ~Starting(e)' /\ ~Stops(e)'
    BY <1>1, OwnCall, StartsAlone DEF Proceed
  <1>3. /\ Live' = Live /\ Live \subseteq Generation(starts)
        /\ UNCHANGED <<state, registered, fatal, thread, starts>>
    BY DEF StartHalt, StartClose, Live, Inv
  <1>4. /\ call'[c].at \in {"halted", "reaping"}
        /\ call'[c].preserve => state = "failed"
        /\ call'[c] \in [at : CallPlaces, threads : SUBSET Threads, preserve : BOOLEAN]
    <2>1. CASE StartHalt(c)
      BY <1>1, <2>1 DEF StartHalt, StartTrue, TypeOK, At, CallPlaces
    <2>2. CASE StartClose(c)
      BY <1>1, <2>2 DEF StartClose, Goto, StartTrue, TypeOK, At, CallPlaces
    <2> QED
      BY <2>1, <2>2
  <1>5. TypeOK'
    <2>1. call' \in [Controllers -> [at : CallPlaces, threads : SUBSET Threads,
                                     preserve : BOOLEAN]]
      BY <1>1, <1>4, OwnCall DEF TypeOK, Proceed
    <2>2. stopping' \in BOOLEAN /\ listening' \in BOOLEAN
      BY <1>1 DEF TypeOK, StartHalt, StartClose
    <2> QED
      BY <1>1, <1>3, <2>1, <2>2 DEF TypeOK
  <1>6. (Live \subseteq Generation(starts))'
    BY <1>3 DEF Generation
  <1>7. StartTrue(c)'
    BY <1>3, <1>4 DEF StartTrue, Opening
  <1> QED
    BY <1>1, <1>2, <1>3, <1>4, <1>5, <1>6, <1>7, StartGoesOn
       DEF Starting, StartPlaces, Opening

(* The end of a failed start fails the service. *)
LEMMA StartReapStep == ASSUME Inv, NEW c \in Controllers, StartReap(c) PROVE Inv'
  <1>1. TypeOK /\ StartTrue(c) /\ state \in {"starting", "failed"}
    BY DEF Inv, CallsApart, StartReap, At, Starting, StartPlaces, Opening
  <1>2. state' = "failed" /\ starts' = starts /\ Live' = Live /\ listening' = listening
    BY <1>1 DEF StartReap, StartTrue, At, Live
  <1>3. call'[c] = Idle
    BY <1>1 DEF StartReap, Return, TypeOK
  <1>4. ~Starting(c)' /\ ~Stops(c)'
    BY <1>3 DEF Starting, Stops, Idle, StartPlaces, Opening
  <1>5. TypeOK'
    BY <1>1, <1>2 DEF StartReap, Return, Idle, TypeOK, States, CallPlaces
  <1>6. \A e \in Controllers \ {c} : call'[e] = call[e]
    BY <1>1, OwnCall DEF Proceed
  <1> QED
    BY <1>2, <1>4, <1>5, <1>6, Recedes

-----------------------------------------------------------------------------
(* The record of a shutdown that begins. *)
LEMMA BeginsClosing ==
    ASSUME TypeOK, NEW c \in Controllers, ShutdownBegin(c)
    PROVE  \/ /\ state = "failed"
              /\ call'[c] = [at |-> "closing", threads |-> registered, preserve |-> TRUE]
           \/ /\ state = "ready"
              /\ call'[c] = [at |-> "closing", threads |-> registered, preserve |-> FALSE]
  <1>1. call'[c] = [at |-> "closing", threads |-> registered,
                    preserve |-> state = "failed"]
    BY DEF ShutdownBegin, TypeOK
  <1>2. CASE state = "failed"
    <2>1. (state = "failed") = TRUE
      BY <1>2
    <2> QED
      BY <1>1, <1>2, <2>1
  <1>3. CASE state = "ready"
    <2>1. (state = "failed") = FALSE
      BY <1>3
    <2> QED
      BY <1>1, <1>3, <2>1
  <1> QED
    BY <1>2, <1>3 DEF ShutdownBegin

(* A shutdown goes from place to place and returns. *)
LEMMA OwnShutdown ==
    ASSUME TypeOK, NEW c \in Controllers,
           ShutdownClose(c) \/ ShutdownJoin(c) \/ ShutdownFinish(c)
    PROVE  /\ \/ call'[c] = Idle
              \/ \E p \in {"joining", "closed"} : call'[c] = [call[c] EXCEPT !.at = p]
           /\ call'[c] \in [at : CallPlaces, threads : SUBSET Threads,
                            preserve : BOOLEAN]
           /\ call' = [call EXCEPT ![c] = call'[c]]
           /\ call' \in [Controllers -> [at : CallPlaces, threads : SUBSET Threads,
                                         preserve : BOOLEAN]]
           /\ listening' = listening \/ listening' = FALSE
           /\ listening' \in BOOLEAN
  <1>1. \/ call'[c] = Idle
        \/ \E p \in {"joining", "closed"} : call'[c] = [call[c] EXCEPT !.at = p]
    BY DEF ShutdownClose, ShutdownJoin, ShutdownFinish, Goto, Return, TypeOK
  <1>2. Idle \in [at : CallPlaces, threads : SUBSET Threads, preserve : BOOLEAN]
    BY DEF Idle, CallPlaces
  <1>3. call[c] \in [at : CallPlaces, threads : SUBSET Threads, preserve : BOOLEAN]
    BY DEF TypeOK
  <1>4. "joining" \in CallPlaces /\ "closed" \in CallPlaces
    BY DEF CallPlaces
  <1>5. call'[c] \in [at : CallPlaces, threads : SUBSET Threads, preserve : BOOLEAN]
    BY <1>1, <1>2, <1>3, <1>4
  <1>6. call' = [call EXCEPT ![c] = call'[c]]
    BY OwnCall DEF Proceed
  <1>7. call' \in [Controllers -> [at : CallPlaces, threads : SUBSET Threads,
                                   preserve : BOOLEAN]]
    BY <1>5, <1>6 DEF TypeOK
  <1>8. listening' = listening \/ listening' = FALSE
    BY DEF ShutdownClose, ShutdownJoin, ShutdownFinish
  <1>9. listening' \in BOOLEAN
    BY <1>8 DEF TypeOK
  <1> QED
    BY <1>1, <1>5, <1>6, <1>7, <1>8, <1>9

(* A shutdown of a failed service, or one that gives up, says "failed". *)
LEMMA ShutdownFails ==
    ASSUME Inv, NEW c \in Controllers, ~Starting(c), ~Stops(c)', ~Starting(c)',
           ShutdownBegin(c) \/ ShutdownClose(c) \/ ShutdownJoin(c) \/ ShutdownFinish(c),
           \/ state' = "failed"
           \/ state' = state /\ registered' = registered /\ stopping' = stopping
    PROVE  Inv'
  <1>1. TypeOK
    BY DEF Inv
  <1>2. /\ starts' = starts /\ thread' = thread
        /\ listening' = listening \/ listening' = FALSE
        /\ stopping' = stopping \/ stopping' = TRUE
        /\ state' = state \/ state' \in States
        /\ registered' \subseteq Threads
    BY <1>1 DEF ShutdownBegin, ShutdownClose, ShutdownJoin, ShutdownFinish, States,
                TypeOK
  <1>3. call'[c] \in [at : CallPlaces, threads : SUBSET Threads, preserve : BOOLEAN]
    <2>1. CASE ShutdownBegin(c)
      <3>1. "closing" \in CallPlaces /\ registered \in SUBSET Threads
        BY <1>1 DEF CallPlaces, TypeOK
      <3>2. \A b \in BOOLEAN :
                [at |-> "closing", threads |-> registered, preserve |-> b]
                    \in [at : CallPlaces, threads : SUBSET Threads, preserve : BOOLEAN]
        BY <3>1
      <3> QED
        BY <1>1, <2>1, <3>2, BeginsClosing
    <2>2. CASE ~ShutdownBegin(c)
      BY <1>1, <2>2, OwnShutdown
    <2> QED
      BY <2>1, <2>2
  <1>4. /\ \A e \in Controllers \ {c} : call'[e] = call[e]
        /\ call' = [call EXCEPT ![c] = call'[c]] /\ fatal' = fatal
    BY <1>1, OwnCall DEF Proceed
  <1>5. TypeOK'
    <2>1. listening' \in BOOLEAN /\ stopping' \in BOOLEAN
      BY <1>1, <1>2 DEF TypeOK
    <2>2. call' \in [Controllers -> [at : CallPlaces, threads : SUBSET Threads,
                                     preserve : BOOLEAN]]
      BY <1>1, <1>3, <1>4 DEF TypeOK
    <2> QED
      BY <1>1, <1>2, <1>4, <2>1, <2>2 DEF TypeOK
  <1>6. Live' = Live /\ (listening' => listening)
    BY <1>2 DEF Live
  <1> QED
    BY <1>2, <1>4, <1>5, <1>6, Recedes

(* What is left to show of a shutdown that goes on. *)
LEMMA ShutdownGoesOn ==
    ASSUME Inv, TypeOK', NEW c \in Controllers, Stops(c)', StopTrue(c)',
           \A e \in Controllers \ {c} : ~Starting(e) /\ ~Stops(e) /\ call'[e] = call[e],
           state' \in {"stopping", "failed"}, starts' = starts, thread' = thread
    PROVE  Inv'
  <1>1. \A e \in Controllers : ~Starting(e)' /\ (Stops(e)' => e = c)
    BY DEF Starting, Stops, StartPlaces, Opening
  <1>2. (Live \subseteq Generation(starts))'
    BY DEF Inv, Live, Generation
  <1> QED
    BY <1>1, <1>2 DEF Inv, CallsApart, ReadyTrue, RestTrue

(* A clean shutdown begins with every handler, and no other call changes    *)
(* what it will say but to fail it.                                         *)
LEMMA ShutdownBeginStep ==
    ASSUME Inv, NEW c \in Controllers, ShutdownBegin(c) PROVE Inv'
  <1>1. TypeOK /\ ~Starting(c)
    BY DEF Inv, ShutdownBegin, At, Starting, StartPlaces, Opening
  <1>2. \/ /\ state = "failed"
           /\ call'[c] = [at |-> "closing", threads |-> registered, preserve |-> TRUE]
        \/ /\ state = "ready"
           /\ call'[c] = [at |-> "closing", threads |-> registered, preserve |-> FALSE]
    BY <1>1, BeginsClosing
  <1>3. CASE state = "failed"
    <2>1. ~Stops(c)' /\ ~Starting(c)' /\ state' = "failed"
      BY <1>2, <1>3 DEF Stops, Starting, StartPlaces, Opening, ShutdownBegin
    <2> QED
      BY <1>1, <2>1, ShutdownFails
  <1>4. CASE state = "ready"
    <2>1. \A e \in Controllers : ~Starting(e) /\ ~Stops(e)
      BY <1>4 DEF Inv, CallsApart
    <2>2. Stops(c)'
      BY <1>2, <1>4 DEF Stops
    <2>3. StopTrue(c)'
      BY <1>2, <1>4 DEF StopTrue, Inv, ReadyTrue, ShutdownBegin, Live
    <2>4. TypeOK'
      BY <1>1, <1>4 DEF ShutdownBegin, TypeOK, CallPlaces, States
    <2>5. /\ state' = "stopping" /\ starts' = starts /\ thread' = thread
          /\ \A e \in Controllers \ {c} : call'[e] = call[e]
      BY <1>1, <1>4, OwnCall DEF ShutdownBegin
    <2> QED
      BY <2>1, <2>2, <2>3, <2>4, <2>5, ShutdownGoesOn
  <1> QED
    BY <1>3, <1>4 DEF ShutdownBegin

(* It closes the listener, waits for the handlers, and only then says so. *)
LEMMA ShutdownSteps ==
    ASSUME Inv, NEW c \in Controllers,
           ShutdownClose(c) \/ ShutdownJoin(c) \/ ShutdownFinish(c)
    PROVE  Inv'
  <1>1. TypeOK /\ ~Starting(c) /\ call[c].at \in {"closing", "joining", "closed"}
    BY DEF Inv, ShutdownClose, ShutdownJoin, ShutdownFinish, At, Starting,
           StartPlaces, Opening
  <1>2. \A e \in Controllers \ {c} : call'[e] = call[e]
    BY <1>1, OwnCall DEF Proceed
  <1>3. /\ call'[c].at \in {"joining", "closed", "idle"}
        /\ call'[c].at # "idle" => /\ call'[c].threads = call[c].threads
                                   /\ call'[c].preserve = call[c].preserve
        /\ ~Starting(c)'
    <2>1. call'[c] = Idle \/ \E p \in {"joining", "closed"} :
              call'[c] = [call[c] EXCEPT !.at = p]
      BY <1>1, OwnShutdown
    <2> QED
      BY <1>1, <2>1 DEF Idle, TypeOK, Starting, StartPlaces, Opening
  <1>4. ASSUME ~Stops(c)', ~ShutdownFinish(c) PROVE Inv'
    <2>1. \/ state' = "failed"
          \/ state' = state /\ registered' = registered /\ stopping' = stopping
      BY <1>4 DEF ShutdownClose, ShutdownJoin
    <2> QED
      BY <1>1, <1>3, <1>4, <2>1, ShutdownFails
  <1>5. CASE ShutdownFinish(c) /\ call[c].preserve
    <2>1. state' = "failed" /\ call'[c] = Idle
      BY <1>1, <1>5 DEF ShutdownFinish, Return, TypeOK
    <2>2. ~Stops(c)'
      BY <2>1 DEF Stops, Idle
    <2> QED
      BY <1>1, <1>3, <2>1, <2>2, ShutdownFails
  <1>6. CASE Stops(c)
    <2>1. /\ \A e \in Controllers \ {c} : ~Starting(e) /\ ~Stops(e)
          /\ state \in {"stopping", "failed"} /\ StopTrue(c)
      BY <1>6 DEF Inv, CallsApart
    <2>2. CASE ShutdownFinish(c)
      <3>1. /\ state' = "stopped" /\ call'[c] = Idle /\ registered' = {}
            /\ UNCHANGED <<stopping, fatal, listening, thread, starts>>
        BY <1>1, <1>6, <2>2 DEF ShutdownFinish, Return, Stops, TypeOK
      <3>2. Live' = {} /\ ~listening'
        BY <2>1, <2>2, <3>1 DEF StopTrue, ShutdownFinish, At, Live
      <3>3. \A e \in Controllers : ~Starting(e)' /\ ~Stops(e)'
        BY <1>2, <2>1, <3>1 DEF Starting, Stops, Idle, StartPlaces, Opening
      <3>4. TypeOK'
        BY <1>1, <2>2, <3>1 DEF ShutdownFinish, Return, TypeOK, States, Idle,
                                CallPlaces
      <3> QED
        BY <3>1, <3>2, <3>3, <3>4 DEF Inv, CallsApart, ReadyTrue, RestTrue
    <2>3. ASSUME Stops(c)' PROVE Inv'
      <3>1. /\ state' = state /\ starts' = starts /\ thread' = thread
            /\ UNCHANGED <<registered, stopping, fatal>>
            /\ \/ call'[c].at = "joining" /\ ~listening'
               \/ call'[c].at = "closed" /\ listening' = listening /\ Joined(c)
                  /\ call[c].at = "joining"
        <4>1. call'[c].at # "idle"
          BY <2>3 DEF Stops
        <4>2. CASE ShutdownClose(c)
          BY <1>1, <4>2 DEF ShutdownClose, Goto, TypeOK
        <4>3. CASE ShutdownJoin(c)
          BY <1>1, <4>1, <4>3 DEF ShutdownJoin, Goto, Return, Idle, TypeOK, At
        <4>4. CASE ShutdownFinish(c)
          BY <1>1, <4>1, <4>4 DEF ShutdownFinish, Return, Idle, TypeOK
        <4> QED
          BY <4>2, <4>3, <4>4
      <3>2. TypeOK'
        <4>1. /\ listening' \in BOOLEAN
              /\ call' \in [Controllers -> [at : CallPlaces, threads : SUBSET Threads,
                                            preserve : BOOLEAN]]
          BY <1>1, OwnShutdown
        <4> QED
          BY <1>1, <3>1, <4>1 DEF TypeOK
      <3>3. Live \subseteq call'[c].threads /\ Live' = Live
        BY <1>3, <2>1, <2>3, <3>1 DEF Stops, StopTrue, Live
      <3>4. Joined(c) => Live = {}
        BY <2>1 DEF StopTrue, Joined, Live, Running
      <3>5. StopTrue(c)'
        BY <2>1, <3>1, <3>3, <3>4 DEF StopTrue
      <3> QED
        BY <1>2, <2>1, <2>3, <3>1, <3>2, <3>5, ShutdownGoesOn
    <2> QED
      BY <1>4, <2>2, <2>3
  <1> QED
    BY <1>1, <1>3, <1>4, <1>5, <1>6 DEF Stops

(* A service that was never started stops at once. *)
LEMMA ShutdownCreatedStep ==
    ASSUME Inv, NEW c \in Controllers, ShutdownCreated(c) PROVE Inv'
  <1>1. Live' = Live /\ UNCHANGED <<stopping, registered, fatal, listening, thread,
                                    call, starts>>
    BY DEF ShutdownCreated, Live
  <1>2. \A e \in Controllers : ~Starting(e) /\ ~Stops(e)
    BY DEF Inv, CallsApart, ShutdownCreated
  <1>3. \A e \in Controllers : ~Starting(e)' /\ ~Stops(e)'
    BY <1>1, <1>2 DEF Starting, Stops
  <1>4. TypeOK'
    BY <1>1 DEF Inv, TypeOK, ShutdownCreated, States
  <1>5. (Live \subseteq Generation(starts))'
    BY <1>1 DEF Inv, Generation
  <1> QED
    BY <1>1, <1>3, <1>4, <1>5 DEF Inv, CallsApart, ReadyTrue, RestTrue,
                                  ShutdownCreated

-----------------------------------------------------------------------------
(* The invariant holds before the first call. *)
LEMMA InvInit == Init => Inv
  <1> SUFFICES ASSUME Init PROVE Inv
    OBVIOUS
  <1>1. Live = {} /\ \A c \in Controllers : ~Starting(c) /\ ~Stops(c)
    BY DEF Init, Live, Running, Starting, Stops, Idle, StartPlaces, Opening
  <1>2. TypeOK
    <2>1. call \in [Controllers -> [at : CallPlaces, threads : SUBSET Threads,
                                    preserve : BOOLEAN]]
      BY DEF Init, Idle, CallPlaces
    <2>2. thread \in [Threads -> Places] /\ state \in States
      BY DEF Init, Places, States
    <2>3. starts \in 0..MaxStarts
      BY LifecycleConfiguration DEF Init
    <2> QED
      BY <2>1, <2>2, <2>3 DEF Init, TypeOK
  <1> QED
    BY <1>1, <1>2 DEF Inv, Init, CallsApart, ReadyTrue, RestTrue

(* Every step of a handler or of a control thread keeps it. *)
LEMMA InvStep == Inv /\ [Next]_vars => Inv'
  <1> SUFFICES ASSUME Inv, [Next]_vars PROVE Inv'
    OBVIOUS
  <1>1. CASE UNCHANGED vars
    <2>1. TypeOK'
      BY <1>1 DEF Inv, TypeOK, vars
    <2> QED
      BY <1>1, <2>1, Recedes DEF vars, Live
  <1>2. ASSUME NEW c \in Controllers, Proceed(c) PROVE Inv'
    BY <1>2, StartOpenStep, StartRegisterStep, StartLaunchStep, StartFinishStep,
       StartCleansUp, StartReapStep, ShutdownSteps DEF Proceed
  <1> QED
    BY <1>1, <1>2, ServeStep, StartBeginStep, ShutdownCreatedStep,
       ShutdownBeginStep DEF Next

(* Only one start at a time, no clean shutdown beside it, and a start or a  *)
(* shutdown finds the handlers as it left them unless the service failed.   *)
THEOREM InvHolds == Spec => []Inv
  BY InvInit, InvStep, PTL DEF Spec

(* The service says "stopped" only when no handler runs and the listener is *)
(* closed, "ready" only when all its handlers run and none was told to      *)
(* stop, and never runs handlers of two starts together.                    *)
THEOREM StatusIsHonest == Spec => []StatusHonest
  <1>1. Inv => StatusHonest
    <2> SUFFICES ASSUME Inv PROVE StatusHonest
      OBVIOUS
    <2>1. TypeOK /\ StoppedIsDrained
      BY DEF Inv, RestTrue, StoppedIsDrained
    <2>2. OneGeneration
      BY DEF Inv, OneGeneration, Generation
    <2>3. ReadyIsServed
      <3> SUFFICES ASSUME state = "ready" PROVE ReadyIsServed
        BY DEF ReadyIsServed
      <3>1. /\ ~stopping /\ registered = Generation(starts)
            /\ Generation(starts) \subseteq Threads
            /\ \A t \in Generation(starts) : thread[t] \in Running
        BY DEF Inv, ReadyTrue, TypeOK, Serving
      <3>2. registered \cap Live = Generation(starts)
        BY <3>1 DEF Live
      <3> QED
        BY <3>1, <3>2, GenerationCount DEF ReadyIsServed
    <2> QED
      BY <2>1, <2>2, <2>3 DEF StatusHonest
  <1> QED
    BY <1>1, InvHolds, PTL

-----------------------------------------------------------------------------
(* The types of the transport. *)
HandlerPlaces == {"idle", "accept", "handshake", "head", "body", "admit", "process", "answer",
                  "write"}
Stages == {"none", "accepted", "authenticated", "head_validated", "body_read", "closed"}
HandlerRecord ==
    [pc : HandlerPlaces, client : Clients \cup {NoClient}, asOf : Nat, timer : Nat,
     held : Nat, cap : Nat]
Connection ==
    [stage : Stages, token : Nat, record : Nat, buffered : Nat, got : Nat, age : Nat,
     idle : Nat]

TransportTypes ==
    /\ now \in Nat
    /\ plan \in Mixes
    /\ client \in [Clients -> [state : {"new", "waiting", "shaken", "served", "gone"}, sent : Nat]]
    /\ handler \in [Handlers -> HandlerRecord]
    /\ conn \in [Clients -> Connection]

(* A client that has connected has a plan and sends no more than it holds. *)
ClientsTrue ==
    \A c \in Clients :
        /\ client[c].state # "new" => c \in DOMAIN plan
        /\ client[c].sent > 0 => c \in DOMAIN plan /\ client[c].sent <= Len(plan[c].records)
        /\ conn[c].stage # "none" => client[c].state # "new"

(* The handler of a connection is its only one, from accept to close. *)
Serves(h) == handler[h].pc \notin {"idle", "accept"}
HandlersApart ==
    /\ \A h \in Handlers :
          /\ Serves(h) => Of(h) \in Clients /\ conn[Of(h)].stage # "none"
          /\ ~Serves(h) => Of(h) = NoClient
    /\ \A h, g \in Handlers : Of(h) = Of(g) /\ Of(h) # NoClient => h = g

(* Where the body is still being read, some of it is missing. *)
BodyMissing ==
    \A c \in Clients : conn[c].stage = "head_validated" =>
        plan[c].length \in Nat /\ conn[c].got < HeadBytes + plan[c].length

(* What a handler has spent on its client, by where it is. *)
TimeSpent ==
    \A h \in Handlers :
        /\ handler[h].pc \in {"idle", "accept"} => handler[h].held = 0
        /\ handler[h].pc = "handshake" =>
              /\ handler[h].held = handler[h].timer /\ handler[h].timer <= HandshakeTotal
              /\ conn[Of(h)].age = 0
        /\ Reading(h) => /\ handler[h].held <= HandshakeTotal + conn[Of(h)].age
                         /\ conn[Of(h)].age <= ReadTotal
        /\ handler[h].pc \in {"admit", "process", "answer"} =>
              handler[h].held <= HandshakeTotal + ReadTotal
        /\ handler[h].pc = "write" =>
              /\ handler[h].held <= HandshakeTotal + ReadTotal + handler[h].timer
              /\ handler[h].timer <= WriteTotal

(* A connection nobody has accepted has spent nothing. *)
Unaccepted == \A c \in Clients : conn[c].stage = "none" => conn[c] = NoConnection

TransportInv ==
    /\ TransportTypes /\ ClientsTrue /\ HandlersApart /\ BodyMissing /\ TimeSpent
    /\ Unaccepted /\ BodyExact
-----------------------------------------------------------------------------
(* The smaller of two numbers. *)
LEMMA MinOfTwo ==
    ASSUME NEW a \in Int, NEW b \in Int
    PROVE  /\ Min({a, b}) \in {a, b} /\ Min({a, b}) <= a /\ Min({a, b}) <= b
           /\ a <= b => Min({a, b}) = a
           /\ b <= a => Min({a, b}) = b
  <1>1. \E x \in {a, b} : \A y \in {a, b} : x <= y
    <2>1. CASE a <= b
      BY <2>1
    <2>2. CASE ~(a <= b)
      BY <2>2
    <2> QED BY <2>1, <2>2
  <1>2. Min({a, b}) \in {a, b} /\ \A y \in {a, b} : Min({a, b}) <= y
    BY <1>1 DEF Min
  <1> QED
    BY <1>2

(* The deadlines are numbers of ticks. *)
LEMMA Totals ==
    /\ AcceptSeconds \in Nat /\ AcceptSeconds >= 1
    /\ HandshakeTotal \in Nat /\ HandshakeTotal >= 1
    /\ ReadTotal \in Nat /\ ReadTotal >= 1 /\ ReadIdle \in Nat
    /\ WriteTotal \in Nat /\ WriteTotal >= 1 /\ WriteIdle \in Nat
    /\ HeadBytes \in Nat /\ HeadBytes >= 1 /\ Chunk \in Nat /\ Chunk >= 1 /\ MaxTime \in Nat
  BY TransportConfiguration

(* Ticks are counted exactly as long as they are below every deadline. *)
LEMMA LaterCounts ==
    ASSUME NEW t \in Nat
    PROVE  Later(t) \in Nat /\ (t <= HandshakeTotal + ReadTotal + WriteTotal => Later(t) = t + 1)
  <1>1. Ceiling \in Nat /\ Ceiling = AcceptSeconds + HandshakeTotal + ReadTotal + WriteTotal + 1
    BY Totals DEF Ceiling
  <1>2. /\ Min({t + 1, Ceiling}) \in {t + 1, Ceiling}
        /\ t + 1 <= Ceiling => Min({t + 1, Ceiling}) = t + 1
    <2>1. t + 1 \in Int /\ Ceiling \in Int
      BY <1>1
    <2> HIDE DEF Ceiling
    <2> QED BY <2>1, MinOfTwo
  <1>3. t <= HandshakeTotal + ReadTotal + WriteTotal => t + 1 <= Ceiling
    BY <1>1, Totals
  <1> QED
    BY <1>1, <1>2, <1>3 DEF Later

(* The plan of a client that has connected. *)
LEMMA PlanFields ==
    ASSUME TransportTypes, NEW c \in DOMAIN plan
    PROVE  plan[c].length \in Nat /\ plan[c].records \in Seq(Nat)
  BY TransportConfiguration DEF TransportTypes

(* The fields of a handler. *)
LEMMA HandlerFields ==
    ASSUME TransportTypes, NEW h \in Handlers
    PROVE  /\ handler[h] \in HandlerRecord
           /\ handler[h].pc \in HandlerPlaces /\ handler[h].client \in Clients \cup {NoClient}
           /\ handler[h].asOf \in Nat /\ handler[h].timer \in Nat
           /\ handler[h].held \in Nat /\ handler[h].cap \in Nat
  <1>1. handler[h] \in HandlerRecord
    BY DEF TransportTypes
  <1> QED
    BY <1>1 DEF HandlerRecord

(* The fields of a connection. *)
LEMMA ConnectionFields ==
    ASSUME TransportTypes, NEW c \in Clients
    PROVE  /\ conn[c] \in Connection /\ conn[c].stage \in Stages
           /\ conn[c].token \in Nat /\ conn[c].record \in Nat /\ conn[c].buffered \in Nat
           /\ conn[c].got \in Nat /\ conn[c].age \in Nat /\ conn[c].idle \in Nat
  <1>1. conn[c] \in Connection
    BY DEF TransportTypes
  <1> QED
    BY <1>1 DEF Connection

-----------------------------------------------------------------------------
(* A step of a handler for its client: the handler's record and the one      *)
(* connection change, and each as the invariant asks of the two together.    *)
LEMMA HandlerMoves ==
    ASSUME TransportInv, NEW h \in Handlers, NEW rec \in HandlerRecord,
           NEW c \in Clients, NEW k \in Connection,
           Goes(h, rec), conn' = [conn EXCEPT ![c] = k],
           Of(h) = c \/ conn[c].stage = "none",
           client[c].state # "new", k.stage # "none",
           \/ rec.client = c /\ rec.pc \notin {"idle", "accept"}
           \/ rec.client = NoClient /\ rec.pc \in {"idle", "accept"} /\ rec.held = 0,
           k.stage = "head_validated" =>
               plan[c].length \in Nat /\ k.got < HeadBytes + plan[c].length,
           k.stage = "body_read" => k.got = HeadBytes + plan[c].length /\ k.buffered = 0,
           rec.pc = "handshake" =>
               rec.held = rec.timer /\ rec.timer <= HandshakeTotal /\ k.age = 0,
           rec.pc \in {"head", "body"} =>
               rec.held <= HandshakeTotal + k.age /\ k.age <= ReadTotal,
           rec.pc \in {"admit", "process", "answer"} =>
               rec.held <= HandshakeTotal + ReadTotal,
           rec.pc = "write" =>
               /\ rec.held <= HandshakeTotal + ReadTotal + rec.timer
               /\ rec.timer <= WriteTotal
    PROVE  TransportInv'
  <1>1. /\ handler' = [handler EXCEPT ![h] = rec]
        /\ UNCHANGED <<now, client, plan>>
    BY DEF Goes, Fixed
  <1>2. /\ handler'[h] = rec /\ \A g \in Handlers \ {h} : handler'[g] = handler[g]
        /\ conn'[c] = k /\ \A x \in Clients \ {c} : conn'[x] = conn[x]
    BY <1>1 DEF TransportInv, TransportTypes
  <1>3. TransportTypes'
    BY <1>1 DEF TransportInv, TransportTypes
  <1>4. \A g \in Handlers \ {h} : Of(g) # c
    BY TransportConfiguration DEF TransportInv, HandlersApart, Serves
  <1>5. ClientsTrue'
    BY <1>1, <1>2 DEF TransportInv, ClientsTrue
  <1>6. HandlersApart'
    <2>1. NoClient \notin Clients
      BY TransportConfiguration
    <2>2. \A g \in Handlers \ {h} :
              /\ Serves(g)' => Of(g)' \in Clients /\ conn'[Of(g)'].stage # "none"
              /\ ~Serves(g)' => Of(g)' = NoClient
      BY <1>2, <1>4 DEF TransportInv, HandlersApart, Serves, Of
    <2>3. /\ Serves(h)' => Of(h)' \in Clients /\ conn'[Of(h)'].stage # "none"
          /\ ~Serves(h)' => Of(h)' = NoClient
      BY <1>2 DEF Serves, Of
    <2>4. \A f, g \in Handlers : Of(f)' = Of(g)' /\ Of(f)' # NoClient => f = g
      BY <1>2, <1>4 DEF TransportInv, HandlersApart, Of
    <2> QED
      BY <2>2, <2>3, <2>4 DEF HandlersApart, Of
  <1>7. BodyMissing'
    BY <1>1, <1>2 DEF TransportInv, BodyMissing
  <1>8. BodyExact'
    BY <1>1, <1>2 DEF TransportInv, BodyExact
  <1>9. Unaccepted'
    BY <1>2 DEF TransportInv, Unaccepted
  <1>10. TimeSpent'
    <2>1. ASSUME NEW g \in Handlers \ {h}
          PROVE  /\ handler'[g].pc \in {"idle", "accept"} => handler'[g].held = 0
                 /\ handler'[g].pc = "handshake" =>
                      /\ handler'[g].held = handler'[g].timer
                      /\ handler'[g].timer <= HandshakeTotal
                      /\ conn'[Of(g)'].age = 0
                 /\ Reading(g)' => /\ handler'[g].held <= HandshakeTotal + conn'[Of(g)'].age
                                   /\ conn'[Of(g)'].age <= ReadTotal
                 /\ handler'[g].pc \in {"admit", "process", "answer"} =>
                      handler'[g].held <= HandshakeTotal + ReadTotal
                 /\ handler'[g].pc = "write" =>
                      /\ handler'[g].held <= HandshakeTotal + ReadTotal + handler'[g].timer
                      /\ handler'[g].timer <= WriteTotal
      <3>1. Of(g)' = Of(g) /\ handler'[g] = handler[g] /\ (Reading(g)' <=> Reading(g))
        BY <1>2 DEF Of, Reading
      <3>2. Serves(g) => Of(g) \in Clients \ {c}
        BY <1>4 DEF TransportInv, HandlersApart
      <3>3. Serves(g) => conn'[Of(g)] = conn[Of(g)]
        BY <1>2, <3>2
      <3> QED
        BY <3>1, <3>3 DEF TransportInv, TimeSpent, Serves, Reading
    <2>2. /\ handler'[h].pc \in {"idle", "accept"} => handler'[h].held = 0
          /\ handler'[h].pc = "handshake" =>
               /\ handler'[h].held = handler'[h].timer
               /\ handler'[h].timer <= HandshakeTotal
               /\ conn'[Of(h)'].age = 0
          /\ Reading(h)' => /\ handler'[h].held <= HandshakeTotal + conn'[Of(h)'].age
                            /\ conn'[Of(h)'].age <= ReadTotal
          /\ handler'[h].pc \in {"admit", "process", "answer"} =>
               handler'[h].held <= HandshakeTotal + ReadTotal
          /\ handler'[h].pc = "write" =>
               /\ handler'[h].held <= HandshakeTotal + ReadTotal + handler'[h].timer
               /\ handler'[h].timer <= WriteTotal
      BY <1>2 DEF Of, Reading
    <2> QED
      BY <2>1, <2>2 DEF TimeSpent, Of, Reading
  <1> QED
    BY <1>3, <1>5, <1>6, <1>7, <1>8, <1>9, <1>10 DEF TransportInv

(* A handler that has no client begins or ends its wait for one. *)
LEMMA HandlerWaits ==
    ASSUME TransportInv, NEW h \in Handlers, NEW rec \in HandlerRecord,
           Goes(h, rec), conn' = conn, ~Serves(h),
           rec.client = NoClient, rec.pc \in {"idle", "accept"}, rec.held = 0
    PROVE  TransportInv'
  <1>1. /\ handler' = [handler EXCEPT ![h] = rec]
        /\ UNCHANGED <<now, client, plan, registry, conn>>
    BY DEF Goes, Fixed
  <1>2. handler'[h] = rec /\ \A g \in Handlers \ {h} : handler'[g] = handler[g]
    BY <1>1 DEF TransportInv, TransportTypes
  <1>3. TransportTypes'
    BY <1>1 DEF TransportInv, TransportTypes
  <1>4. ClientsTrue' /\ BodyMissing' /\ BodyExact' /\ Unaccepted'
    BY <1>1 DEF TransportInv, ClientsTrue, BodyMissing, BodyExact, Unaccepted
  <1>5. HandlersApart'
    BY <1>1, <1>2 DEF TransportInv, HandlersApart, Serves, Of
  <1>6. TimeSpent'
    BY <1>1, <1>2 DEF TransportInv, TimeSpent, Reading, Of
  <1> QED
    BY <1>3, <1>4, <1>5, <1>6 DEF TransportInv

-----------------------------------------------------------------------------
(* The listener or a client moves; the connections do not. *)
LEMMA ClientsMove ==
    ASSUME TransportInv,
           UNCHANGED <<now, plan, registry, handler, conn>>,
           client' \in [Clients -> [state : {"new", "waiting", "shaken", "served", "gone"}, sent : Nat]],
           \A c \in Clients :
               \/ client'[c] = client[c]
               \/ /\ client'[c].state # "new" /\ c \in DOMAIN plan
                  /\ client'[c].sent > 0 => client'[c].sent <= Len(plan[c].records)
    PROVE  TransportInv'
  <1>1. TransportTypes'
    BY DEF TransportInv, TransportTypes
  <1>2. ClientsTrue'
    BY DEF TransportInv, ClientsTrue
  <1>3. HandlersApart' /\ TimeSpent'
    BY DEF TransportInv, HandlersApart, TimeSpent, Serves, Reading, Of
  <1>4. BodyMissing' /\ BodyExact' /\ Unaccepted'
    BY DEF TransportInv, BodyMissing, BodyExact, Unaccepted
  <1> QED
    BY <1>1, <1>2, <1>3, <1>4 DEF TransportInv

(* The fields of a client. *)
LEMMA ClientFields ==
    ASSUME TransportTypes, NEW c \in Clients
    PROVE  client[c].sent \in Nat /\ client[c].state \in {"new", "waiting", "shaken", "served", "gone"}
  BY DEF TransportTypes

(* The listener opens, or closes on those it has not accepted. *)
LEMMA ListenerStep == ASSUME TransportInv, Open \/ Close PROVE TransportInv'
  <1>1. CASE Open
    BY <1>1, ClientsMove DEF Open, Fixed, TransportInv, TransportTypes
  <1>2. CASE Close
    <2>1. /\ UNCHANGED <<now, plan, registry, handler, conn>>
          /\ client' = [c \in Clients |-> IF c \in Waiting THEN [client[c] EXCEPT !.state = "gone"]
                                          ELSE client[c]]
      BY <1>2 DEF Close, Fixed
    <2>2. client' \in [Clients -> [state : {"new", "waiting", "shaken", "served", "gone"}, sent : Nat]]
      BY <2>1 DEF TransportInv, TransportTypes
    <2>3. ASSUME NEW c \in Clients
          PROVE  \/ client'[c] = client[c]
                 \/ /\ client'[c].state # "new" /\ c \in DOMAIN plan
                    /\ client'[c].sent > 0 => client'[c].sent <= Len(plan[c].records)
      <3>1. CASE c \in Waiting
        <4>1. client'[c].state = "gone" /\ client'[c].sent = client[c].sent
          BY <2>1, <3>1 DEF TransportInv, TransportTypes
        <4>2. client[c].state # "new"
          BY <3>1 DEF Waiting
        <4> QED
          BY <4>1, <4>2 DEF TransportInv, ClientsTrue
      <3>2. CASE c \notin Waiting
        BY <2>1, <3>2
      <3> QED BY <3>1, <3>2
    <2> QED
      BY <2>1, <2>2, <2>3, ClientsMove
  <1> QED
    BY <1>1, <1>2

(* A client does what it likes, within its plan. *)
LEMMA ClientKeeps ==
    ASSUME TransportInv, NEW c \in Clients, ClientStep(c)
    PROVE  TransportInv'
  <1>1. /\ client[c].sent \in Nat
        /\ client[c].state # "new" => c \in DOMAIN plan
        /\ client[c].sent > 0 => client[c].sent <= Len(plan[c].records)
    BY ClientFields DEF TransportInv, ClientsTrue
  <1>2. PICK s \in {"waiting", "shaken", "served", "gone"}, sent \in Nat :
            /\ ClientMoves(c, s, sent) /\ c \in DOMAIN plan
            /\ sent > 0 => sent <= Len(plan[c].records)
    <2>1. CASE Connect(c)
      BY <2>1 DEF Connect
    <2>2. CASE Shake(c)
      BY <1>1, <2>2 DEF Shake
    <2>3. CASE Send(c)
      <3>1. /\ c \in DOMAIN plan /\ ClientMoves(c, "shaken", client[c].sent + 1)
            /\ client[c].sent < Len(plan[c].records)
        BY <1>1, <2>3 DEF Send
      <3>2. Len(plan[c].records) \in Nat
        BY <3>1, PlanFields DEF TransportInv
      <3>3. client[c].sent + 1 \in Nat /\ client[c].sent + 1 <= Len(plan[c].records)
        BY <1>1, <3>1, <3>2
      <3> QED
        BY <3>1, <3>3
    <2>4. CASE TakeResponse(c)
      BY <1>1, <2>4 DEF TakeResponse
    <2>5. CASE HangUp(c)
      BY <1>1, <2>5 DEF HangUp
    <2> QED
      BY <2>1, <2>2, <2>3, <2>4, <2>5 DEF ClientStep
  <1>3. /\ client' = [client EXCEPT ![c] = [state |-> s, sent |-> sent]]
        /\ UNCHANGED <<now, plan, registry, handler, conn>>
    BY <1>2 DEF ClientMoves, Fixed
  <1>4. client' \in [Clients -> [state : {"new", "waiting", "shaken", "served", "gone"}, sent : Nat]]
    BY <1>3 DEF TransportInv, TransportTypes
  <1>5. \A x \in Clients : client'[x] = IF x = c THEN [state |-> s, sent |-> sent]
                                        ELSE client[x]
    BY <1>3 DEF TransportInv, TransportTypes
  <1> QED
    BY <1>2, <1>3, <1>4, <1>5, ClientsMove

(* A tick passes no deadline, so what a handler has spent stays within them. *)
LEMMA TickStep == ASSUME TransportInv, Tick PROVE TransportInv'
  <1>1. /\ \A h \in Handlers : ~Expired(h)
        /\ now' = Min({now + 1, MaxTime})
        /\ handler' = [h \in Handlers |-> Older(h)]
        /\ conn' = [c \in Clients |->
                      IF \E h \in Handlers : Of(h) = c /\ Reading(h)
                      THEN [conn[c] EXCEPT !.age = Later(@), !.idle = Later(@)] ELSE conn[c]]
        /\ UNCHANGED <<registry, plan, client>>
    BY DEF Tick, Fixed
  <1>2. now' \in Nat
    <2>1. now + 1 \in Int /\ MaxTime \in Int /\ now + 1 \in Nat /\ MaxTime \in Nat
      BY Totals DEF TransportInv, TransportTypes
    <2> QED
      BY <1>1, <2>1, MinOfTwo
  <1>3. ASSUME NEW h \in Handlers
        PROVE  /\ handler'[h] \in HandlerRecord /\ handler'[h].pc = handler[h].pc
               /\ handler'[h].client = handler[h].client
               /\ handler'[h].timer = IF Timed(h)
                                      THEN Later(handler[h].timer) ELSE handler[h].timer
               /\ handler'[h].held = IF Holds(h)
                                     THEN Later(handler[h].held) ELSE handler[h].held
    <2>1. Later(handler[h].timer) \in Nat /\ Later(handler[h].held) \in Nat
      BY LaterCounts, HandlerFields DEF TransportInv
    <2>2. handler[h] \in HandlerRecord
      BY HandlerFields DEF TransportInv
    <2> QED
      BY <1>1, <2>1, <2>2 DEF Older, HandlerRecord
  <1>4. ASSUME NEW c \in Clients
        PROVE  /\ conn'[c] \in Connection
               /\ conn'[c].stage = conn[c].stage /\ conn'[c].got = conn[c].got
               /\ conn'[c].buffered = conn[c].buffered
               /\ conn'[c].age = IF \E h \in Handlers : Of(h) = c /\ Reading(h)
                                 THEN Later(conn[c].age) ELSE conn[c].age
               /\ (~\E h \in Handlers : Of(h) = c /\ Reading(h)) => conn'[c] = conn[c]
    <2>1. Later(conn[c].age) \in Nat /\ Later(conn[c].idle) \in Nat
      BY LaterCounts, ConnectionFields DEF TransportInv
    <2>2. conn[c] \in Connection
      BY ConnectionFields DEF TransportInv
    <2>3. CASE \E h \in Handlers : Of(h) = c /\ Reading(h)
      <3>1. conn'[c] = [conn[c] EXCEPT !.age = Later(conn[c].age), !.idle = Later(conn[c].idle)]
        BY <1>1, <2>3
      <3> QED BY <2>1, <2>2, <2>3, <3>1 DEF Connection
    <2>4. CASE ~\E h \in Handlers : Of(h) = c /\ Reading(h)
      BY <1>1, <2>2, <2>4
    <2> QED BY <2>3, <2>4
  <1>5. TransportTypes'
    <2>1. handler' \in [Handlers -> HandlerRecord]
      BY <1>1, <1>3
    <2>2. conn' \in [Clients -> Connection]
      BY <1>1, <1>4
    <2> QED
      BY <1>1, <1>2, <2>1, <2>2 DEF TransportInv, TransportTypes
  <1>6. \A h \in Handlers : Of(h)' = Of(h) /\ (Serves(h)' <=> Serves(h))
                              /\ (Reading(h)' <=> Reading(h))
    BY <1>3 DEF Of, Serves, Reading
  <1>7. ClientsTrue' /\ BodyMissing' /\ BodyExact'
    <2>1. \A c \in Clients : conn'[c].stage = conn[c].stage /\ conn'[c].got = conn[c].got
                              /\ conn'[c].buffered = conn[c].buffered
      BY <1>4
    <2>2. client' = client /\ plan' = plan
      BY <1>1
    <2>3. ClientsTrue'
      BY <2>1, <2>2 DEF TransportInv, ClientsTrue
    <2>4. BodyMissing'
      BY <2>1, <2>2 DEF TransportInv, BodyMissing
    <2>5. BodyExact'
      BY <2>1, <2>2 DEF TransportInv, BodyExact
    <2> QED BY <2>3, <2>4, <2>5
  <1>8. HandlersApart'
    BY <1>4, <1>6 DEF TransportInv, HandlersApart
  <1>9. Unaccepted'
    <2>1. ASSUME NEW c \in Clients, conn'[c].stage = "none" PROVE conn'[c] = NoConnection
      <3>1. conn[c] = NoConnection /\ conn[c].stage = "none"
        BY <1>4, <2>1 DEF TransportInv, Unaccepted
      <3>2. ~\E h \in Handlers : Of(h) = c /\ Reading(h)
        BY <3>1 DEF TransportInv, HandlersApart, Serves, Reading
      <3> QED BY <1>4, <3>1, <3>2
    <2> QED BY <2>1 DEF Unaccepted
  <1>10. ASSUME NEW h \in Handlers
         PROVE  /\ handler'[h].pc \in {"idle", "accept"} => handler'[h].held = 0
                /\ handler'[h].pc = "handshake" =>
                      /\ handler'[h].held = handler'[h].timer
                      /\ handler'[h].timer <= HandshakeTotal
                      /\ conn'[Of(h)].age = 0
                /\ Reading(h)' => /\ handler'[h].held <= HandshakeTotal + conn'[Of(h)].age
                                  /\ conn'[Of(h)].age <= ReadTotal
                /\ handler'[h].pc \in {"admit", "process", "answer"} =>
                      handler'[h].held <= HandshakeTotal + ReadTotal
                /\ handler'[h].pc = "write" =>
                      /\ handler'[h].held <= HandshakeTotal + ReadTotal + handler'[h].timer
                      /\ handler'[h].timer <= WriteTotal
    <2>1. /\ handler[h].held \in Nat /\ handler[h].timer \in Nat
          /\ HandshakeTotal \in Nat /\ ReadTotal \in Nat /\ WriteTotal \in Nat
      BY HandlerFields, Totals DEF TransportInv
    <2>2. CASE handler[h].pc = "handshake"
      <3>1. handler[h].timer < HandshakeTotal
        <4>1. Expired(h) <=> handler[h].timer >= HandshakeTotal
          BY <2>2 DEF Expired, Reading
        <4>2. ~Expired(h)
          BY <1>1
        <4> QED BY <2>1, <4>1, <4>2
      <3>2. /\ handler[h].held = handler[h].timer /\ conn[Of(h)].age = 0
            /\ Of(h) \in Clients
        BY <2>2 DEF TransportInv, TimeSpent, HandlersApart, Serves
      <3>3. /\ Later(handler[h].timer) = handler[h].timer + 1
            /\ Later(handler[h].held) = handler[h].timer + 1
        BY <2>1, <3>1, <3>2, LaterCounts
      <3>4. ~\E g \in Handlers : Of(g) = Of(h) /\ Reading(g)
        BY <2>2, <3>2, TransportConfiguration DEF TransportInv, HandlersApart, Reading
      <3>5. conn'[Of(h)].age = 0
        BY <1>4, <3>2, <3>4
      <3> QED
        BY <1>3, <2>1, <2>2, <3>1, <3>3, <3>5 DEF Reading, Timed, Holds
    <2>3. CASE Reading(h)
      <3>1. conn[Of(h)].age < ReadTotal
        BY <1>1, <2>3 DEF Expired, Remaining, Reading
      <3>2. /\ handler[h].held <= HandshakeTotal + conn[Of(h)].age
            /\ Of(h) \in Clients
        BY <2>3 DEF TransportInv, TimeSpent, HandlersApart, Serves, Reading
      <3>3. conn[Of(h)].age \in Nat
        BY <3>2, ConnectionFields DEF TransportInv
      <3>4. /\ Later(conn[Of(h)].age) = conn[Of(h)].age + 1
            /\ Later(handler[h].held) = handler[h].held + 1
        BY <2>1, <3>1, <3>2, <3>3, LaterCounts
      <3>5. conn'[Of(h)].age = conn[Of(h)].age + 1
        BY <1>4, <2>3, <3>2, <3>4
      <3>6. handler'[h].held = handler[h].held + 1
        BY <1>3, <2>3, <3>4 DEF Holds
      <3>7. handler'[h].held <= HandshakeTotal + conn'[Of(h)].age
              /\ conn'[Of(h)].age <= ReadTotal
        BY <2>1, <3>1, <3>2, <3>3, <3>5, <3>6
      <3> QED
        BY <1>3, <2>3, <3>7 DEF Reading
    <2>4. CASE handler[h].pc = "write"
      <3>1. handler[h].timer < WriteTotal
        <4>1. Expired(h) <=> handler[h].timer >= WriteTotal \/ handler[h].timer >= WriteIdle
          BY <2>4 DEF Expired, Reading
        <4>2. ~Expired(h)
          BY <1>1
        <4> QED BY <2>1, <4>1, <4>2
      <3>2. handler[h].held <= HandshakeTotal + ReadTotal + handler[h].timer
        BY <2>4 DEF TransportInv, TimeSpent
      <3>3. /\ Later(handler[h].timer) = handler[h].timer + 1
            /\ Later(handler[h].held) = handler[h].held + 1
        BY <2>1, <3>1, <3>2, LaterCounts
      <3>4. /\ handler'[h].timer = handler[h].timer + 1
            /\ handler'[h].held = handler[h].held + 1 /\ handler'[h].pc = "write"
        BY <1>3, <2>4, <3>3 DEF Timed, Holds
      <3>5. /\ handler'[h].held <= HandshakeTotal + ReadTotal + handler'[h].timer
            /\ handler'[h].timer <= WriteTotal
        BY <2>1, <3>1, <3>2, <3>4
      <3> QED
        BY <3>4, <3>5 DEF Reading
    <2>5. CASE handler[h].pc \notin {"handshake", "write"} /\ ~Reading(h)
      <3>1. handler'[h].held = handler[h].held
        BY <1>3, <2>5 DEF Holds
      <3> QED
        BY <1>3, <1>6, <2>1, <2>5, <3>1 DEF TransportInv, TimeSpent
    <2> QED BY <2>2, <2>3, <2>4, <2>5
  <1>11. TimeSpent'
    BY <1>6, <1>10 DEF TimeSpent
  <1> QED
    BY <1>5, <1>7, <1>8, <1>9, <1>11 DEF TransportInv

-----------------------------------------------------------------------------
(* What a handler may spend, read off its place. *)
LEMMA Spent ==
    ASSUME TransportInv, NEW h \in Handlers
    PROVE  /\ handler[h].held \in Nat
           /\ Serves(h) => Of(h) \in Clients /\ client[Of(h)].state # "new"
                             /\ Of(h) \in DOMAIN plan /\ Of(h) = handler[h].client
           /\ ~Serves(h) => handler[h].held = 0 /\ Of(h) = NoClient
  <1>1. handler[h].held \in Nat
    BY HandlerFields DEF TransportInv
  <1>2. Serves(h) => Of(h) \in Clients /\ client[Of(h)].state # "new"
                       /\ Of(h) \in DOMAIN plan /\ Of(h) = handler[h].client
    BY DEF TransportInv, HandlersApart, ClientsTrue, Of
  <1>3. ~Serves(h) => handler[h].held = 0 /\ Of(h) = NoClient
    BY DEF TransportInv, TimeSpent, HandlersApart, Serves
  <1> QED
    BY <1>1, <1>2, <1>3

(* A connection that is aborted is closed, and its handler free. *)
LEMMA AbortStep ==
    ASSUME TransportInv, NEW h \in Handlers, Serves(h), Abort(h)
    PROVE  TransportInv'
  <1>1. PICK c \in Clients : c = Of(h)
    BY Spent
  <1>2. /\ conn' = [conn EXCEPT ![c] = Aborted] /\ Goes(h, IdleHandler)
        /\ client[c].state # "new"
    BY <1>1, Spent DEF Abort
  <1>3. Aborted \in Connection /\ Aborted.stage = "closed"
    BY DEF Aborted, NoConnection, Connection, Stages
  <1>4. /\ IdleHandler \in HandlerRecord /\ IdleHandler.pc = "idle"
        /\ IdleHandler.client = NoClient /\ IdleHandler.held = 0
    BY DEF IdleHandler, HandlerRecord, HandlerPlaces
  <1> QED
    BY <1>1, <1>2, <1>3, <1>4, HandlerMoves

(* A handler begins its wait, or gives it up. *)
LEMMA WaitStep ==
    ASSUME TransportInv, NEW h \in Handlers, ProcessOne(h) \/ AcceptEnds(h)
    PROVE  TransportInv'
  <1>1. /\ IdleHandler \in HandlerRecord /\ IdleHandler.pc = "idle"
        /\ IdleHandler.client = NoClient /\ IdleHandler.held = 0
    BY DEF IdleHandler, HandlerRecord, HandlerPlaces
  <1>2. CASE ProcessOne(h)
    <2> DEFINE rec == [IdleHandler EXCEPT !.pc = "accept", !.asOf = now]
    <2>1. now \in Nat
      BY DEF TransportInv, TransportTypes
    <2>2. rec \in HandlerRecord /\ rec.pc = "accept" /\ rec.client = NoClient /\ rec.held = 0
      BY <2>1 DEF IdleHandler, HandlerRecord, HandlerPlaces
    <2>3. Goes(h, rec) /\ conn' = conn /\ ~Serves(h)
      BY <1>2 DEF ProcessOne, Serves
    <2> HIDE DEF rec
    <2> QED
      BY <2>2, <2>3, HandlerWaits
  <1>3. CASE AcceptEnds(h)
    <2>1. Goes(h, IdleHandler) /\ conn' = conn /\ ~Serves(h)
      BY <1>3 DEF AcceptEnds, Serves
    <2> QED
      BY <1>1, <2>1, HandlerWaits
  <1> QED
    BY <1>2, <1>3

(* A connection is accepted by a handler that had none, and has spent nothing. *)
LEMMA AcceptStep ==
    ASSUME TransportInv, NEW h \in Handlers, NEW c \in Clients, AcceptConnection(h, c)
    PROVE  TransportInv'
  <1> DEFINE rec == [handler[h] EXCEPT !.pc = "handshake", !.client = c, !.timer = 0]
             k == [conn[c] EXCEPT !.stage = "accepted"]
  <1>1. /\ handler[h].pc = "accept" /\ c \in Waiting /\ Goes(h, rec)
        /\ conn' = [conn EXCEPT ![c].stage = "accepted"]
    BY DEF AcceptConnection
  <1>2. conn[c].stage = "none" /\ client[c].state # "new"
    BY <1>1 DEF Waiting
  <1>3. conn[c] = NoConnection /\ conn[c].age = 0
    BY <1>2 DEF TransportInv, Unaccepted, NoConnection
  <1>4. k \in Connection /\ k.stage = "accepted" /\ k.age = 0
    BY <1>3 DEF NoConnection, Connection, Stages
  <1>5. conn' = [conn EXCEPT ![c] = k]
    BY <1>1
  <1>6. handler[h].held = 0
    BY <1>1, Spent DEF Serves
  <1>7. /\ rec \in HandlerRecord /\ rec.pc = "handshake" /\ rec.client = c /\ rec.timer = 0
        /\ rec.held = 0
    BY <1>6, HandlerFields DEF TransportInv, HandlerRecord, HandlerPlaces
  <1>8. 0 <= HandshakeTotal
    BY Totals
  <1> HIDE DEF rec, k
  <1>9. /\ k.stage \notin {"none", "head_validated", "body_read"}
        /\ rec.pc \notin {"idle", "accept", "head", "body", "admit", "process", "answer", "write"}
        /\ rec.held = rec.timer /\ rec.timer <= HandshakeTotal
    BY <1>4, <1>7, <1>8
  <1> QED
    BY <1>1, <1>2, <1>4, <1>5, <1>7, <1>9, HandlerMoves

(* The reads start with no time spent, whatever the handshake took. *)
LEMMA AuthenticateStep ==
    ASSUME TransportInv, NEW h \in Handlers, Authenticate(h)
    PROVE  TransportInv'
  <1>1. handler[h].pc = "handshake" /\ ~Expired(h) /\ Serves(h)
    BY DEF Authenticate, Shaken, Serves
  <1>2. PICK c \in Clients : c = Of(h)
    BY <1>1, Spent
  <1> DEFINE rec == NextStage(h, "head", c)
             k == Enter(c, "authenticated")
  <1>3. /\ Goes(h, rec) /\ conn' = [conn EXCEPT ![c] = k]
    BY <1>2 DEF Authenticate
  <1>4. k \in Connection /\ k.stage = "authenticated" /\ k.age = conn[c].age
    <2>1. conn[c] \in Connection /\ conn[c].token + 1 \in Nat
      BY ConnectionFields DEF TransportInv
    <2> QED
      BY <2>1 DEF Enter, Connection, Stages
  <1>5. /\ rec \in HandlerRecord /\ rec.pc = "head" /\ rec.client = c
        /\ rec.held = handler[h].held
    <2>1. conn[c].token + 1 \in Nat
      BY ConnectionFields DEF TransportInv
    <2>2. handler[h] \in HandlerRecord /\ handler[h].client = c
      BY <1>2, HandlerFields DEF TransportInv, Of
    <2> QED
      BY <2>1, <2>2 DEF NextStage, HandlerRecord, HandlerPlaces
  <1>6. handler[h].held <= HandshakeTotal /\ conn[c].age = 0
    BY <1>1, <1>2 DEF TransportInv, TimeSpent
  <1>7. client[c].state # "new" /\ handler[h].held \in Nat
    BY <1>1, <1>2, Spent
  <1> HIDE DEF rec, k
  <1>8. k.stage # "none" /\ k.stage \notin {"head_validated", "body_read"}
          /\ rec.held <= HandshakeTotal + k.age /\ k.age <= ReadTotal
          /\ rec.pc \notin {"idle", "accept", "handshake", "admit", "process", "answer", "write"}
    BY <1>4, <1>5, <1>6, <1>7, Totals
  <1> QED
    BY <1>2, <1>3, <1>4, <1>5, <1>7, <1>8, HandlerMoves

-----------------------------------------------------------------------------
(* What _recv returns: the bytes it takes are among those decrypted, and no  *)
(* record is decrypted before it was sent.                                   *)
LEMMA Receives ==
    ASSUME TransportInv, NEW c \in DOMAIN plan, c \in Clients, Arrived(c),
           NEW size \in Nat
    PROVE  /\ Received(c, size) \in Connection
           /\ Taken(c, size) \in Nat /\ Taken(c, size) <= size
           /\ Received(c, size).got = conn[c].got + Taken(c, size)
           /\ Received(c, size).stage = conn[c].stage /\ Received(c, size).age = conn[c].age
           /\ Received(c, size).token = conn[c].token
  <1>1. conn[c] \in Connection /\ conn[c].record \in Nat /\ conn[c].buffered \in Nat
          /\ conn[c].got \in Nat
    BY ConnectionFields DEF TransportInv
  <1>2. /\ Decrypted(c) \in Connection /\ Decrypted(c).got = conn[c].got
        /\ Decrypted(c).stage = conn[c].stage /\ Decrypted(c).age = conn[c].age
        /\ Decrypted(c).token = conn[c].token
    <2>1. CASE conn[c].buffered > 0
      BY <1>1, <2>1 DEF Decrypted
    <2>2. CASE ~(conn[c].buffered > 0)
      <3>1. client[c].sent \in Nat /\ conn[c].record < client[c].sent
        BY <2>2, ClientFields DEF Arrived, TransportInv
      <3>2. client[c].sent <= Len(plan[c].records)
        BY <1>1, <3>1 DEF TransportInv, ClientsTrue
      <3>3. plan[c].records \in Seq(Nat)
        BY PlanFields DEF TransportInv
      <3>4. conn[c].record + 1 \in 1..Len(plan[c].records)
        BY <1>1, <3>1, <3>2, <3>3
      <3>5. plan[c].records[conn[c].record + 1] \in Nat
        BY <3>3, <3>4
      <3>6. Decrypted(c) = [conn[c] EXCEPT !.record = conn[c].record + 1,
                               !.buffered = plan[c].records[conn[c].record + 1]]
        BY <2>2 DEF Decrypted
      <3>7. conn[c].record + 1 \in Nat
        BY <1>1
      <3> QED
        BY <1>1, <3>5, <3>6, <3>7 DEF Connection
    <2> QED BY <2>1, <2>2
  <1>3. Decrypted(c).buffered \in Nat
    BY <1>2 DEF Connection
  <1>4. /\ Taken(c, size) \in {size, Decrypted(c).buffered} /\ Taken(c, size) <= size
        /\ Taken(c, size) <= Decrypted(c).buffered
    <2>1. size \in Int /\ Decrypted(c).buffered \in Int
      BY <1>3
    <2> HIDE DEF Decrypted
    <2> QED BY <2>1, MinOfTwo DEF Taken
  <1>5. Taken(c, size) \in Nat /\ Decrypted(c).buffered - Taken(c, size) \in Nat
    BY <1>3, <1>4
  <1> DEFINE d == Decrypted(c)
             n == Taken(c, size)
  <1>6. Received(c, size) =
            [d EXCEPT !.buffered = d.buffered - n, !.got = d.got + n, !.idle = 0]
    BY DEF Received
  <1> HIDE DEF d, n
  <1>7. n \in Nat /\ n <= size /\ n = Taken(c, size) /\ d.buffered - n \in Nat
    BY <1>4, <1>5 DEF d, n
  <1>8. /\ d \in Connection /\ d.got = conn[c].got /\ d.stage = conn[c].stage
        /\ d.age = conn[c].age /\ d.token = conn[c].token
    BY <1>2 DEF d
  <1>9. d.got + n \in Nat
    BY <1>1, <1>7, <1>8
  <1> DEFINE r == [d EXCEPT !.buffered = d.buffered - n, !.got = d.got + n, !.idle = 0]
  <1>10. r \in Connection
    BY <1>7, <1>8, <1>9 DEF Connection
  <1>11. r.got = d.got + n /\ r.stage = d.stage /\ r.age = d.age /\ r.token = d.token
    BY <1>8 DEF Connection
  <1>12. Received(c, size) = r
    BY <1>6
  <1> HIDE DEF r
  <1> QED
    BY <1>7, <1>8, <1>10, <1>11, <1>12

(* A byte of the head is read, the last of them parsed. *)
LEMMA ReadHeadStep ==
    ASSUME TransportInv, NEW h \in Handlers, ReadHead(h)
    PROVE  TransportInv'
  <1>1. handler[h].pc = "head" /\ Serves(h) /\ Reading(h)
    BY DEF ReadHead, Serves, Reading
  <1>2. PICK c \in Clients : c = Of(h) /\ c \in DOMAIN plan /\ client[c].state # "new"
    BY <1>1, Spent
  <1>3. conn[c].stage = "authenticated" /\ Arrived(c) /\ Remaining(c)
    BY <1>2 DEF ReadHead, Require
  <1> DEFINE next == Received(c, 1)
  <1>4. /\ next \in Connection /\ next.stage = "authenticated" /\ next.age = conn[c].age
        /\ next.token = conn[c].token /\ next.got \in Nat
    <2>1. 1 \in Nat
      OBVIOUS
    <2>2. /\ next \in Connection /\ next.stage = conn[c].stage /\ next.age = conn[c].age
          /\ next.token = conn[c].token
      BY <1>2, <1>3, <2>1, Receives
    <2> HIDE DEF next
    <2> QED BY <1>3, <2>2 DEF Connection
  <1>5. /\ handler[h] \in HandlerRecord /\ handler[h].held <= HandshakeTotal + conn[c].age
        /\ conn[c].age <= ReadTotal /\ handler[h].held \in Nat
        /\ handler[h].client = c
    BY <1>1, <1>2, HandlerFields, Spent DEF TransportInv, TimeSpent
  <1> HIDE DEF next
  <1>6. CASE /\ conn' = [conn EXCEPT ![c] = next] /\ Goes(h, handler[h])
    BY <1>1, <1>2, <1>4, <1>5, <1>6, HandlerMoves
  <1>7. CASE /\ next.got = HeadBytes /\ HeadParsed(c)
             /\ conn' = [conn EXCEPT ![c] =
                   [next EXCEPT !.stage = "head_validated", !.token = next.token + 1]]
             /\ Goes(h, NextStage(h, "body", c))
    <2> DEFINE k == [next EXCEPT !.stage = "head_validated", !.token = next.token + 1]
               rec == NextStage(h, "body", c)
    <2>1. conn[c].token + 1 \in Nat
      BY ConnectionFields DEF TransportInv
    <2>2. /\ k \in Connection /\ k.stage = "head_validated" /\ k.got = HeadBytes
          /\ k.age = conn[c].age
      BY <1>4, <1>7, <2>1 DEF Connection, Stages
    <2>3. /\ rec \in HandlerRecord /\ rec.pc = "body" /\ rec.client = c
          /\ rec.held = handler[h].held
      BY <1>5, <2>1 DEF NextStage, HandlerRecord, HandlerPlaces
    <2>4. plan[c].length \in Nat /\ HeadBytes < HeadBytes + plan[c].length
      BY <1>2, <1>7, PlanFields, Totals DEF HeadParsed, TransportInv
    <2>5. conn' = [conn EXCEPT ![c] = k] /\ Goes(h, rec)
      BY <1>7
    <2> HIDE DEF k, rec
    <2> QED
      BY <1>2, <1>5, <2>2, <2>3, <2>4, <2>5, HandlerMoves
  <1>8. CASE Abort(h)
    BY <1>1, <1>8, AbortStep
  <1> QED
    BY <1>2, <1>6, <1>7, <1>8 DEF ReadHead, next

(* The byte asked for beyond the missing ones, or pending(), tells a request *)
(* that is exactly as long as declared from one that is not.                 *)
LEMMA ReadBodyStep ==
    ASSUME TransportInv, NEW h \in Handlers, ReadBody(h)
    PROVE  TransportInv'
  <1>1. handler[h].pc = "body" /\ Serves(h) /\ Reading(h)
    BY DEF ReadBody, Serves, Reading
  <1>2. PICK c \in Clients : c = Of(h) /\ c \in DOMAIN plan /\ client[c].state # "new"
    BY <1>1, Spent
  <1>3. conn[c].stage = "head_validated" /\ Arrived(c) /\ Remaining(c)
    BY <1>2 DEF ReadBody, Require
  <1>4. /\ plan[c].length \in Nat /\ HeadBytes \in Nat /\ conn[c].got \in Nat
        /\ conn[c].got < HeadBytes + plan[c].length
    BY <1>3, Totals, ConnectionFields DEF TransportInv, BodyMissing
  <1>5. Missing(c) \in Nat /\ Missing(c) = HeadBytes + plan[c].length - conn[c].got
    BY <1>4 DEF Missing
  <1> DEFINE size == Min({Chunk, Missing(c) + 1})
             next == Received(c, size)
  <1>6. size \in Nat
    <2>1. Chunk \in Int /\ Missing(c) + 1 \in Int /\ Chunk \in Nat /\ Missing(c) + 1 \in Nat
      BY <1>5, Totals
    <2>2. size \in {Chunk, Missing(c) + 1}
      BY <2>1, MinOfTwo
    <2> QED BY <2>1, <2>2
  <1>7. Trailing(c) <=> \/ Taken(c, size) > Missing(c)
                        \/ Taken(c, size) = Missing(c) /\ next.buffered > 0
    BY DEF Trailing
  <1>8. ReadBody(h) =>
            \/ Trailing(c) /\ Abort(h)
            \/ /\ ~Trailing(c) /\ next.got < HeadBytes + plan[c].length
               /\ conn' = [conn EXCEPT ![c] = next]
               /\ Goes(h, handler[h])
            \/ /\ ~Trailing(c) /\ next.got >= HeadBytes + plan[c].length
               /\ conn' = [conn EXCEPT ![c] =
                     [next EXCEPT !.stage = "body_read", !.token = next.token + 1]]
               /\ Goes(h, NextStage(h, "admit", c))
    BY <1>2 DEF ReadBody
  <1> HIDE DEF size
  <1>9. /\ next \in Connection /\ next.stage = "head_validated" /\ next.age = conn[c].age
        /\ next.token = conn[c].token /\ next.got = conn[c].got + Taken(c, size)
        /\ Taken(c, size) \in Nat
    BY <1>2, <1>3, <1>6, Receives
  <1> HIDE DEF next
  <1>10. next.got \in Nat /\ next.buffered \in Nat
    BY <1>9 DEF Connection
  <1>11. /\ handler[h] \in HandlerRecord /\ handler[h].held <= HandshakeTotal + conn[c].age
         /\ conn[c].age <= ReadTotal /\ handler[h].held \in Nat
         /\ handler[h].client = c
    BY <1>1, <1>2, HandlerFields, Spent DEF TransportInv, TimeSpent
  <1>12. CASE Abort(h)
    BY <1>1, <1>12, AbortStep
  <1>13. CASE /\ next.got < HeadBytes + plan[c].length
              /\ conn' = [conn EXCEPT ![c] = next]
              /\ Goes(h, handler[h])
    BY <1>1, <1>2, <1>4, <1>9, <1>11, <1>13, HandlerMoves
  <1>14. CASE /\ ~Trailing(c) /\ next.got >= HeadBytes + plan[c].length
              /\ conn' = [conn EXCEPT ![c] =
                    [next EXCEPT !.stage = "body_read", !.token = next.token + 1]]
              /\ Goes(h, NextStage(h, "admit", c))
    <2> DEFINE k == [next EXCEPT !.stage = "body_read", !.token = next.token + 1]
               rec == NextStage(h, "admit", c)
    <2>1. Taken(c, size) <= Missing(c)
      BY <1>5, <1>7, <1>9, <1>14
    <2>2. next.got = HeadBytes + plan[c].length /\ Taken(c, size) = Missing(c)
      BY <1>4, <1>5, <1>9, <1>14, <2>1
    <2>3. next.buffered = 0
      BY <1>7, <1>10, <1>14, <2>2
    <2>4. conn[c].token + 1 \in Nat
      BY ConnectionFields DEF TransportInv
    <2>5. /\ k \in Connection /\ k.stage = "body_read" /\ k.got = next.got
          /\ k.buffered = next.buffered /\ k.age = conn[c].age
      BY <1>9, <2>4 DEF Connection, Stages
    <2>6. /\ rec \in HandlerRecord /\ rec.pc = "admit" /\ rec.client = c
          /\ rec.held = handler[h].held
      BY <1>11, <2>4 DEF NextStage, HandlerRecord, HandlerPlaces
    <2>7. conn' = [conn EXCEPT ![c] = k] /\ Goes(h, rec)
      BY <1>14
    <2>8. rec.held <= HandshakeTotal + ReadTotal
      BY <1>11, <2>6, ConnectionFields, Totals DEF TransportInv
    <2> HIDE DEF k, rec
    <2> QED
      BY <1>2, <1>11, <2>2, <2>3, <2>5, <2>6, <2>7, <2>8, HandlerMoves
  <1> QED
    BY <1>8, <1>12, <1>13, <1>14

(* A request leaves its connection as it was read, and the write starts its *)
(* clock anew.                                                              *)
LEMMA AnswerStep ==
    ASSUME TransportInv, NEW h \in Handlers,
           Admit(h) \/ Process(h) \/ WriteResponse(h) \/ WriteEnds(h)
    PROVE  TransportInv'
  <1>1. Serves(h) /\ ~Reading(h)
    BY DEF Admit, Process, WriteResponse, WriteEnds, Serves, Reading
  <1>2. CASE Abort(h)
    BY <1>1, <1>2, AbortStep
  <1>3. ASSUME NEW rec \in HandlerRecord, Goes(h, rec), conn' = conn,
               rec.client = handler[h].client, rec.held = handler[h].held,
               \/ rec.pc \in {"process", "answer"}
               \/ rec.pc = "write" /\ rec.timer = 0,
               handler[h].pc \in {"admit", "process", "answer"}
        PROVE  TransportInv'
    <2>1. PICK c \in Clients : c = Of(h) /\ client[c].state # "new"
      BY <1>1, Spent
    <2>2. rec.client = c /\ rec.held <= HandshakeTotal + ReadTotal
      BY <1>3, <2>1 DEF TransportInv, TimeSpent, Of
    <2>3. rec.timer = 0 => /\ rec.held <= HandshakeTotal + ReadTotal + rec.timer
                           /\ rec.timer <= WriteTotal
      BY <2>2, Totals
    <2>4. conn' = [conn EXCEPT ![c] = conn[c]] /\ conn[c] \in Connection
      BY <1>3, ConnectionFields DEF TransportInv, TransportTypes
    <2>5. conn[c].stage # "none"
      BY <1>1, <2>1 DEF TransportInv, HandlersApart
    <2>6. /\ conn[c].stage = "head_validated" =>
                plan[c].length \in Nat /\ conn[c].got < HeadBytes + plan[c].length
          /\ conn[c].stage = "body_read" =>
                conn[c].got = HeadBytes + plan[c].length /\ conn[c].buffered = 0
      BY DEF TransportInv, BodyMissing, BodyExact
    <2> QED
      BY <1>3, <2>1, <2>2, <2>3, <2>4, <2>5, <2>6, HandlerMoves
  <1>4. ASSUME NEW pc \in {"process", "answer"}, Goes(h, [handler[h] EXCEPT !.pc = pc]),
               conn' = conn, handler[h].pc \in {"admit", "process"}
        PROVE  TransportInv'
    <2> DEFINE rec == [handler[h] EXCEPT !.pc = pc]
    <2>1. /\ rec \in HandlerRecord /\ rec.pc = pc
          /\ rec.client = handler[h].client /\ rec.held = handler[h].held
      BY HandlerFields DEF TransportInv, HandlerRecord, HandlerPlaces
    <2> HIDE DEF rec
    <2>2. Goes(h, rec)
      BY <1>4 DEF rec
    <2> QED
      BY <1>3, <1>4, <2>1, <2>2
  <1>5. CASE Admit(h)
    BY <1>4, <1>5 DEF Admit
  <1>6. CASE Process(h)
    BY <1>2, <1>4, <1>6 DEF Process
  <1>7. CASE WriteResponse(h)
    <2> DEFINE rec == [handler[h] EXCEPT !.pc = "write", !.timer = 0]
    <2>1. /\ rec \in HandlerRecord /\ rec.pc = "write" /\ rec.timer = 0
          /\ rec.client = handler[h].client /\ rec.held = handler[h].held
      BY HandlerFields DEF TransportInv, HandlerRecord, HandlerPlaces
    <2>2. Goes(h, rec) /\ conn' = conn /\ handler[h].pc = "answer"
      BY <1>7 DEF WriteResponse
    <2> HIDE DEF rec
    <2> QED
      BY <1>3, <2>1, <2>2
  <1>8. CASE WriteEnds(h)
    BY <1>2, <1>8 DEF WriteEnds
  <1> QED
    BY <1>5, <1>6, <1>7, <1>8

(* Nobody is connected and nothing is spent. *)
LEMMA TransportInvInit == TransportInit => TransportInv
  <1> SUFFICES ASSUME TransportInit PROVE TransportInv
    OBVIOUS
  <1>1. /\ now = 0 /\ plan \in Mixes
        /\ client = [c \in Clients |-> [state |-> "new", sent |-> 0]]
        /\ handler = [h \in Handlers |-> IdleHandler]
        /\ conn = [c \in Clients |-> NoConnection]
    BY DEF TransportInit
  <1>2. /\ IdleHandler \in HandlerRecord /\ IdleHandler.pc = "idle"
        /\ IdleHandler.client = NoClient /\ IdleHandler.held = 0
    BY DEF IdleHandler, HandlerRecord, HandlerPlaces
  <1>3. NoConnection \in Connection /\ NoConnection.stage = "none"
    BY DEF NoConnection, Connection, Stages
  <1>4. /\ \A h \in Handlers : handler[h] = IdleHandler
        /\ \A c \in Clients : conn[c] = NoConnection
        /\ \A c \in Clients : client[c].state = "new" /\ client[c].sent = 0
    BY <1>1
  <1>5. TransportTypes
    BY <1>1, <1>2, <1>3 DEF TransportTypes
  <1>6. ClientsTrue
    BY <1>3, <1>4 DEF ClientsTrue
  <1>7. HandlersApart
    BY <1>2, <1>4 DEF HandlersApart, Serves, Of
  <1>8. BodyMissing /\ BodyExact /\ Unaccepted
    BY <1>3, <1>4 DEF BodyMissing, BodyExact, Unaccepted
  <1>9. TimeSpent
    BY <1>2, <1>4 DEF TimeSpent, Reading
  <1> QED
    BY <1>5, <1>6, <1>7, <1>8, <1>9 DEF TransportInv

(* Every step of the listener, the clock, a client and a handler keeps it. *)
LEMMA TransportInvStep == TransportInv /\ [TransportNext]_transportVars => TransportInv'
  <1> SUFFICES ASSUME TransportInv, [TransportNext]_transportVars PROVE TransportInv'
    OBVIOUS
  <1>1. CASE Open \/ Close
    BY <1>1, ListenerStep
  <1>2. CASE Tick
    BY <1>2, TickStep
  <1>3. ASSUME NEW c \in Clients, ClientStep(c) PROVE TransportInv'
    BY <1>3, ClientKeeps
  <1>4. ASSUME NEW h \in Handlers, HandlerStep(h) PROVE TransportInv'
    <2>1. CASE ProcessOne(h) \/ AcceptEnds(h)
      BY <2>1, WaitStep
    <2>2. ASSUME NEW c \in Clients, AcceptConnection(h, c) PROVE TransportInv'
      BY <2>2, AcceptStep
    <2>3. CASE Authenticate(h) \/ ReadHead(h) \/ ReadBody(h)
      BY <2>3, AuthenticateStep, ReadHeadStep, ReadBodyStep
    <2>4. CASE AuthenticationFails(h) \/ ReadEnds(h)
      BY <2>4, AbortStep DEF AuthenticationFails, ReadEnds, Serves, Reading
    <2>5. CASE Admit(h) \/ Process(h) \/ WriteResponse(h) \/ WriteEnds(h)
      BY <2>5, AnswerStep
    <2> QED
      BY <1>4, <2>1, <2>2, <2>3, <2>4, <2>5 DEF HandlerStep
  <1>5. CASE UNCHANGED transportVars
    <2>1. UNCHANGED <<now, plan, registry, handler, conn, client>>
      BY <1>5 DEF transportVars
    <2> QED
      BY <2>1, ClientsMove DEF TransportInv, TransportTypes
  <1> QED
    BY <1>1, <1>2, <1>3, <1>4, <1>5 DEF TransportNext

(* The invariant of the transport: one handler per connection, what it has   *)
(* spent on it, and what it has read of it.                                  *)
THEOREM TransportInvHolds == TransportSpec => []TransportInv
  <1> QED
    BY TransportInvInit, TransportInvStep, PTL DEF TransportSpec

(* However the records and the chunks are cut, read_body returns the         *)
(* declared bytes and leaves none behind that came with them.                *)
THEOREM BodyIsExact == TransportSpec => []BodyExact
  <1>1. TransportInv => BodyExact
    BY DEF TransportInv
  <1> QED
    BY <1>1, TransportInvHolds, PTL

(* No client holds a handler for longer than the totals of the handshake, the *)
(* request and the response, whatever it sends, withholds or leaves unread.   *)
THEOREM TimeIsBounded == TransportSpec => []HandlerFreed
  <1>1. TransportInv => HandlerFreed
    <2> SUFFICES ASSUME TransportInv, NEW h \in Handlers
                 PROVE  handler[h].held <= HandshakeTotal + ReadTotal + WriteTotal
      BY DEF HandlerFreed
    <2>1. /\ handler[h].held \in Nat /\ handler[h].timer \in Nat
          /\ handler[h].pc \in HandlerPlaces
          /\ HandshakeTotal \in Nat /\ ReadTotal \in Nat /\ WriteTotal \in Nat
      BY HandlerFields, Totals DEF TransportInv
    <2>2. Reading(h) => conn[Of(h)].age \in Nat
      BY Spent, ConnectionFields DEF TransportInv, Serves, Reading
    <2> QED
      BY <2>1, <2>2 DEF TransportInv, TimeSpent, HandlerPlaces, Reading
  <1> QED
    BY <1>1, TransportInvHolds, PTL
=============================================================================
