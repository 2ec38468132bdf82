-------------------------- MODULE AtMostOnceService --------------------------
(***************************************************************************)
(* What a producer may rely on, whatever crashes, retries or overlaps: a   *)
(* submitted request is executed at most once, has at most one answer, is  *)
(* told only that answer, and leaves an alert behind only while it is      *)
(* executing, none at all when the answer is a failure.                    *)
(***************************************************************************)
EXTENDS Naturals

CONSTANTS Records, Events, Responses, NoResponse, Failures

VARIABLES
    runs,      \* how often each request was executed
    answer,    \* the one answer of a request, NoResponse while there is none
    lost,      \* requests whose outcome was given up
    told,      \* answers that reached the producer
    effects    \* pairs of a request and the event whose alert it created

vars == <<runs, answer, lost, told, effects>>

Init ==
    /\ runs = [r \in Records |-> 0]
    /\ answer = [r \in Records |-> NoResponse]
    /\ lost = {} /\ told = {} /\ effects = {}

Open(r) == answer[r] = NoResponse /\ r \notin lost

Run(r) ==
    /\ Open(r) /\ runs[r] = 0
    /\ runs' = [runs EXCEPT ![r] = 1]
    /\ UNCHANGED <<answer, lost, told, effects>>

(* One alert per event, for an open request that was executed. *)
Effect(r, e) ==
    /\ Open(r) /\ runs[r] = 1
    /\ \A x \in effects : x[2] # e
    /\ effects' = effects \cup {<<r, e>>}
    /\ UNCHANGED <<runs, answer, lost, told>>

Answer(r) ==
    /\ Open(r) /\ runs[r] = 1
    /\ answer'[r] \in Responses
    /\ answer'[r] \in Failures => \A x \in effects : x[1] # r
    /\ answer' = [answer EXCEPT ![r] = answer'[r]]
    /\ UNCHANGED <<runs, lost, told, effects>>

GiveUp(R) ==
    /\ \A r \in R : Open(r)
    /\ lost' = lost \cup R
    /\ UNCHANGED <<runs, answer, told, effects>>

Tell(r) ==
    /\ answer[r] # NoResponse
    /\ told' = told \cup {<<r, answer[r]>>}
    /\ UNCHANGED <<runs, answer, lost, effects>>

Next ==
    \/ \E r \in Records : Run(r) \/ Answer(r) \/ Tell(r)
    \/ \E r \in Records, e \in Events : Effect(r, e)
    \/ \E R \in SUBSET Records : GiveUp(R)

Spec == Init /\ [][Next]_vars
==============================================================================
