---------------------------- MODULE ExecutionSlot ----------------------------
(***************************************************************************)
(* What the producer execution gate promises its callers, without rate     *)
(* credit, tokens, digests or counters: there is one execution slot, it is *)
(* granted only while free, and it becomes free only by its own holder.    *)
(***************************************************************************)
CONSTANTS Handlers, NoHandler

VARIABLE holder

Init == holder = NoHandler

(* acquire() returned an accepted decision to h. *)
Grant(h) ==
    /\ holder = NoHandler
    /\ holder' = h

(* release() with the active lease, which only h was given. *)
Free(h) ==
    /\ holder = h
    /\ holder' = NoHandler

Next == \E h \in Handlers : Grant(h) \/ Free(h)

Spec == Init /\ [][Next]_holder
=============================================================================
