----------------------- MODULE ProducerInferenceWorker ----------------------
(* TerminatingProducerInferenceWorker.execute: a parent that reads an       *)
(* ordered protocol from a spawned child over a one-way pipe, under a       *)
(* request and a record deadline, and then reaps the child and its process  *)
(* group.                                                                   *)
(*                                                                          *)
(* A result is the number of the record whose event it is bound to.  Time   *)
(* is left out: a deadline may pass at any moment, and so may the wait of a *)
(* join.  The child is _worker_bootstrap; it may also fail, hang, ignore    *)
(* the termination signal, leave a helper process behind, or send anything. *)
EXTENDS Naturals, Sequences

CONSTANTS
    Batch,      \* records in the request, len(references)
    MaxFaults   \* bound: messages the protocol does not foresee

ASSUME WorkerConfiguration == Batch \in Nat \ {0} /\ MaxFaults \in Nat

VARIABLES
    phase,       \* where execute() is
    expected,    \* expected_kind
    results,     \* results
    inRecord,    \* record_deadline is not None
    groupReady,  \* group_ready
    outcome,     \* what execute() returns or raises
    pipe,        \* messages sent and not yet received
    leader,      \* the spawned process
    step,        \* the next message of an obedient child
    helper,      \* some other process of the group is alive
    stubborn,    \* the group ignores the termination signal
    signal,      \* the strongest signal sent so far
    faults       \* unforeseen messages sent so far

parent == <<phase, expected, results, inRecord, groupReady, outcome>>
child == <<leader, step, helper, stubborn>>
vars == <<parent, pipe, child, signal, faults>>

Message(kind, number, event) == [kind |-> kind, number |-> number, event |-> event]

(* The messages of an obedient child, in order; a result's event is the     *)
(* record it was computed from.  A booted message carries the right pid.    *)
Script ==
    <<Message("booted", 0, 0), Message("prepared", Batch, 0)>>
    \o [i \in 1..(2 * Batch) |->
           IF i % 2 = 1 THEN Message("record_started", (i + 1) \div 2, 0)
                        ELSE Message("record_result", i \div 2, i \div 2)]
    \o <<Message("complete", Batch, 0)>>

Kinds == {"booted", "prepared", "record_started", "record_result", "complete"}
Rejected == Message("inference_rejected", 0, 0)
Failed == Message("worker_failed", 0, 0)
Malformed == Message("malformed", 0, 0)

(* The beginning of a message whose end is never sent; what is sent after it *)
(* is read as its end.  The messages of an obedient child are written at     *)
(* once, being shorter than PIPE_BUF, even when it is killed.                *)
Cut == Message("cut", 0, 0)

(* What a child may send: the right and a wrong process number, any count,  *)
(* any index, any event, what does not decode at all, and what is not whole. *)
Messages ==
    {Message("booted", n, 0) : n \in 0..1}
    \cup {Message(k, n, 0) : k \in {"prepared", "record_started", "complete"},
                            n \in 1..Batch}
    \cup {Message("record_result", n, e) : n \in 1..Batch, e \in 1..Batch}
    \cup {Rejected, Failed, Malformed, Cut}

Outcomes == {"none", "success", "registered_event_rejected", "worker_start_failed",
             "worker_crashed", "worker_response_missing", "worker_response_invalid",
             "worker_failed", "worker_record_timeout", "worker_request_timeout",
             "worker_cleanup_failed"}

TypeOK ==
    /\ phase \in {"spawning", "reading", "blocked", "complete", "stopping",
                  "terminating", "killing", "done"}
    /\ expected \in Kinds
    /\ results \in Seq(1..Batch) /\ Len(results) <= Batch
    /\ inRecord \in BOOLEAN /\ groupReady \in BOOLEAN
    /\ outcome \in Outcomes
    /\ pipe \in Seq(Messages)
    /\ leader \in {"absent", "running", "exited", "crashed"}
    /\ step \in 1..(Len(Script) + 1)
    /\ helper \in BOOLEAN /\ stubborn \in BOOLEAN
    /\ signal \in {"none", "term", "kill"}
    /\ faults \in 0..MaxFaults

Init ==
    /\ phase = "spawning"
    /\ expected = "booted"
    /\ results = <<>>
    /\ inRecord = FALSE
    /\ groupReady = FALSE
    /\ outcome = "none"
    /\ pipe = <<>>
    /\ leader = "absent"
    /\ step = 1
    /\ helper = FALSE
    /\ stubborn \in BOOLEAN
    /\ signal = "none"
    /\ faults = 0

-----------------------------------------------------------------------------
(* The child.                                                               *)

ChildSends(message) ==
    /\ leader = "running"
    /\ pipe' = Append(pipe, message)

(* The next message of _worker_bootstrap and _default_worker_target. *)
ChildSteps ==
    /\ step <= Len(Script)
    /\ ChildSends(Script[step])
    /\ step' = step + 1
    /\ UNCHANGED <<parent, leader, helper, stubborn, signal, faults>>

(* The return of a finished bootstrap closes the pipe and exits with 0. *)
ChildExits ==
    /\ leader = "running"
    /\ step > Len(Script)
    /\ leader' = "exited"
    /\ UNCHANGED <<parent, pipe, step, helper, stubborn, signal, faults>>

(* An exception in the target, or in the bootstrap before it has its group: *)
(* one last message, then the return.                                       *)
ChildRaises ==
    /\ step <= Len(Script)
    /\ \E message \in {Failed} \cup {m \in {Rejected} : step > 1} : ChildSends(message)
    /\ step' = Len(Script) + 1
    /\ UNCHANGED <<parent, leader, helper, stubborn, signal, faults>>

(* The process is killed from outside, or aborts. *)
ChildCrashes ==
    /\ leader = "running"
    /\ leader' = "crashed"
    /\ UNCHANGED <<parent, pipe, step, helper, stubborn, signal, faults>>

(* The target returns before its work is done. *)
ChildReturnsEarly ==
    /\ leader = "running" /\ step <= Len(Script)
    /\ faults < MaxFaults
    /\ leader' = "exited"
    /\ faults' = faults + 1
    /\ UNCHANGED <<parent, pipe, step, helper, stubborn, signal>>

(* A message that the protocol does not foresee, besides the next one or in *)
(* its place.                                                               *)
ChildMisbehaves ==
    /\ faults < MaxFaults
    /\ faults' = faults + 1
    /\ \E message \in Messages : ChildSends(message)
    /\ step' \in {step} \cup {i \in {step + 1} : step <= Len(Script)}
    /\ UNCHANGED <<parent, leader, helper, stubborn, signal>>

(* Once it has its own group, the child's libraries may start a process. *)
HelperStarts ==
    /\ leader = "running" /\ step > 1 /\ ~helper
    /\ helper' = TRUE
    /\ UNCHANGED <<parent, pipe, leader, step, stubborn, signal, faults>>

HelperExits ==
    /\ helper
    /\ helper' = FALSE
    /\ UNCHANGED <<parent, pipe, leader, step, stubborn, signal, faults>>

(* A signal takes effect: on the whole group once it is known to exist, on  *)
(* the leader alone before that.                                            *)
SignalTakes ==
    /\ signal = "kill" \/ (signal = "term" /\ ~stubborn)
    /\ leader = "running" \/ (helper /\ groupReady)
    /\ leader' = IF leader = "running" THEN "crashed" ELSE leader
    /\ helper' = (helper /\ ~groupReady)
    /\ UNCHANGED <<parent, pipe, step, stubborn, signal, faults>>

Child ==
    \/ ChildSteps \/ ChildExits \/ ChildRaises \/ ChildCrashes
    \/ ChildReturnsEarly \/ ChildMisbehaves \/ HelperStarts \/ HelperExits
    \/ SignalTakes

-----------------------------------------------------------------------------
(* The parent.                                                              *)

Raise(code) ==
    /\ outcome' = code
    /\ phase' = "stopping"

Spawn ==
    /\ phase = "spawning"
    /\ phase' = "reading"
    /\ leader' = "running"
    /\ UNCHANGED <<expected, results, inRecord, groupReady, outcome, pipe, step,
                   helper, stubborn, signal, faults>>

(* No process exists, so nothing is stopped. *)
SpawnFails ==
    /\ phase = "spawning"
    /\ phase' = "done"
    /\ outcome' = "worker_start_failed"
    /\ UNCHANGED <<expected, results, inRecord, groupReady, pipe, child, signal,
                   faults>>

(* Mutant: the request deadline is forgotten while a record is computed. *)
TimeoutOutsideRecord ==
    /\ phase = "reading" /\ ~inRecord
    /\ Raise("worker_request_timeout")
    /\ UNCHANGED <<expected, results, inRecord, groupReady, pipe, child, signal,
                   faults>>

(* A deadline has passed, whether or not a message waits. *)
Timeout ==
    /\ phase = "reading"
    /\ Raise(IF inRecord THEN "worker_record_timeout" ELSE "worker_request_timeout")
    /\ UNCHANGED <<expected, results, inRecord, groupReady, pipe, child, signal,
                   faults>>

(* The exit code decides; a leader that has closed its end and is slow to    *)
(* exit has no exit code yet.                                               *)
EndCodes ==
    {"worker_response_missing"} \cup
        (IF leader = "crashed" THEN {"worker_crashed"} ELSE {})

EndOfFile ==
    /\ phase = "reading"
    /\ pipe = <<>> /\ leader \in {"exited", "crashed"}
    /\ \E code \in EndCodes : Raise(code)
    /\ UNCHANGED <<expected, results, inRecord, groupReady, pipe, child, signal,
                   faults>>

Next1 == Len(results) + 1

(* The one message the parent accepts now. *)
Acceptable(message) ==
    message = CASE expected = "booted"         -> Message("booted", 0, 0)
                [] expected = "prepared"       -> Message("prepared", Batch, 0)
                [] expected = "record_started" -> Message("record_started", Next1, 0)
                [] expected = "record_result"  -> Message("record_result", Next1, Next1)
                [] expected = "complete"       -> Message("complete", Len(results), 0)

(* What is expected after an accepted message. *)
Following ==
    CASE expected = "booted"         -> "prepared"
      [] expected = "prepared"       -> "record_started"
      [] expected = "record_started" -> "record_result"
      [] expected = "record_result"  -> IF Next1 = Batch THEN "complete"
                                                         ELSE "record_started"
      [] expected = "complete"       -> "complete"

Receive ==
    /\ phase = "reading"
    /\ pipe # <<>> /\ Acceptable(Head(pipe))
    /\ pipe' = Tail(pipe)
    /\ expected' = Following
    /\ groupReady' = TRUE
    /\ inRecord' = (expected = "record_started")
    /\ results' = IF expected = "record_result"
                  THEN Append(results, Head(pipe).event) ELSE results
    /\ phase' = IF expected = "complete" THEN "complete" ELSE "reading"
    /\ UNCHANGED <<outcome, child, signal, faults>>

ReceiveRefused ==
    /\ phase = "reading"
    /\ pipe # <<>> /\ ~Acceptable(Head(pipe)) /\ Head(pipe) # Cut
    /\ pipe' = Tail(pipe)
    /\ Raise(CASE expected # "booted" /\ Head(pipe) = Rejected
                                    -> "registered_event_rejected"
               [] expected # "booted" /\ Head(pipe) = Failed -> "worker_failed"
               [] OTHER             -> "worker_response_invalid")
    /\ UNCHANGED <<expected, results, inRecord, groupReady, child, signal, faults>>

(* poll() has seen a first byte: recv_bytes, which has no timeout, waits for *)
(* the rest of the message.                                                 *)
ReceiveBlocks ==
    /\ phase = "reading"
    /\ pipe # <<>> /\ Head(pipe) = Cut
    /\ pipe' = Tail(pipe)
    /\ phase' = "blocked"
    /\ UNCHANGED <<expected, results, inRecord, groupReady, outcome, child, signal,
                   faults>>

(* What is sent next fills the message up with what does not decode, or is   *)
(* too short for that.                                                      *)
BlockedReceives ==
    /\ phase = "blocked"
    /\ pipe # <<>> /\ pipe' = Tail(pipe)
    /\ \/ Raise("worker_response_invalid")
       \/ UNCHANGED <<phase, outcome>>
    /\ UNCHANGED <<expected, results, inRecord, groupReady, child, signal, faults>>

(* The pipe ends within the message, at once when no helper holds it open;  *)
(* between a length and what it announces this is taken for the pipe's end. *)
BlockedEnds ==
    /\ phase = "blocked"
    /\ pipe = <<>> /\ leader \in {"exited", "crashed"}
    /\ \E code \in {"worker_response_invalid"} \cup EndCodes : Raise(code)
    /\ UNCHANGED <<expected, results, inRecord, groupReady, pipe, child, signal,
                   faults>>

(* Mutant: only the spawned process is looked at. *)
GoneLeader == leader \in {"exited", "crashed"}

(* The process has ended and no other process of its known group is alive. *)
Gone == leader \in {"exited", "crashed"} /\ ~(groupReady /\ helper)

Finish(code) ==
    /\ phase' = "done"
    /\ outcome' = code

(* The finally branch after a complete batch: the child left by itself. *)
ReapComplete ==
    /\ phase = "complete"
    /\ Gone
    /\ Finish(IF leader = "crashed" THEN "worker_crashed"
              ELSE IF pipe # <<>> THEN "worker_response_invalid" ELSE "success")
    /\ UNCHANGED <<expected, results, inRecord, groupReady, pipe, child, signal,
                   faults>>

(* It did not leave in time, or left a helper behind. *)
ReapLate ==
    /\ phase = "complete"
    /\ ~Gone
    /\ Raise("worker_cleanup_failed")
    /\ UNCHANGED <<expected, results, inRecord, groupReady, pipe, child, signal,
                   faults>>

(* _stop: terminate, wait, kill what is left, wait. *)
StopTerminate ==
    /\ phase = "stopping"
    /\ phase' = "terminating"
    /\ signal' = "term"
    /\ UNCHANGED <<expected, results, inRecord, groupReady, outcome, pipe, child,
                   faults>>

StopKill ==
    /\ phase = "terminating"
    /\ ~Gone
    /\ phase' = "killing"
    /\ signal' = "kill"
    /\ UNCHANGED <<expected, results, inRecord, groupReady, outcome, pipe, child,
                   faults>>

StopDone ==
    /\ \/ phase = "terminating" /\ Gone
       \/ phase = "killing"
    /\ Finish(IF Gone THEN outcome ELSE "worker_cleanup_failed")
    /\ UNCHANGED <<expected, results, inRecord, groupReady, pipe, child, signal,
                   faults>>

Parent ==
    \/ Spawn \/ SpawnFails \/ Timeout \/ EndOfFile \/ Receive \/ ReceiveRefused
    \/ ReceiveBlocks \/ BlockedReceives \/ ReapComplete \/ ReapLate
    \/ StopTerminate \/ StopKill \/ StopDone

Next == Parent \/ BlockedEnds \/ Child

Spec == Init /\ [][Next]_vars

(* The parent's thread is scheduled, and every wait but that for the rest of *)
(* a message has a timeout; nothing is assumed of the child.                *)
FairSpec == Spec /\ WF_vars(Parent) /\ WF_vars(BlockedEnds /\ ~helper)

-----------------------------------------------------------------------------
(* execute() returns results only for the whole batch, in order and bound   *)
(* to the requested records, from a child that has exited cleanly with its  *)
(* group, and after which nothing was left in the pipe.                     *)
WholeBatch ==
    outcome = "success" =>
        /\ results = [i \in 1..Batch |-> i]
        /\ leader = "exited" /\ ~helper
        /\ pipe = <<>>

(* A child that keeps to the protocol is never taken for one that does not: *)
(* whatever fails, crashes or times out, its messages are acceptable, unless *)
(* it failed before it could report its group.                              *)
ObedientChildAccepted ==
    outcome = "worker_response_invalid" =>
        faults > 0 \/ (~groupReady /\ step > Len(Script))

(* Once the child has reported its group, execute() either ends with all of *)
(* the group's processes gone or says that it could not remove them.        *)
GroupReclaimed ==
    phase = "done" /\ groupReady /\ outcome # "worker_cleanup_failed" =>
        leader \in {"exited", "crashed"} /\ ~helper

(* execute() returns whatever the child does, but for one thing: a child, or *)
(* a helper with its pipe, that stays alive behind half a message holds the  *)
(* parent in recv_bytes beyond every deadline.                              *)
ExecuteReturns ==
    \/ <>(phase = "done")
    \/ <>[](phase = "blocked" /\ (leader = "running" \/ helper))

(* execute() takes results only from a child that kept to the protocol to    *)
(* the end, from every such child, and leaves none of its group behind.      *)
ExecutionSound == TypeOK /\ WholeBatch /\ ObedientChildAccepted /\ GroupReclaimed
=============================================================================
