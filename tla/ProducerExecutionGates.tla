----------------------- MODULE ProducerExecutionGates -----------------------
(***************************************************************************)
(* The process-local rate bucket and the nonqueueing concurrency gate of   *)
(* api/producer_execution_gates.py, called by the service's handler        *)
(* threads.                                                                *)
(*                                                                         *)
(* acquire() reads the injected monotonic clock BEFORE it takes the lock   *)
(* (_read_clock), so the reading it applies may be older than the last     *)
(* one another thread applied: the two halves are separate actions.  The   *)
(* clock is injected, so a reading is any value of 0 .. MaxClock.          *)
(***************************************************************************)
EXTENDS Integers, Sequences

CONSTANTS
    Handlers,      \* threads that call the gate
    NoHandler,     \* "no thread", for the abstract slot
    Refill,        \* RATE_REFILL_INTERVAL_NS: the price of one token
    Burst,         \* RATE_BURST_CAPACITY: the bucket's capacity in tokens
    MaxClock,      \* bound: the largest clock reading
    MaxAttempts    \* bound: acquire() calls in a behaviour

ASSUME GateConfiguration ==
    /\ Refill \in Nat \ {0}
    /\ Burst \in Nat \ {0}
    /\ MaxClock \in Nat
    /\ MaxAttempts \in Nat
    /\ NoHandler \notin Handlers

VARIABLES
    \* the gate object
    credit,          \* _rate_credit_ns
    last,            \* _last_monotonic_ns, NoClock before the first attempt
    active,          \* _active_token_sha256, NoToken when the slot is free
    globalActive,    \* _global_active_count
    producerActive,  \* _producer_active_count
    accepted,        \* _accepted_count
    rateLimited,     \* _rate_limited_count
    serverBusy,      \* _server_busy_count
    released,        \* _released_count
    clockRejected,   \* _clock_rejected_count
    \* its callers
    reading,         \* now_ns read by a thread that waits for the lock
    lease,           \* the last lease object a thread was given
    result,          \* how a thread's last call ended
    \* history
    charges          \* the clock readings at which a token was charged

gate == <<credit, last, active, globalActive, producerActive>>
counts == <<accepted, rateLimited, serverBusy, released, clockRejected>>
gateVars == <<gate, counts, reading, lease, result, charges>>

NoClock == -1
NoToken == 0
Capacity == Burst * Refill
Attempts == accepted + rateLimited + serverBusy + clockRejected

Results == {"none", "accepted", "rate_limited", "server_busy",
            "monotonic_clock_invalid", "released", "lease_not_active"}

GateTypes ==
    /\ credit \in 0 .. Capacity
    /\ last \in Nat \cup {NoClock}
    /\ active \in Nat
    /\ globalActive \in {0, 1} /\ producerActive \in {0, 1}
    /\ accepted \in Nat /\ rateLimited \in Nat /\ serverBusy \in Nat
    /\ released \in Nat /\ clockRejected \in Nat
    /\ reading \in [Handlers -> Nat \cup {NoClock}]
    /\ lease \in [Handlers -> Nat]
    /\ result \in [Handlers -> Results]
    /\ charges \in Seq(Nat)

GateInit ==
    /\ credit = Capacity
    /\ last = NoClock
    /\ active = NoToken
    /\ globalActive = 0 /\ producerActive = 0
    /\ accepted = 0 /\ rateLimited = 0 /\ serverBusy = 0
    /\ released = 0 /\ clockRejected = 0
    /\ reading = [h \in Handlers |-> NoClock]
    /\ lease = [h \in Handlers |-> NoToken]
    /\ result = [h \in Handlers |-> "none"]
    /\ charges = <<>>

-----------------------------------------------------------------------------
Min(a, b) == IF a <= b THEN a ELSE b

(* _read_clock with a usable value; the thread then waits for the lock. *)
ReadClock(h) ==
    /\ reading[h] = NoClock
    /\ Attempts < MaxAttempts
    /\ \E now \in 0 .. MaxClock : reading' = [reading EXCEPT ![h] = now]
    /\ UNCHANGED <<gate, counts, lease, result, charges>>

(* _read_clock with a clock that raises or leaves the 64-bit range. *)
ReadClockInvalid(h) ==
    /\ reading[h] = NoClock
    /\ Attempts < MaxAttempts
    /\ clockRejected' = clockRejected + 1
    /\ result' = [result EXCEPT ![h] = "monotonic_clock_invalid"]
    /\ UNCHANGED <<gate, accepted, rateLimited, serverBusy, released,
                   reading, lease, charges>>

(* The credit after the elapsed time since the last accepted reading. *)
Replenished(now) ==
    IF last = NoClock THEN credit ELSE Min(Capacity, credit + (now - last))

(* Mutant: a second concurrent execution is let in. *)
BusyOffByOne == globalActive > 1 \/ producerActive > 1

Busy == globalActive # 0 \/ producerActive # 0

(* The locked half of acquire(): now is older than the last reading. *)
ClockRegressed(h) ==
    /\ reading[h] # NoClock
    /\ last # NoClock /\ reading[h] < last
    /\ clockRejected' = clockRejected + 1
    /\ result' = [result EXCEPT ![h] = "monotonic_clock_invalid"]
    /\ reading' = [reading EXCEPT ![h] = NoClock]
    /\ UNCHANGED <<gate, accepted, rateLimited, serverBusy, released,
                   lease, charges>>

(* The locked half of acquire(): less than one whole token of credit. *)
RateLimit(h) ==
    /\ reading[h] # NoClock
    /\ last = NoClock \/ reading[h] >= last
    /\ Replenished(reading[h]) < Refill
    /\ credit' = Replenished(reading[h])
    /\ last' = reading[h]
    /\ rateLimited' = rateLimited + 1
    /\ result' = [result EXCEPT ![h] = "rate_limited"]
    /\ reading' = [reading EXCEPT ![h] = NoClock]
    /\ UNCHANGED <<active, globalActive, producerActive, accepted, serverBusy,
                   released, clockRejected, lease, charges>>

(* Mutant: a charged attempt forgets to store its clock reading. *)
ChargeForgetsClock(h) ==
    /\ reading[h] # NoClock
    /\ last = NoClock \/ reading[h] >= last
    /\ Replenished(reading[h]) >= Refill
    /\ credit' = Replenished(reading[h]) - Refill
    /\ last' = IF last = NoClock THEN reading[h] ELSE last
    /\ charges' = Append(charges, reading[h])
    /\ reading' = [reading EXCEPT ![h] = NoClock]

(* The locked half of acquire() once a token can be charged. *)
Charge(h) ==
    /\ reading[h] # NoClock
    /\ last = NoClock \/ reading[h] >= last
    /\ Replenished(reading[h]) >= Refill
    /\ credit' = Replenished(reading[h]) - Refill
    /\ last' = reading[h]
    /\ charges' = Append(charges, reading[h])
    /\ reading' = [reading EXCEPT ![h] = NoClock]

(* A busy attempt is charged all the same. *)
RefuseBusy(h) ==
    /\ Charge(h)
    /\ Busy
    /\ serverBusy' = serverBusy + 1
    /\ result' = [result EXCEPT ![h] = "server_busy"]
    /\ UNCHANGED <<active, globalActive, producerActive, accepted, rateLimited,
                   released, clockRejected, lease>>

(* A fresh unpredictable token: one no earlier lease carries. *)
Accept(h) ==
    /\ Charge(h)
    /\ ~Busy
    /\ active' = accepted + 1
    /\ lease' = [lease EXCEPT ![h] = accepted + 1]
    /\ globalActive' = 1 /\ producerActive' = 1
    /\ accepted' = accepted + 1
    /\ result' = [result EXCEPT ![h] = "accepted"]
    /\ UNCHANGED <<rateLimited, serverBusy, released, clockRejected>>

(* _require_active_lease, for a lease object this thread once got. *)
LeaseActive(h) ==
    /\ active # NoToken
    /\ lease[h] = active
    /\ globalActive = 1 /\ producerActive = 1

(* release(), also the finally path of lease_context(). *)
Release(h) ==
    /\ lease[h] # NoToken
    /\ LeaseActive(h)
    /\ active' = NoToken
    /\ globalActive' = 0 /\ producerActive' = 0
    /\ released' = released + 1
    /\ result' = [result EXCEPT ![h] = "released"]
    /\ UNCHANGED <<credit, last, accepted, rateLimited, serverBusy,
                   clockRejected, reading, lease, charges>>

(* A second release of the same lease, or one of a lease long released. *)
ReleaseRefused(h) ==
    /\ lease[h] # NoToken
    /\ ~LeaseActive(h)
    /\ result' = [result EXCEPT ![h] = "lease_not_active"]
    /\ UNCHANGED <<gate, counts, reading, lease, charges>>

Step(h) ==
    \/ ReadClock(h) \/ ReadClockInvalid(h)
    \/ ClockRegressed(h) \/ RateLimit(h) \/ RefuseBusy(h) \/ Accept(h)
    \/ Release(h) \/ ReleaseRefused(h)

GateNext == \E h \in Handlers : Step(h)

GateSpec == GateInit /\ [][GateNext]_gateVars

-----------------------------------------------------------------------------
(* Any window of consecutive charged attempts fits the documented rate:    *)
(* Burst tokens, plus one for every whole Refill the clock advanced inside  *)
(* the window.  Neither the race between reading the clock and applying it  *)
(* nor a misbehaving clock lets a producer exceed it (acquire).             *)
RateWindow ==
    \A i, j \in 1 .. Len(charges) :
        i <= j => (j - i + 1) * Refill <= Capacity + (charges[j] - charges[i])

(* The handler whose lease is the active one. *)
SlotHolder ==
    IF active = NoToken THEN NoHandler
    ELSE CHOOSE h \in Handlers : lease[h] = active

Slot == INSTANCE ExecutionSlot WITH holder <- SlotHolder

(* acquire() and release() implement one exclusive slot: it is granted only *)
(* while free, and a late, doubled or foreign release never frees a slot    *)
(* that another handler holds.                                              *)
SlotRefinement == Slot!Spec

(* The strengthening that makes RateWindow inductive: what was charged      *)
(* since charge i, plus the credit still there, fits the window that ends   *)
(* at the last accepted clock reading.                                      *)
CreditCovers ==
    /\ last = NoClock => Len(charges) = 0
    /\ \A i \in 1 .. Len(charges) :
        /\ charges[i] <= last
        /\ (Len(charges) - i + 1) * Refill + credit
               <= Capacity + (last - charges[i])

(* The active token, both active counts and the lease objects agree, and    *)
(* no two threads were ever given the same token.                           *)
SlotAgreement ==
    /\ globalActive = producerActive
    /\ globalActive = (IF active = NoToken THEN 0 ELSE 1)
    /\ accepted = released + globalActive
    /\ active <= accepted
    /\ \A h \in Handlers : lease[h] <= accepted
    /\ active # NoToken => \E h \in Handlers : lease[h] = active
    /\ \A h, k \in Handlers : h # k /\ lease[h] = lease[k] => lease[h] = NoToken

=============================================================================
