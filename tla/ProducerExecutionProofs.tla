----------------------- MODULE ProducerExecutionProofs ----------------------
(***************************************************************************)
(* What stands between a request and its inference, for every number of    *)
(* handler threads, every size of batch and every set of requests, claims  *)
(* and generations: the execution gate, which lets one of them through at  *)
(* a bounded rate; execute(), which takes the results from a child that    *)
(* may misbehave; and the replay journal, which claims a request once and  *)
(* answers it alike for ever.                                              *)
(***************************************************************************)
EXTENDS ProducerReplayJournal, ProducerExecutionGates, ProducerInferenceWorker,
        SequenceTheorems, TLAPS

-----------------------------------------------------------------------------
(* The gate, for every token price and every burst capacity. *)

(* One more charge costs one more Refill. *)
LEMMA OneMoreCharge ==
    ASSUME NEW n \in Int
    PROVE  (n + 1) * Refill = n * Refill + Refill
  BY GateConfiguration

(* The bucket holds a token at least. *)
LEMMA CapacityNat == Capacity \in Nat /\ Refill <= Capacity
  <1>1. Capacity \in Nat
    BY GateConfiguration DEF Capacity
  <1>2. PICK k \in Nat : Burst = k + 1
    <2>1. Burst - 1 \in Nat /\ Burst = (Burst - 1) + 1
      BY GateConfiguration
    <2> QED BY <2>1
  <1>3. k * Refill \in Nat /\ Burst * Refill = k * Refill + Refill
    BY <1>2, OneMoreCharge, GateConfiguration
  <1> QED BY <1>1, <1>3, GateConfiguration DEF Capacity

(* Replenishing never overflows the bucket and never adds more than the     *)
(* time that passed.                                                        *)
LEMMA ReplenishedBounds ==
    ASSUME GateTypes, NEW now \in Nat, last = NoClock \/ now >= last
    PROVE  /\ Replenished(now) \in 0 .. Capacity
           /\ last # NoClock => Replenished(now) <= credit + (now - last)
           /\ last = NoClock => Replenished(now) = credit
  BY CapacityNat DEF GateTypes, Replenished, Min, NoClock

(* The gate keeps its types. *)
LEMMA TypeCorrect == GateSpec => []GateTypes
  <1>1. GateInit => GateTypes
    BY CapacityNat DEF GateInit, GateTypes, NoClock, NoToken, Results
  <1>2. GateTypes /\ [GateNext]_gateVars => GateTypes'
    <2> SUFFICES ASSUME GateTypes, [GateNext]_gateVars PROVE GateTypes'
      OBVIOUS
    <2> USE DEF GateTypes, Results, NoClock, NoToken, gate, counts
    <2>1. CASE UNCHANGED gateVars
      BY <2>1 DEF gateVars
    <2>2. ASSUME NEW h \in Handlers, ReadClock(h) PROVE GateTypes'
      BY <2>2, GateConfiguration DEF ReadClock
    <2>3. ASSUME NEW h \in Handlers, ReadClockInvalid(h) PROVE GateTypes'
      BY <2>3 DEF ReadClockInvalid
    <2>4. ASSUME NEW h \in Handlers, ClockRegressed(h) PROVE GateTypes'
      BY <2>4 DEF ClockRegressed
    <2>5. ASSUME NEW h \in Handlers, RateLimit(h) PROVE GateTypes'
      <3>1. reading[h] \in Nat
        BY <2>5 DEF RateLimit
      <3>2. Replenished(reading[h]) \in 0 .. Capacity
        BY <2>5, <3>1, ReplenishedBounds DEF RateLimit
      <3> QED BY <2>5, <3>1, <3>2 DEF RateLimit
    <2>6. ASSUME NEW h \in Handlers, Charge(h)
          PROVE  /\ credit' \in 0 .. Capacity /\ last' \in Nat
                 /\ charges' \in Seq(Nat)
                 /\ reading' \in [Handlers -> Nat \cup {NoClock}]
      <3>1. reading[h] \in Nat
        BY <2>6 DEF Charge
      <3>2. Replenished(reading[h]) \in 0 .. Capacity
        BY <2>6, <3>1, ReplenishedBounds DEF Charge
      <3>3. credit' \in 0 .. Capacity
        BY <2>6, <3>2, CapacityNat, GateConfiguration DEF Charge
      <3> QED BY <2>6, <3>1, <3>3 DEF Charge
    <2>7. ASSUME NEW h \in Handlers, RefuseBusy(h) PROVE GateTypes'
      BY <2>6, <2>7 DEF RefuseBusy
    <2>8. ASSUME NEW h \in Handlers, Accept(h) PROVE GateTypes'
      BY <2>6, <2>8 DEF Accept
    <2>9. ASSUME NEW h \in Handlers, Release(h) PROVE GateTypes'
      BY <2>9 DEF Release
    <2>10. ASSUME NEW h \in Handlers, ReleaseRefused(h) PROVE GateTypes'
      BY <2>10 DEF ReleaseRefused
    <2> QED
      BY <2>1, <2>2, <2>3, <2>4, <2>5, <2>7, <2>8, <2>9, <2>10
      DEF GateNext, Step
  <1> QED BY <1>1, <1>2, PTL DEF GateSpec

-----------------------------------------------------------------------------
(* A charge of a token preserves the bound of every window that ends now.   *)
LEMMA ChargeCovers ==
    ASSUME GateTypes, CreditCovers, NEW h \in Handlers, Charge(h)
    PROVE  CreditCovers'
  <1> DEFINE n == Len(charges)  now == reading[h]
  <1>1. now \in Nat /\ (last = NoClock \/ now >= last)
    BY DEF GateTypes, Charge
  <1>2. /\ charges \in Seq(Nat) /\ n \in Nat
        /\ charges' = Append(charges, now) /\ Len(charges') = n + 1
    BY <1>1 DEF GateTypes, Charge
  <1>3. last' = now /\ credit' = Replenished(now) - Refill
    BY DEF Charge
  <1>4. /\ Replenished(now) \in 0 .. Capacity
        /\ last # NoClock => Replenished(now) <= credit + (now - last)
    BY <1>1, ReplenishedBounds
  <1>5. now # NoClock
    BY <1>1 DEF NoClock
  <1>6. ASSUME NEW i \in 1 .. n
        PROVE  /\ charges'[i] <= last'
               /\ (Len(charges') - i + 1) * Refill + credit'
                      <= Capacity + (last' - charges'[i])
    <2>1. charges'[i] = charges[i] /\ charges[i] \in Nat
      BY <1>1, <1>2
    <2>2. last # NoClock /\ last \in Nat /\ now >= last
      BY <1>1, <1>6 DEF CreditCovers, GateTypes
    <2>3. /\ charges[i] <= last
          /\ (n - i + 1) * Refill + credit <= Capacity + (last - charges[i])
      BY <1>6 DEF CreditCovers
    <2>4. (n - i + 2) * Refill = (n - i + 1) * Refill + Refill
      <3>1. n - i + 1 \in Int /\ n - i + 2 = (n - i + 1) + 1
        BY <1>2
      <3> QED BY <3>1, OneMoreCharge
    <2>5. (Len(charges') - i + 1) * Refill = (n - i + 1) * Refill + Refill
      <3>1. Len(charges') - i + 1 = n - i + 2
        BY <1>2
      <3> QED BY <3>1, <2>4
    <2> DEFINE spent == (n - i + 1) * Refill
    <2>6. spent \in Int
      BY <1>2, GateConfiguration
    <2>7. /\ spent + credit <= Capacity + (last - charges[i])
          /\ (Len(charges') - i + 1) * Refill = spent + Refill
          /\ credit \in Nat
      BY <2>3, <2>5, CapacityNat DEF GateTypes
    <2> HIDE DEF spent
    <2>8. spent + Refill + credit' <= Capacity + (now - charges[i])
      <3> DEFINE r == Replenished(now)
      <3>1. credit' = r - Refill /\ r \in Int /\ r <= credit + (now - last)
        BY <2>2, <1>3, <1>4, CapacityNat
      <3>2. now \in Int /\ last \in Int /\ charges[i] \in Int /\ credit \in Int
        BY <1>1, <2>1, <2>2, <2>7
      <3>3. Capacity \in Int /\ Refill \in Int
        BY CapacityNat, GateConfiguration
      <3> HIDE DEF r, now
      <3> QED BY <2>6, <2>7, <3>1, <3>2, <3>3
    <2>9. charges[i] <= now
      BY <2>1, <2>2, <2>3, <1>1
    <2> QED BY <2>1, <2>7, <2>8, <2>9, <1>3
  <1>7. /\ charges'[n + 1] <= last'
        /\ (Len(charges') - (n + 1) + 1) * Refill + credit'
               <= Capacity + (last' - charges'[n + 1])
    <2>1. charges'[n + 1] = now
      BY <1>1, <1>2
    <2>2. Len(charges') - (n + 1) + 1 = 1 /\ 1 * Refill = Refill
      BY <1>2, GateConfiguration
    <2> QED
      BY <2>1, <2>2, <1>1, <1>3, <1>4, CapacityNat, GateConfiguration
  <1> QED BY <1>2, <1>3, <1>5, <1>6, <1>7 DEF CreditCovers

(* The new window bounds follow from the covering credit, which is never    *)
(* negative.                                                                *)
LEMMA CoversImpliesWindow ==
    ASSUME GateTypes, RateWindow, CreditCovers, NEW h \in Handlers, Charge(h),
           GateTypes', CreditCovers'
    PROVE  RateWindow'
  <1> DEFINE n == Len(charges)  now == reading[h]
  <1>1. now \in Nat
    BY DEF GateTypes, Charge
  <1>2. /\ charges \in Seq(Nat) /\ n \in Nat
        /\ charges' = Append(charges, now) /\ Len(charges') = n + 1
    BY <1>1 DEF GateTypes, Charge
  <1>3. charges'[n + 1] = now /\ last' = now
    BY <1>1, <1>2 DEF Charge
  <1> SUFFICES ASSUME NEW i \in 1 .. n + 1, NEW j \in 1 .. n + 1, i <= j
               PROVE  (j - i + 1) * Refill
                        <= Capacity + (charges'[j] - charges'[i])
    BY <1>2 DEF RateWindow, Capacity
  <1>4. CASE j = n + 1
    <2>1. (n + 1 - i + 1) * Refill + credit' <= Capacity + (now - charges'[i])
      BY <1>2, <1>3 DEF CreditCovers, Capacity
    <2>2. (n + 1 - i + 1) * Refill \in Int
      BY <1>2, GateConfiguration
    <2>3. charges'[i] \in Nat
      <3>1. charges' \in Seq(Nat) /\ i \in 1 .. Len(charges')
        BY <1>2 DEF GateTypes
      <3> HIDE DEF n, now
      <3> QED BY <3>1
    <2>4. Capacity' = Capacity
      BY DEF Capacity
    <2>5. credit' \in Nat
      BY <2>4, CapacityNat DEF GateTypes
    <2>6. (j - i + 1) * Refill = (n + 1 - i + 1) * Refill
      BY <1>4
    <2> DEFINE spent == (n + 1 - i + 1) * Refill
    <2>7. /\ spent \in Int
          /\ spent + credit' <= Capacity + (now - charges'[i])
          /\ (j - i + 1) * Refill = spent
          /\ charges'[j] = now
      BY <2>1, <2>2, <2>6, <1>3, <1>4
    <2> HIDE DEF n, now, spent
    <2> QED BY <2>3, <2>5, <2>7, <1>1, CapacityNat
  <1>5. CASE j # n + 1
    <2>1. i \in 1 .. n /\ j \in 1 .. n
      BY <1>2, <1>5
    <2>2. charges'[i] = charges[i] /\ charges'[j] = charges[j]
      BY <2>1, <1>1, <1>2
    <2> QED BY <2>1, <2>2 DEF RateWindow
  <1> QED BY <1>4, <1>5

(* A rate-limited attempt only moves the clock and tops up the credit.      *)
LEMMA RateLimitCovers ==
    ASSUME GateTypes, CreditCovers, NEW h \in Handlers, RateLimit(h)
    PROVE  CreditCovers'
  <1> DEFINE n == Len(charges)  now == reading[h]
  <1>1. now \in Nat /\ (last = NoClock \/ now >= last)
    BY DEF GateTypes, RateLimit
  <1>2. /\ charges \in Seq(Nat) /\ n \in Nat
        /\ charges' = charges /\ Len(charges') = n
    BY DEF GateTypes, RateLimit
  <1>3. last' = now /\ credit' = Replenished(now)
    BY DEF RateLimit
  <1>4. /\ Replenished(now) \in 0 .. Capacity
        /\ last # NoClock => Replenished(now) <= credit + (now - last)
    BY <1>1, ReplenishedBounds
  <1>5. now # NoClock
    BY <1>1 DEF NoClock
  <1>6. ASSUME NEW i \in 1 .. n
        PROVE  /\ charges[i] <= now
               /\ (n - i + 1) * Refill + credit' <= Capacity + (now - charges[i])
    <2>1. last # NoClock /\ last \in Nat /\ now >= last
      BY <1>1, <1>6 DEF CreditCovers, GateTypes
    <2>2. /\ charges[i] <= last
          /\ (n - i + 1) * Refill + credit <= Capacity + (last - charges[i])
      BY <1>6 DEF CreditCovers
    <2> DEFINE spent == (n - i + 1) * Refill  r == Replenished(now)
    <2>3. /\ spent \in Int /\ charges[i] \in Int /\ credit \in Int
          /\ last \in Int /\ now \in Int /\ Capacity \in Int
      BY <1>1, <1>2, <2>1, CapacityNat, GateConfiguration DEF GateTypes
    <2>4. /\ spent + credit <= Capacity + (last - charges[i])
          /\ credit' = r /\ r \in Int /\ r <= credit + (now - last)
      BY <1>3, <1>4, <2>1, <2>2, CapacityNat
    <2> HIDE DEF spent, r, now
    <2>5. spent + credit' <= Capacity + (now - charges[i])
      BY <2>3, <2>4
    <2>6. charges[i] <= now
      BY <2>1, <2>2, <2>3
    <2> QED BY <2>5, <2>6 DEF spent
  <1>7. Capacity' = Capacity
    BY DEF Capacity
  <1> QED BY <1>2, <1>3, <1>5, <1>6, <1>7 DEF CreditCovers

(* The bound of every window and the credit that covers it survive each     *)
(* step: only RateLimit, RefuseBusy and Accept touch what they speak of.    *)
LEMMA WindowInductive ==
    ASSUME GateTypes, GateTypes', RateWindow, CreditCovers, [GateNext]_gateVars
    PROVE  RateWindow' /\ CreditCovers'
  <1>1. ASSUME NEW h \in Handlers, Charge(h)
        PROVE  RateWindow' /\ CreditCovers'
    BY <1>1, ChargeCovers, CoversImpliesWindow
  <1>2. ASSUME NEW h \in Handlers, RateLimit(h)
        PROVE  RateWindow' /\ CreditCovers'
    <2>1. CreditCovers'
      BY <1>2, RateLimitCovers
    <2>2. charges' = charges
      BY <1>2 DEF RateLimit
    <2> QED BY <2>1, <2>2 DEF RateWindow, Capacity
  <1>3. ASSUME UNCHANGED <<credit, last, charges>>
        PROVE  RateWindow' /\ CreditCovers'
    BY <1>3 DEF RateWindow, CreditCovers, Capacity
  <1>4. ASSUME NEW h \in Handlers, Step(h)
        PROVE  \/ Charge(h) \/ RateLimit(h)
               \/ UNCHANGED <<credit, last, charges>>
    BY <1>4 DEF Step, ReadClock, ReadClockInvalid, ClockRegressed, RefuseBusy,
                Accept, Release, ReleaseRefused, gate
  <1>5. CASE UNCHANGED gateVars
    BY <1>3, <1>5 DEF gateVars, gate
  <1> QED BY <1>1, <1>2, <1>3, <1>4, <1>5 DEF GateNext

(* No interleaving of handler threads, no clock and no mix of accepted,     *)
(* busy and limited attempts lets the gate charge more than Burst tokens    *)
(* plus the refill of the elapsed clock time in any window (acquire).       *)
THEOREM RateBound == GateSpec => []RateWindow
  <1>1. GateInit => RateWindow /\ CreditCovers
    BY DEF GateInit, RateWindow, CreditCovers
  <1>2. GateTypes /\ GateTypes' /\ RateWindow /\ CreditCovers /\ [GateNext]_gateVars
            => RateWindow' /\ CreditCovers'
    BY WindowInductive
  <1> QED BY <1>1, <1>2, TypeCorrect, PTL DEF GateSpec

-----------------------------------------------------------------------------
(* Slot, token and counters agree after every step. *)
LEMMA SlotInductive ==
    ASSUME GateTypes, SlotAgreement, [GateNext]_gateVars
    PROVE  SlotAgreement'
  <1> USE DEF GateTypes, SlotAgreement, NoToken
  <1>1. ASSUME NEW h \in Handlers, Accept(h) PROVE SlotAgreement'
    <2>1. active = NoToken
      BY <1>1 DEF Accept, Busy
    <2> QED BY <1>1, <2>1 DEF Accept
  <1>2. ASSUME NEW h \in Handlers, Release(h) PROVE SlotAgreement'
    BY <1>2 DEF Release, LeaseActive
  <1>3. ASSUME UNCHANGED <<active, globalActive, producerActive, accepted,
                           released, lease>>
        PROVE  SlotAgreement'
    BY <1>3
  <1>4. ASSUME NEW h \in Handlers, Step(h)
        PROVE  \/ Accept(h) \/ Release(h)
               \/ UNCHANGED <<active, globalActive, producerActive, accepted,
                              released, lease>>
    BY <1>4 DEF Step, ReadClock, ReadClockInvalid, ClockRegressed, RateLimit,
                RefuseBusy, ReleaseRefused, gate, counts
  <1>5. CASE UNCHANGED gateVars
    BY <1>3, <1>5 DEF gateVars, gate, counts
  <1> QED BY <1>1, <1>2, <1>3, <1>4, <1>5 DEF GateNext

(* The active token, both active counts, the release count and the lease    *)
(* objects agree after any sequence of acquires, busy refusals and          *)
(* releases, late ones included.                                            *)
THEOREM SlotAgrees == GateSpec => []SlotAgreement
  <1>1. GateInit => SlotAgreement
    BY DEF GateInit, SlotAgreement, NoToken
  <1>2. GateTypes /\ SlotAgreement /\ [GateNext]_gateVars => SlotAgreement'
    BY SlotInductive
  <1> QED BY <1>1, <1>2, TypeCorrect, PTL DEF GateSpec

(* While the slot is taken, SlotHolder is the one handler with the active   *)
(* lease.                                                                   *)
LEMMA HolderIsLessee ==
    ASSUME SlotAgreement, NEW h \in Handlers, lease[h] = active,
           active # NoToken
    PROVE  SlotHolder = h
  BY DEF SlotAgreement, SlotHolder

(* The gate implements the abstract slot: every step of the gate grants the *)
(* free slot, frees it by its holder, or leaves it alone.                   *)
THEOREM GateImplementsSlot == GateSpec => SlotRefinement
  <1>1. GateInit => Slot!Init
    BY DEF GateInit, Slot!Init, SlotHolder
  <1>2. ASSUME GateTypes, SlotAgreement, SlotAgreement', [GateNext]_gateVars
        PROVE  [Slot!Next]_SlotHolder
    <2>1. ASSUME NEW h \in Handlers, Accept(h) PROVE Slot!Grant(h)
      <3>1. active = NoToken /\ SlotHolder = NoHandler
        BY <1>2, <2>1 DEF Accept, Busy, SlotAgreement, SlotHolder
      <3>2. lease'[h] = active' /\ active' # NoToken
        BY <1>2, <2>1 DEF Accept, GateTypes, NoToken
      <3>3. SlotHolder' = h
        BY <1>2, <3>2 DEF SlotAgreement, SlotHolder
      <3> QED BY <3>1, <3>3 DEF Slot!Grant
    <2>2. ASSUME NEW h \in Handlers, Release(h) PROVE Slot!Free(h)
      <3>1. SlotHolder = h
        BY <1>2, <2>2, HolderIsLessee DEF Release, LeaseActive
      <3>2. SlotHolder' = NoHandler
        BY <2>2 DEF Release, SlotHolder
      <3> QED BY <3>1, <3>2 DEF Slot!Free
    <2>3. ASSUME UNCHANGED <<active, lease>> PROVE UNCHANGED SlotHolder
      BY <2>3 DEF SlotHolder
    <2>4. ASSUME NEW h \in Handlers, Step(h)
          PROVE  Accept(h) \/ Release(h) \/ UNCHANGED <<active, lease>>
      BY <2>4 DEF Step, ReadClock, ReadClockInvalid, ClockRegressed, RateLimit,
                  RefuseBusy, ReleaseRefused, gate, counts
    <2>5. CASE UNCHANGED gateVars
      BY <2>3, <2>5 DEF gateVars, gate
    <2> QED BY <1>2, <2>1, <2>2, <2>3, <2>4, <2>5 DEF GateNext, Slot!Next
  <1> QED
    BY <1>1, <1>2, TypeCorrect, SlotAgrees, PTL
    DEF GateSpec, SlotRefinement, Slot!Spec

-----------------------------------------------------------------------------
(* The child process.  The parent's expectation and the number of its      *)
(* results say how many messages of the script it has consumed; while the  *)
(* child has kept to the protocol, the pipe holds the next ones, and at    *)
(* its end perhaps the message of an exception.                            *)

(* Messages of a whole exchange. *)
Total == 2 * Batch + 3

(* Messages of the script that the parent has accepted. *)
Consumed ==
    CASE expected = "booted"         -> 0
      [] expected = "prepared"       -> 1
      [] expected = "record_started" -> 2 * Len(results) + 2
      [] expected = "record_result"  -> 2 * Len(results) + 3
      [] expected = "complete"       -> IF phase = "complete" THEN Total ELSE Total - 1

(* The parent still reads the pipe. *)
Listening == phase \in {"spawning", "reading", "complete"}

(* The results so far are those of the first records, and their number fits *)
(* what the parent waits for.                                               *)
ProgressTrue ==
    /\ \A i \in 1..Len(results) : results[i] = i
    /\ expected \in {"booted", "prepared"} => Len(results) = 0
    /\ expected \in {"record_started", "record_result"} => Len(results) < Batch
    /\ expected = "complete" => Len(results) = Batch
    /\ groupReady <=> expected # "booted"
    /\ phase = "complete" => expected = "complete"
    /\ phase = "spawning" => /\ expected = "booted" /\ leader = "absent"
                             /\ pipe = <<>> /\ step = 1
    /\ Listening => outcome = "none"
    /\ phase = "blocked" => outcome = "none" /\ faults > 0
    /\ outcome = "success" => phase = "done"

(* The pipe of a child that has kept to the protocol. *)
PipeTrue ==
    faults = 0 /\ Listening =>
        /\ Consumed + Len(pipe) <= Total
        /\ step <= Total => Consumed + Len(pipe) = step - 1
        /\ \A i \in 1..Len(pipe) :
              \/ pipe[i] = Script[Consumed + i]
              \/ i = Len(pipe) /\ pipe[i] \in {Rejected, Failed} /\ step = Total + 1

(* The inductive invariant. *)
Inv ==
    /\ TypeOK /\ ProgressTrue /\ PipeTrue
    /\ WholeBatch /\ ObedientChildAccepted /\ GroupReclaimed

-----------------------------------------------------------------------------
(* The middle of the script: two messages for each record. *)
Records ==
    [i \in 1..(2 * Batch) |->
        IF i % 2 = 1 THEN Message("record_started", (i + 1) \div 2, 0)
                     ELSE Message("record_result", i \div 2, i \div 2)]

(* Halves of odd and even numbers. *)
LEMMA HalvesFacts ==
    ASSUME NEW k \in Nat
    PROVE  /\ (2 * k - 1) % 2 = 1 /\ ((2 * k - 1) + 1) \div 2 = k
           /\ (2 * k) % 2 = 0 /\ (2 * k) \div 2 = k
  OBVIOUS

(* The part of the script about the records. *)
LEMMA RecordsFacts ==
    /\ Records \in Seq(Messages) /\ Len(Records) = 2 * Batch
    /\ \A k \in 1..Batch : /\ Records[2 * k - 1] = Message("record_started", k, 0)
                           /\ Records[2 * k] = Message("record_result", k, k)
  <1>1. Batch \in Nat /\ 2 * Batch \in Nat
    BY WorkerConfiguration
  <1>2. ASSUME NEW k \in 1..Batch
        PROVE  /\ Records[2 * k - 1] = Message("record_started", k, 0)
               /\ Records[2 * k] = Message("record_result", k, k)
    <2>1. 2 * k - 1 \in 1..(2 * Batch) /\ 2 * k \in 1..(2 * Batch) /\ k \in Nat
      BY <1>1
    <2>2. Records[2 * k - 1] = Message("record_started", ((2 * k - 1) + 1) \div 2, 0)
      BY <2>1, HalvesFacts DEF Records
    <2>3. Records[2 * k] = Message("record_result", (2 * k) \div 2, (2 * k) \div 2)
      BY <2>1, HalvesFacts DEF Records
    <2> QED
      BY <2>1, <2>2, <2>3, HalvesFacts
  <1>3. \A k \in 1..Batch : /\ Message("record_started", k, 0) \in Messages
                            /\ Message("record_result", k, k) \in Messages
    BY DEF Messages
  <1>4. ASSUME NEW i \in 1..(2 * Batch) PROVE Records[i] \in Messages
    <2>1. \E k \in 1..Batch : i = 2 * k - 1 \/ i = 2 * k
      <3>1. CASE i % 2 = 1
        <4>1. (i + 1) \div 2 \in 1..Batch /\ i = 2 * ((i + 1) \div 2) - 1
          BY <1>1, <3>1
        <4> QED
          BY <4>1
      <3>2. CASE i % 2 # 1
        <4>1. i \div 2 \in 1..Batch /\ i = 2 * (i \div 2)
          BY <1>1, <3>2
        <4> QED
          BY <4>1
      <3> QED
        BY <3>1, <3>2
    <2> QED
      BY <1>2, <1>3, <2>1
  <1>5. Records \in Seq(Messages) /\ Len(Records) = 2 * Batch
    BY <1>1, <1>4 DEF Records
  <1> QED
    BY <1>2, <1>5

(* Concatenation, named so that the provers see one operator. *)
Join(s, t) == s \o t

(* What a sequence of two parts holds. *)
LEMMA Joined ==
    ASSUME NEW s \in Seq(Messages), NEW t \in Seq(Messages)
    PROVE  /\ Join(s, t) \in Seq(Messages) /\ Len(Join(s, t)) = Len(s) + Len(t)
           /\ \A i \in 1..Len(s) : Join(s, t)[i] = s[i]
           /\ \A i \in 1..Len(t) : Join(s, t)[Len(s) + i] = t[i]
  <1> USE DEF Join
  <1>1. /\ s \o t \in Seq(Messages) /\ Len(s \o t) = Len(s) + Len(t)
        /\ \A i \in 1..(Len(s) + Len(t)) :
               (s \o t)[i] = IF i <= Len(s) THEN s[i] ELSE t[i - Len(s)]
    BY ConcatProperties
  <1>2. Len(s) \in Nat /\ Len(t) \in Nat
    OBVIOUS
  <1>3. \A i \in 1..Len(s) : (s \o t)[i] = s[i]
    BY <1>1, <1>2
  <1>4. ASSUME NEW i \in 1..Len(t) PROVE (s \o t)[Len(s) + i] = t[i]
    <2>1. /\ Len(s) + i \in 1..(Len(s) + Len(t)) /\ ~(Len(s) + i <= Len(s))
          /\ (Len(s) + i) - Len(s) = i
      BY <1>2
    <2> QED
      BY <1>1, <2>1
  <1> QED
    BY <1>1, <1>3, <1>4

(* The script, message by message. *)
LEMMA ScriptFacts ==
    /\ Script \in Seq(Messages) /\ Len(Script) = Total
    /\ Script[1] = Message("booted", 0, 0)
    /\ Script[2] = Message("prepared", Batch, 0)
    /\ \A k \in 1..Batch : /\ Script[2 * k + 1] = Message("record_started", k, 0)
                           /\ Script[2 * k + 2] = Message("record_result", k, k)
    /\ Script[Total] = Message("complete", Batch, 0)
  <1> DEFINE first == <<Message("booted", 0, 0), Message("prepared", Batch, 0)>>
             end == <<Message("complete", Batch, 0)>>
             front == Join(first, Records)
  <1>1. Batch \in Nat /\ Batch \in 1..Batch
    BY WorkerConfiguration
  <1>2. Script = Join(front, end)
    BY DEF Script, Records, Join
  <1>3. /\ Message("booted", 0, 0) \in Messages
        /\ Message("prepared", Batch, 0) \in Messages
        /\ Message("complete", Batch, 0) \in Messages
    BY <1>1 DEF Messages
  <1>4. first \in Seq(Messages) /\ end \in Seq(Messages)
        /\ Len(first) = 2 /\ Len(end) = 1
    BY <1>3
  <1> HIDE DEF first, end
  <1>5. /\ front \in Seq(Messages) /\ Len(front) = Len(first) + Len(Records)
        /\ \A i \in 1..Len(first) : front[i] = first[i]
        /\ \A i \in 1..Len(Records) : front[Len(first) + i] = Records[i]
    <2>1. first \in Seq(Messages) /\ Records \in Seq(Messages)
      BY <1>4, RecordsFacts
    <2> QED
      BY <2>1, Joined, Zenon
  <1> HIDE DEF front
  <1>6. /\ Script \in Seq(Messages) /\ Len(Script) = Len(front) + Len(end)
        /\ \A i \in 1..Len(front) : Script[i] = front[i]
        /\ \A i \in 1..Len(end) : Script[Len(front) + i] = end[i]
    <2>1. front \in Seq(Messages) /\ end \in Seq(Messages)
      BY <1>4, <1>5
    <2> QED
      BY <1>2, <2>1, Joined, Zenon
  <1>7. Len(Records) = 2 * Batch /\ Len(front) = 2 * Batch + 2
    BY <1>1, <1>4, <1>5, RecordsFacts
  <1>8. Len(Script) = Total /\ Script[Total] = end[1]
    <2>1. Len(front) + Len(end) = Total /\ Len(front) + 1 = Total /\ 1 \in 1..Len(end)
      BY <1>1, <1>4, <1>7 DEF Total
    <2> QED
      BY <1>6, <2>1
  <1>9. Script[1] = first[1] /\ Script[2] = first[2]
    <2>1. /\ 1 \in 1..Len(first) /\ 2 \in 1..Len(first)
          /\ 1 \in 1..Len(front) /\ 2 \in 1..Len(front)
      BY <1>1, <1>4, <1>7
    <2> QED
      BY <1>5, <1>6, <2>1
  <1>10. ASSUME NEW k \in 1..Batch
        PROVE  /\ Script[2 * k + 1] = Message("record_started", k, 0)
               /\ Script[2 * k + 2] = Message("record_result", k, k)
    <2>1. /\ 2 * k - 1 \in 1..Len(Records) /\ 2 * k \in 1..Len(Records)
          /\ 2 * k + 1 \in 1..Len(front) /\ 2 * k + 2 \in 1..Len(front)
          /\ Len(first) + (2 * k - 1) = 2 * k + 1 /\ Len(first) + 2 * k = 2 * k + 2
      BY <1>1, <1>4, <1>7
    <2>2. Script[2 * k + 1] = Records[2 * k - 1] /\ Script[2 * k + 2] = Records[2 * k]
      BY <1>5, <1>6, <2>1, ZenonT(60)
    <2> QED
      BY <2>2, RecordsFacts
  <1> QED
    BY <1>6, <1>8, <1>9, <1>10 DEF first, end

-----------------------------------------------------------------------------
(* The next message of the script is the one the parent accepts. *)
LEMMA ScriptIsExpected ==
    ASSUME TypeOK, ProgressTrue, phase = "reading"
    PROVE  /\ Consumed \in 0..(Total - 1) /\ Acceptable(Script[Consumed + 1])
           /\ Consumed = 0 <=> expected = "booted"
  <1>1. Batch \in Nat /\ Batch >= 1 /\ Len(results) \in Nat
    BY WorkerConfiguration DEF TypeOK
  <1>2. CASE expected = "booted"
    BY <1>1, <1>2, ScriptFacts DEF Consumed, Acceptable, Total
  <1>3. CASE expected = "prepared"
    BY <1>1, <1>3, ScriptFacts DEF Consumed, Acceptable, Total
  <1>4. CASE expected = "record_started"
    <2>1. /\ Next1 \in 1..Batch /\ Consumed = 2 * Len(results) + 2
          /\ Consumed + 1 = 2 * Next1 + 1
      BY <1>1, <1>4 DEF Consumed, Next1, ProgressTrue
    <2>2. Script[Consumed + 1] = Message("record_started", Next1, 0)
      BY <2>1, ScriptFacts
    <2>3. Acceptable(Script[Consumed + 1])
      BY <1>4, <2>2 DEF Acceptable
    <2> QED
      BY <1>1, <1>4, <2>1, <2>3 DEF Total, Next1
  <1>5. CASE expected = "record_result"
    <2>1. /\ Next1 \in 1..Batch /\ Consumed = 2 * Len(results) + 3
          /\ Consumed + 1 = 2 * Next1 + 2
      BY <1>1, <1>5 DEF Consumed, Next1, ProgressTrue
    <2>2. Script[Consumed + 1] = Message("record_result", Next1, Next1)
      BY <2>1, ScriptFacts
    <2>3. Acceptable(Script[Consumed + 1])
      BY <1>5, <2>2 DEF Acceptable
    <2> QED
      BY <1>1, <1>5, <2>1, <2>3 DEF Total, Next1
  <1>6. CASE expected = "complete"
    <2>1. Consumed = Total - 1 /\ Consumed + 1 = Total /\ Len(results) = Batch
      BY <1>1, <1>6 DEF Consumed, ProgressTrue, Total
    <2>2. Script[Consumed + 1] = Message("complete", Len(results), 0)
      BY <2>1, ScriptFacts
    <2>3. Acceptable(Script[Consumed + 1])
      BY <1>6, <2>2 DEF Acceptable
    <2> QED
      BY <1>1, <1>6, <2>1, <2>3 DEF Total
  <1> QED
    BY <1>2, <1>3, <1>4, <1>5, <1>6 DEF TypeOK, Kinds

(* How far the parent can be. *)
LEMMA ConsumedType ==
    ASSUME TypeOK, ProgressTrue, Listening
    PROVE  Consumed \in 0..Total
  <1>1. Batch \in Nat /\ Batch >= 1 /\ Len(results) \in Nat
    BY WorkerConfiguration DEF TypeOK
  <1>2. CASE phase = "reading"
    BY <1>1, <1>2, ScriptIsExpected DEF Total
  <1>3. CASE phase = "spawning"
    BY <1>1, <1>3 DEF ProgressTrue, Consumed, Total
  <1>4. CASE phase = "complete"
    BY <1>1, <1>4 DEF ProgressTrue, Consumed, Total
  <1> QED
    BY <1>2, <1>3, <1>4 DEF Listening

-----------------------------------------------------------------------------
(* A step of the child's group: the parent stands still, and only a running *)
(* leader writes, starts a helper or ends.                                  *)
ChildFrame ==
    /\ UNCHANGED parent
    /\ faults' \in Nat /\ faults <= faults' /\ faults' <= MaxFaults
    /\ UNCHANGED <<stubborn, signal>>
    /\ leader # "running" => leader' = leader /\ pipe' = pipe /\ step' = step
    /\ step > Total => step' > Total
    /\ leader' \in {leader, "exited", "crashed"}
    /\ helper' => helper \/ leader = "running"
    /\ helper' \in BOOLEAN

(* Every step of the child is such a step. *)
LEMMA ChildFrames == TypeOK /\ Child => ChildFrame
  <1> SUFFICES ASSUME TypeOK, Child PROVE ChildFrame
    OBVIOUS
  <1>1. /\ MaxFaults \in Nat /\ faults \in 0..MaxFaults
        /\ Len(Script) = Total /\ Total \in Nat /\ step \in 1..(Total + 1)
    BY WorkerConfiguration, ScriptFacts DEF TypeOK, Total
  <1>2. CASE ChildSteps \/ ChildExits \/ ChildRaises \/ ChildCrashes
    BY <1>1, <1>2 DEF ChildSteps, ChildExits, ChildRaises, ChildCrashes, ChildSends,
                      ChildFrame, TypeOK
  <1>3. CASE ChildReturnsEarly \/ ChildMisbehaves
    BY <1>1, <1>3 DEF ChildReturnsEarly, ChildMisbehaves, ChildSends, ChildFrame,
                      TypeOK
  <1>4. CASE HelperStarts \/ HelperExits
    <2>1. /\ UNCHANGED <<parent, leader, pipe, step, stubborn, signal, faults>>
          /\ helper' = FALSE \/ (helper' = TRUE /\ leader = "running")
      BY <1>4 DEF HelperStarts, HelperExits
    <2>2. helper' \in BOOLEAN /\ (helper' => leader = "running")
      BY <2>1
    <2> QED
      BY <1>1, <2>1, <2>2 DEF ChildFrame
  <1>5. CASE SignalTakes
    <2>1. helper' = (helper /\ ~groupReady) /\ helper' \in BOOLEAN
      BY <1>5 DEF SignalTakes
    <2> QED
      BY <1>1, <1>5, <2>1 DEF SignalTakes, ChildFrame
  <1> QED
    BY <1>2, <1>3, <1>4, <1>5 DEF Child

(* It keeps the types. *)
LEMMA ChildTypes == ASSUME TypeOK, Child PROVE TypeOK'
  <1>1. ChildFrame
    BY ChildFrames
  <1>2. Total \in Nat /\ Total >= 2 /\ MaxFaults \in Nat
    BY WorkerConfiguration DEF Total
  <1>3. step' \in 1..(Total + 1)
    BY <1>2, ScriptFacts DEF Child, ChildSteps, ChildExits, ChildRaises, ChildCrashes,
       ChildReturnsEarly, ChildMisbehaves, HelperStarts, HelperExits, SignalTakes,
       TypeOK
  <1>4. pipe' = pipe \/ \E m \in Messages : pipe' = Append(pipe, m)
    <2>1. CASE ChildSteps
      BY <2>1, ScriptFacts DEF ChildSteps, ChildSends, TypeOK
    <2>2. CASE ChildRaises
      BY <2>2 DEF ChildRaises, ChildSends, Messages
    <2>3. CASE ChildMisbehaves
      BY <2>3 DEF ChildMisbehaves, ChildSends
    <2>4. CASE \/ ChildExits \/ ChildCrashes \/ ChildReturnsEarly \/ HelperStarts
               \/ HelperExits \/ SignalTakes
      BY <2>4 DEF ChildExits, ChildCrashes, ChildReturnsEarly, HelperStarts,
                  HelperExits, SignalTakes
    <2> QED
      BY <2>1, <2>2, <2>3, <2>4 DEF Child
  <1>5. pipe' \in Seq(Messages)
    BY <1>4, AppendProperties, SMTT(40) DEF TypeOK
  <1>6. faults' \in 0..MaxFaults
    BY <1>1, <1>2 DEF ChildFrame
  <1>7. leader' \in {"absent", "running", "exited", "crashed"}
    BY <1>1 DEF ChildFrame, TypeOK
  <1> QED
    BY <1>1, <1>3, <1>5, <1>6, <1>7, ScriptFacts DEF TypeOK, ChildFrame, parent

(* A message put at the end of the pipe of an obedient child. *)
LEMMA PipeExtended ==
    ASSUME Inv, UNCHANGED parent, NEW m \in Messages, pipe' = Append(pipe, m),
           step \in 1..Total, faults = 0 => step' \in {step + 1, Total + 1},
           \/ m = Script[step]
           \/ m \in {Rejected, Failed} /\ step' = Total + 1,
           faults' = faults
    PROVE  PipeTrue'
  <1> SUFFICES ASSUME faults = 0, Listening
               PROVE  /\ Consumed + Len(pipe') <= Total
                      /\ step' <= Total => Consumed + Len(pipe') = step' - 1
                      /\ \A i \in 1..Len(pipe') :
                            \/ pipe'[i] = Script[Consumed + i]
                            \/ /\ i = Len(pipe') /\ pipe'[i] \in {Rejected, Failed}
                               /\ step' = Total + 1
    BY DEF PipeTrue, parent, Listening, Consumed
  <1>1. TypeOK /\ ProgressTrue /\ PipeTrue /\ Total \in Nat
    BY WorkerConfiguration DEF Inv, Total
  <1>2. Consumed \in Nat
    BY <1>1, ConsumedType
  <1>3. /\ Len(pipe) \in Nat /\ Len(pipe') = Len(pipe) + 1
        /\ \A i \in 1..Len(pipe) : pipe'[i] = pipe[i]
        /\ pipe'[Len(pipe) + 1] = m
    BY <1>1, AppendProperties DEF TypeOK
  <1>4. Consumed + Len(pipe) = step - 1
        /\ \A i \in 1..Len(pipe) : pipe[i] = Script[Consumed + i]
    BY <1>1 DEF PipeTrue
  <1>5. Consumed + Len(pipe') = step
    BY <1>1, <1>2, <1>3, <1>4
  <1>6. ASSUME NEW i \in 1..Len(pipe')
        PROVE  \/ pipe'[i] = Script[Consumed + i]
               \/ i = Len(pipe') /\ pipe'[i] \in {Rejected, Failed} /\ step' = Total + 1
    <2>1. CASE i \in 1..Len(pipe)
      BY <1>3, <1>4, <2>1
    <2>2. CASE i = Len(pipe) + 1
      BY <1>3, <1>5, <2>2
    <2> QED
      BY <1>3, <2>1, <2>2
  <1> QED
    BY <1>1, <1>5, <1>6

(* A child that keeps to the protocol writes what the parent will expect. *)
LEMMA ChildPipe == ASSUME Inv, Child PROVE PipeTrue'
  <1>1. TypeOK /\ PipeTrue /\ Total \in Nat /\ Len(Script) = Total
    BY WorkerConfiguration, ScriptFacts DEF Inv, Total
  <1>2. CASE ChildSteps
    <2>1. /\ step \in 1..Total /\ pipe' = Append(pipe, Script[step])
          /\ step' = step + 1 /\ faults' = faults /\ UNCHANGED parent
      BY <1>1, <1>2 DEF ChildSteps, ChildSends, TypeOK
    <2>2. Script[step] \in Messages
      BY <1>1, <2>1, ScriptFacts
    <2> QED
      BY <2>1, <2>2, PipeExtended
  <1>3. CASE ChildRaises
    <2>1. PICK m \in {Rejected, Failed} : pipe' = Append(pipe, m)
      BY <1>3 DEF ChildRaises, ChildSends
    <2>2. /\ step \in 1..Total /\ step' = Total + 1
          /\ faults' = faults /\ UNCHANGED parent
      BY <1>1, <1>3 DEF ChildRaises, TypeOK
    <2>3. m \in Messages
      BY DEF Messages
    <2> QED
      BY <2>1, <2>2, <2>3, PipeExtended
  <1>4. CASE ChildReturnsEarly \/ ChildMisbehaves
    <2>1. faults' # 0
      BY <1>1, <1>4, WorkerConfiguration DEF ChildReturnsEarly, ChildMisbehaves, TypeOK
    <2> QED
      BY <2>1 DEF PipeTrue
  <1>5. CASE \/ ChildExits \/ ChildCrashes \/ HelperStarts \/ HelperExits
             \/ SignalTakes
    <2>1. UNCHANGED <<parent, pipe, step, faults>>
      BY <1>5 DEF ChildExits, ChildCrashes, HelperStarts, HelperExits, SignalTakes
    <2> QED
      BY <1>1, <2>1 DEF PipeTrue, Consumed, Listening, parent
  <1> QED
    BY <1>2, <1>3, <1>4, <1>5 DEF Child

(* Whatever the child does keeps the invariant. *)
LEMMA ChildStep == ASSUME Inv, Child PROVE Inv'
  <1>1. /\ TypeOK /\ ChildFrame /\ ProgressTrue
        /\ WholeBatch /\ ObedientChildAccepted /\ GroupReclaimed
    BY ChildFrames DEF Inv
  <1>2. TypeOK' /\ PipeTrue'
    BY <1>1, ChildTypes, ChildPipe
  <1>3. ProgressTrue'
    <2>1. faults > 0 => faults' > 0
      BY <1>1, WorkerConfiguration DEF ChildFrame, TypeOK
    <2> QED
      BY <1>1, <2>1 DEF ProgressTrue, ChildFrame, Listening, parent
  <1>4. WholeBatch'
    BY <1>1 DEF WholeBatch, ChildFrame, parent
  <1>5. ObedientChildAccepted'
    BY <1>1, ScriptFacts DEF ObedientChildAccepted, ChildFrame, parent, TypeOK
  <1>6. GroupReclaimed'
    BY <1>1 DEF GroupReclaimed, ChildFrame, parent
  <1> QED
    BY <1>2, <1>3, <1>4, <1>5, <1>6 DEF Inv

-----------------------------------------------------------------------------
(* The parent gives up: it will stop the child, and blames the protocol only *)
(* if a message broke it.                                                    *)
LEMMA ParentRaises ==
    ASSUME Inv, phase' = "stopping", outcome' \in Outcomes \ {"none", "success"},
           outcome' = "worker_response_invalid" =>
               faults > 0 \/ (~groupReady /\ step > Len(Script)),
           pipe' \in Seq(Messages),
           UNCHANGED <<expected, results, inRecord, groupReady, child, signal, faults>>
    PROVE  Inv'
  <1>1. TypeOK'
    BY DEF Inv, TypeOK, child
  <1>2. ProgressTrue'
    BY DEF Inv, ProgressTrue, Listening
  <1>3. PipeTrue' /\ WholeBatch' /\ GroupReclaimed'
    BY DEF PipeTrue, Listening, WholeBatch, GroupReclaimed
  <1>4. ObedientChildAccepted'
    BY ScriptFacts DEF ObedientChildAccepted, child
  <1> QED
    BY <1>1, <1>2, <1>3, <1>4 DEF Inv

(* The deadlines, the pipe's end, and a child that does not leave in time. *)
LEMMA GivesUpStep == ASSUME Inv, Timeout \/ EndOfFile \/ ReapLate PROVE Inv'
  <1>1. pipe' \in Seq(Messages)
    BY DEF Inv, TypeOK, Timeout, EndOfFile, EndCodes, ReapLate
  <1>2. /\ phase' = "stopping"
        /\ UNCHANGED <<expected, results, inRecord, groupReady, child, signal, faults>>
    BY DEF Timeout, EndOfFile, ReapLate, Raise
  <1>3. outcome' \in {"worker_record_timeout", "worker_request_timeout",
                      "worker_response_missing", "worker_crashed",
                      "worker_cleanup_failed"}
    BY DEF Timeout, EndOfFile, EndCodes, ReapLate, Raise
  <1>4. /\ outcome' \in Outcomes \ {"none", "success"}
        /\ outcome' # "worker_response_invalid"
    BY <1>3 DEF Outcomes
  <1> QED
    BY <1>1, <1>2, <1>4, ParentRaises

(* A refused message of a child that kept to the protocol reports an error. *)
LEMMA RefusedStep == ASSUME Inv, ReceiveRefused PROVE Inv'
  <1>1. TypeOK /\ ProgressTrue /\ PipeTrue /\ phase = "reading" /\ pipe # <<>>
        /\ ~Acceptable(Head(pipe))
    BY DEF Inv, ReceiveRefused
  <1>2. pipe \in Seq(Messages) /\ pipe' = Tail(pipe)
    BY <1>1 DEF TypeOK, ReceiveRefused
  <1>3. /\ pipe' \in Seq(Messages) /\ 1 \in 1..Len(pipe) /\ Head(pipe) = pipe[1]
    BY <1>1, <1>2
  <1>4. /\ phase' = "stopping"
        /\ UNCHANGED <<expected, results, inRecord, groupReady, child, signal, faults>>
    BY DEF ReceiveRefused, Raise
  <1>5. outcome' \in {"registered_event_rejected", "worker_failed",
                      "worker_response_invalid"}
    BY DEF ReceiveRefused, Raise
  <1>6. ASSUME faults = 0, outcome' = "worker_response_invalid"
        PROVE  ~groupReady /\ step > Len(Script)
    <2>1. Consumed \in Nat /\ Acceptable(Script[Consumed + 1])
      BY <1>1, ScriptIsExpected
    <2>2. \/ pipe[1] = Script[Consumed + 1]
          \/ pipe[1] \in {Rejected, Failed} /\ step = Total + 1
      BY <1>1, <1>3, <1>6 DEF PipeTrue, Listening
    <2>3. Head(pipe) \in {Rejected, Failed} /\ step = Total + 1
      BY <1>1, <1>3, <2>1, <2>2
    <2>4. expected = "booted"
      BY <1>6, <2>3 DEF ReceiveRefused, Raise
    <2>5. Total \in Nat /\ Len(Script) = Total
      BY WorkerConfiguration, ScriptFacts DEF Total
    <2> QED
      BY <1>1, <2>3, <2>4, <2>5 DEF ProgressTrue
  <1>7. faults \in Nat
    BY <1>1, WorkerConfiguration DEF TypeOK
  <1> QED
    BY <1>3, <1>4, <1>5, <1>6, <1>7, ParentRaises DEF Outcomes

(* Only a child that broke the protocol leaves half a message behind. *)
LEMMA BlocksStep == ASSUME Inv, ReceiveBlocks PROVE Inv'
  <1>1. /\ TypeOK /\ ProgressTrue /\ PipeTrue /\ phase = "reading" /\ pipe # <<>>
        /\ Head(pipe) = Cut /\ outcome = "none"
        /\ pipe' = Tail(pipe) /\ phase' = "blocked"
        /\ UNCHANGED <<expected, results, inRecord, groupReady, outcome, child, signal,
                       faults>>
    BY DEF Inv, ReceiveBlocks, ProgressTrue, Listening
  <1>2. /\ pipe \in Seq(Messages) /\ pipe' \in Seq(Messages) /\ 1 \in 1..Len(pipe)
        /\ Head(pipe) = pipe[1]
    BY <1>1 DEF TypeOK
  <1>3. faults # 0
    <2> SUFFICES ASSUME faults = 0 PROVE FALSE
      OBVIOUS
    <2>1. Acceptable(Script[Consumed + 1])
      BY <1>1, ScriptIsExpected
    <2>3. ~Acceptable(Cut)
      BY <1>1 DEF Acceptable, Cut, Message, TypeOK, Kinds
    <2>2. Cut \notin {Rejected, Failed}
      BY DEF Cut, Rejected, Failed, Message
    <2> QED
      BY <1>1, <1>2, <2>1, <2>2, <2>3 DEF PipeTrue, Listening
  <1>4. faults > 0
    BY <1>1, <1>3, WorkerConfiguration DEF TypeOK
  <1>5. TypeOK'
    BY <1>1, <1>2 DEF TypeOK, child
  <1>6. ProgressTrue' /\ PipeTrue'
    BY <1>1, <1>4 DEF ProgressTrue, PipeTrue, Listening
  <1>7. WholeBatch' /\ ObedientChildAccepted' /\ GroupReclaimed'
    BY <1>1, <1>4 DEF WholeBatch, ObedientChildAccepted, GroupReclaimed
  <1> QED
    BY <1>5, <1>6, <1>7 DEF Inv

(* The rest of half a message comes, or the pipe ends. *)
LEMMA BlockedStep == ASSUME Inv, BlockedReceives \/ BlockedEnds PROVE Inv'
  <1>1. /\ TypeOK /\ ProgressTrue /\ phase = "blocked" /\ outcome = "none" /\ faults > 0
        /\ UNCHANGED <<expected, results, inRecord, groupReady, child, signal, faults>>
    BY DEF Inv, BlockedReceives, BlockedEnds, ProgressTrue
  <1>2. pipe' \in Seq(Messages)
    <2>1. pipe \in Seq(Messages)
      BY <1>1 DEF TypeOK
    <2>2. pipe' = pipe \/ (pipe # <<>> /\ pipe' = Tail(pipe))
      BY DEF BlockedReceives, BlockedEnds
    <2> QED
      BY <2>1, <2>2
  <1>3. CASE /\ phase' = "stopping"
             /\ outcome' \in {"worker_response_invalid", "worker_response_missing",
                              "worker_crashed"}
    BY <1>1, <1>2, <1>3, ParentRaises DEF Outcomes
  <1>4. CASE UNCHANGED <<phase, outcome>>
    <2>1. TypeOK'
      BY <1>1, <1>2, <1>4 DEF TypeOK, child
    <2>2. ProgressTrue' /\ PipeTrue'
      BY <1>1, <1>4 DEF ProgressTrue, PipeTrue, Listening
    <2>3. WholeBatch' /\ ObedientChildAccepted' /\ GroupReclaimed'
      BY <1>1, <1>4 DEF WholeBatch, ObedientChildAccepted, GroupReclaimed
    <2> QED
      BY <2>1, <2>2, <2>3 DEF Inv
  <1> QED
    BY <1>3, <1>4 DEF BlockedReceives, BlockedEnds, EndCodes, Raise

-----------------------------------------------------------------------------
(* An accepted message is the one the parent waited for. *)
LEMMA ReceiveStep == ASSUME Inv, Receive PROVE Inv'
  <1>1. TypeOK /\ ProgressTrue /\ PipeTrue /\ phase = "reading" /\ pipe # <<>>
        /\ Acceptable(Head(pipe))
    BY DEF Inv, Receive
  <1>2. Batch \in Nat /\ Batch >= 1 /\ Len(results) \in Nat /\ Total \in Nat
        /\ Total = 2 * Batch + 3
    BY <1>1, WorkerConfiguration DEF TypeOK, Total
  <1>3. /\ pipe \in Seq(Messages) /\ pipe' = Tail(pipe)
        /\ UNCHANGED <<outcome, child, signal, faults>>
        /\ groupReady' = TRUE /\ expected' = Following
        /\ phase' = IF expected = "complete" THEN "complete" ELSE "reading"
    BY <1>1 DEF TypeOK, Receive
  <1>4. /\ pipe' \in Seq(Messages) /\ Len(pipe') = Len(pipe) - 1 /\ Len(pipe) \in Nat
        /\ Len(pipe) >= 1
        /\ \A i \in 1..Len(pipe') : pipe'[i] = pipe[i + 1]
    BY <1>1, <1>3, HeadTailProperties
  <1>5. /\ results' \in Seq(1..Batch)
        /\ expected # "record_result" => results' = results
        /\ expected = "record_result" => /\ Len(results') = Len(results) + 1
                                         /\ \A i \in 1..Len(results) :
                                                results'[i] = results[i]
                                         /\ results'[Len(results) + 1] = Next1
    <2>1. CASE expected = "record_result"
      <3>1. Head(pipe) = Message("record_result", Next1, Next1)
        BY <1>1, <2>1 DEF Acceptable
      <3>2. results' = Append(results, Next1)
        BY <2>1, <3>1 DEF Receive, Message
      <3>3. Next1 \in 1..Batch /\ results \in Seq(1..Batch)
        BY <1>1, <1>2, <2>1 DEF ProgressTrue, Next1, TypeOK
      <3> QED
        BY <2>1, <3>2, <3>3, AppendProperties
    <2>2. CASE expected # "record_result"
      BY <1>1, <2>2 DEF Receive, TypeOK
    <2> QED
      BY <2>1, <2>2
  <1>6. /\ expected = "booted" => expected' = "prepared"
        /\ expected = "prepared" => expected' = "record_started"
        /\ expected = "record_started" => expected' = "record_result"
        /\ expected = "record_result" =>
               expected' = IF Next1 = Batch THEN "complete" ELSE "record_started"
        /\ expected = "complete" => expected' = "complete"
        /\ expected \in Kinds
    BY <1>1, <1>3 DEF Following, TypeOK
  <1>7. Len(results') \in Nat /\ Len(results') <= Batch
    BY <1>1, <1>2, <1>5 DEF ProgressTrue, TypeOK
  <1>8. TypeOK'
    <2>1. expected' \in Kinds /\ phase' \in {"reading", "complete"}
      BY <1>3, <1>6 DEF Kinds
    <2>2. inRecord' \in BOOLEAN /\ groupReady' \in BOOLEAN
      BY <1>3 DEF Receive
    <2> QED
      BY <1>1, <1>3, <1>4, <1>5, <1>7, <2>1, <2>2 DEF TypeOK, child
  <1>9. ProgressTrue'
    <2>1. \A i \in 1..Len(results') : results'[i] = i
      BY <1>1, <1>2, <1>5 DEF ProgressTrue, Next1
    <2>2. /\ expected' \in {"booted", "prepared"} => Len(results') = 0
          /\ expected' \in {"record_started", "record_result"} => Len(results') < Batch
          /\ expected' = "complete" => Len(results') = Batch
      BY <1>1, <1>2, <1>5, <1>6 DEF ProgressTrue, Next1, Kinds
    <2>3. expected' # "booted"
      BY <1>6 DEF Kinds
    <2>4. phase' = "complete" => expected' = "complete"
      BY <1>3, <1>6
    <2>5. phase' \notin {"spawning", "blocked"} /\ outcome' = "none"
      BY <1>1, <1>3 DEF ProgressTrue, Listening
    <2>6. groupReady' <=> expected' # "booted"
      BY <1>3, <2>3
    <2> QED
      BY <2>1, <2>2, <2>4, <2>5, <2>6 DEF ProgressTrue
  <1>10. Consumed' = Consumed + 1
    <2>1. CASE expected \in {"booted", "prepared", "record_started"}
      <3>1. results' = results
        BY <1>5, <2>1
      <3>2. CASE expected = "booted"
        BY <1>6, <3>2 DEF Consumed
      <3>3. CASE expected = "prepared"
        <4>1. Len(results) = 0
          BY <1>1, <3>3 DEF ProgressTrue
        <4>2. Consumed = 1 /\ Consumed' = 2 * Len(results') + 2
          BY <1>6, <3>3 DEF Consumed
        <4> QED
          BY <3>1, <4>1, <4>2
      <3>4. CASE expected = "record_started"
        <4>1. Consumed = 2 * Len(results) + 2 /\ Consumed' = 2 * Len(results') + 3
          BY <1>6, <3>4 DEF Consumed
        <4> QED
          BY <1>2, <3>1, <4>1
      <3> QED
        BY <2>1, <3>2, <3>3, <3>4
    <2>2. CASE expected = "record_result"
      <3>1. /\ Consumed = 2 * Len(results) + 3 /\ Len(results') = Next1
            /\ Next1 = Len(results) + 1 /\ phase' = "reading"
        BY <1>3, <1>5, <2>2 DEF Consumed, Next1
      <3>2. CASE Next1 = Batch
        <4>1. Consumed' = Total - 1
          BY <1>6, <2>2, <3>1, <3>2 DEF Consumed
        <4> QED
          BY <1>2, <3>1, <3>2, <4>1
      <3>3. CASE Next1 # Batch
        <4>1. Consumed' = 2 * Next1 + 2
          BY <1>6, <2>2, <3>1, <3>3 DEF Consumed
        <4> QED
          BY <1>2, <3>1, <4>1
      <3> QED
        BY <3>2, <3>3
    <2>3. CASE expected = "complete"
      <3>1. Consumed = Total - 1 /\ Consumed' = Total
        BY <1>1, <1>3, <1>6, <2>3 DEF Consumed
      <3> QED
        BY <1>2, <3>1
    <2> QED
      BY <1>6, <2>1, <2>2, <2>3 DEF Kinds
  <1>11. PipeTrue'
    <2> SUFFICES ASSUME faults = 0
                 PROVE  /\ Consumed' + Len(pipe') <= Total
                        /\ step <= Total => Consumed' + Len(pipe') = step - 1
                        /\ \A i \in 1..Len(pipe') :
                              \/ pipe'[i] = Script[Consumed' + i]
                              \/ /\ i = Len(pipe') /\ pipe'[i] \in {Rejected, Failed}
                                 /\ step = Total + 1
      BY <1>3 DEF PipeTrue, child
    <2>1. Consumed \in Nat
      BY <1>1, ScriptIsExpected
    <2>2. /\ Consumed + Len(pipe) <= Total
          /\ step <= Total => Consumed + Len(pipe) = step - 1
          /\ \A i \in 1..Len(pipe) :
                \/ pipe[i] = Script[Consumed + i]
                \/ i = Len(pipe) /\ pipe[i] \in {Rejected, Failed} /\ step = Total + 1
      BY <1>1 DEF PipeTrue, Listening
    <2>3. Consumed' + Len(pipe') = Consumed + Len(pipe)
      BY <1>4, <1>10, <2>1
    <2>4. ASSUME NEW i \in 1..Len(pipe')
          PROVE  \/ pipe'[i] = Script[Consumed' + i]
                 \/ /\ i = Len(pipe') /\ pipe'[i] \in {Rejected, Failed}
                    /\ step = Total + 1
      <3>1. /\ i + 1 \in 1..Len(pipe) /\ Consumed' + i = Consumed + (i + 1)
            /\ i + 1 = Len(pipe) => i = Len(pipe')
        BY <1>4, <1>10, <2>1
      <3> QED
        BY <1>4, <2>2, <3>1
    <2> QED
      BY <2>2, <2>3, <2>4
  <1>12. WholeBatch' /\ ObedientChildAccepted' /\ GroupReclaimed'
    <2>1. outcome' = "none" /\ phase' # "done"
      BY <1>1, <1>3 DEF ProgressTrue, Listening
    <2> QED
      BY <2>1 DEF WholeBatch, ObedientChildAccepted, GroupReclaimed
  <1> QED
    BY <1>8, <1>9, <1>11, <1>12 DEF Inv

-----------------------------------------------------------------------------
(* The child is spawned, or cannot be. *)
LEMMA SpawnStep == ASSUME Inv, Spawn \/ SpawnFails PROVE Inv'
  <1>1. /\ TypeOK /\ ProgressTrue /\ PipeTrue /\ phase = "spawning"
        /\ expected = "booted" /\ outcome = "none" /\ ~groupReady
    BY DEF Inv, ProgressTrue, Listening, Spawn, SpawnFails
  <1>2. CASE Spawn
    <2>1. TypeOK'
      BY <1>1, <1>2 DEF Spawn, TypeOK
    <2>2. ProgressTrue'
      BY <1>1, <1>2 DEF Spawn, ProgressTrue, Listening
    <2>3. PipeTrue'
      BY <1>1, <1>2 DEF Spawn, PipeTrue, Listening, Consumed
    <2>4. WholeBatch' /\ ObedientChildAccepted' /\ GroupReclaimed'
      BY <1>1, <1>2 DEF Spawn, WholeBatch, ObedientChildAccepted, GroupReclaimed
    <2> QED
      BY <2>1, <2>2, <2>3, <2>4 DEF Inv
  <1>3. CASE SpawnFails
    <2>1. TypeOK'
      BY <1>1, <1>3 DEF SpawnFails, TypeOK, Outcomes, child
    <2>2. ProgressTrue' /\ PipeTrue'
      BY <1>1, <1>3 DEF SpawnFails, ProgressTrue, PipeTrue, Listening
    <2>3. WholeBatch' /\ ObedientChildAccepted' /\ GroupReclaimed'
      BY <1>1, <1>3 DEF SpawnFails, WholeBatch, ObedientChildAccepted, GroupReclaimed
    <2> QED
      BY <2>1, <2>2, <2>3 DEF Inv
  <1> QED
    BY <1>2, <1>3

(* A complete batch is returned only from a child that left by itself. *)
LEMMA ReapStep == ASSUME Inv, ReapComplete PROVE Inv'
  <1>1. /\ TypeOK /\ ProgressTrue /\ PipeTrue /\ phase = "complete" /\ phase' = "done"
        /\ expected = "complete" /\ groupReady /\ Gone
        /\ UNCHANGED <<expected, results, inRecord, groupReady, pipe, child, signal,
                       faults>>
        /\ outcome' = IF leader = "crashed" THEN "worker_crashed"
                      ELSE IF pipe # <<>> THEN "worker_response_invalid" ELSE "success"
    BY DEF Inv, ReapComplete, ProgressTrue, Finish
  <1>2. leader \in {"exited", "crashed"} /\ ~helper
    BY <1>1 DEF Gone
  <1>3. TypeOK'
    BY <1>1 DEF TypeOK, Outcomes, child
  <1>4. ProgressTrue' /\ PipeTrue'
    BY <1>1 DEF ProgressTrue, PipeTrue, Listening
  <1>5. WholeBatch'
    <2>1. results = [i \in 1..Batch |-> i]
      <3>1. results \in Seq(1..Batch) /\ Len(results) = Batch
            /\ \A i \in 1..Len(results) : results[i] = i
        BY <1>1 DEF ProgressTrue, TypeOK
      <3> QED
        BY <3>1
    <2> QED
      BY <1>1, <1>2, <2>1 DEF WholeBatch, child
  <1>6. ObedientChildAccepted'
    <2> SUFFICES ASSUME outcome' = "worker_response_invalid", faults = 0 PROVE FALSE
      BY <1>1, WorkerConfiguration DEF ObedientChildAccepted, TypeOK
    <2>1. Consumed = Total /\ Total \in Nat
      BY <1>1, WorkerConfiguration DEF Consumed, Total
    <2>2. Len(pipe) = 0
      BY <1>1, <2>1 DEF PipeTrue, Listening, TypeOK
    <2> QED
      BY <1>1, <2>2 DEF TypeOK
  <1>7. GroupReclaimed'
    BY <1>1, <1>2 DEF GroupReclaimed, child
  <1> QED
    BY <1>3, <1>4, <1>5, <1>6, <1>7 DEF Inv

(* _stop ends with the group gone, or says that it is not. *)
LEMMA StopStep == ASSUME Inv, StopTerminate \/ StopKill \/ StopDone PROVE Inv'
  <1>1. /\ TypeOK /\ ProgressTrue /\ ObedientChildAccepted
        /\ phase \in {"stopping", "terminating", "killing"} /\ outcome # "success"
        /\ UNCHANGED <<expected, results, inRecord, groupReady, pipe, child, faults>>
    BY DEF Inv, ProgressTrue, StopTerminate, StopKill, StopDone
  <1>2. /\ phase' \in {"terminating", "killing", "done"}
        /\ outcome' \in {outcome, "worker_cleanup_failed"}
        /\ signal' \in {signal, "term", "kill"}
        /\ phase' = "done" /\ outcome' # "worker_cleanup_failed" => Gone
    BY DEF StopTerminate, StopKill, StopDone, Finish
  <1>3. TypeOK'
    BY <1>1, <1>2 DEF TypeOK, Outcomes, child
  <1>4. ProgressTrue' /\ PipeTrue'
    BY <1>1, <1>2 DEF ProgressTrue, PipeTrue, Listening
  <1>5. WholeBatch' /\ ObedientChildAccepted'
    BY <1>1, <1>2, ScriptFacts DEF WholeBatch, ObedientChildAccepted, child
  <1>6. GroupReclaimed'
    BY <1>1, <1>2 DEF GroupReclaimed, Gone, child
  <1> QED
    BY <1>3, <1>4, <1>5, <1>6 DEF Inv

-----------------------------------------------------------------------------
(* The invariant holds before the child is spawned. *)
LEMMA InvInit == Init => Inv
  <1> SUFFICES ASSUME Init PROVE Inv
    OBVIOUS
  <1>1. Batch \in Nat /\ MaxFaults \in Nat /\ Len(Script) = Total /\ Total \in Nat
    BY WorkerConfiguration, ScriptFacts DEF Total
  <1>2. TypeOK
    <2>1. <<>> \in Seq(1..Batch) /\ Len(<<>>) = 0 /\ <<>> \in Seq(Messages)
      OBVIOUS
    <2>2. outcome \in Outcomes /\ expected \in Kinds
      BY DEF Init, Outcomes, Kinds
    <2>3. step \in 1..(Len(Script) + 1) /\ faults \in 0..MaxFaults
      BY <1>1 DEF Init
    <2>4. /\ results \in Seq(1..Batch) /\ Len(results) <= Batch
          /\ pipe \in Seq(Messages)
      BY <1>1, <2>1 DEF Init
    <2> QED
      BY <2>2, <2>3, <2>4 DEF Init, TypeOK
  <1>3. ProgressTrue
    BY <1>1 DEF Init, ProgressTrue, Listening
  <1>4. PipeTrue
    BY <1>1 DEF Init, PipeTrue, Consumed, Total
  <1> QED
    BY <1>2, <1>3, <1>4
       DEF Init, Inv, WholeBatch, ObedientChildAccepted, GroupReclaimed

(* Every step of the parent and of the child's group keeps it. *)
LEMMA InvStep == Inv /\ [Next]_vars => Inv'
  <1> SUFFICES ASSUME Inv, [Next]_vars PROVE Inv'
    OBVIOUS
  <1>1. CASE UNCHANGED vars
    <2>1. TypeOK' /\ ProgressTrue'
      BY <1>1 DEF Inv, TypeOK, ProgressTrue, Listening, vars, parent, child
    <2>2. PipeTrue'
      BY <1>1 DEF Inv, PipeTrue, Listening, Consumed, vars, parent, child
    <2>3. WholeBatch' /\ ObedientChildAccepted' /\ GroupReclaimed'
      BY <1>1 DEF Inv, WholeBatch, ObedientChildAccepted, GroupReclaimed, vars,
                  parent, child
    <2> QED
      BY <2>1, <2>2, <2>3 DEF Inv
  <1>2. CASE Parent
    BY <1>2, SpawnStep, GivesUpStep, ReceiveStep, RefusedStep, BlocksStep, BlockedStep,
       ReapStep, StopStep DEF Parent
  <1> QED
    BY <1>1, <1>2, ChildStep, BlockedStep DEF Next

(* What the parent waits for, the results it has and the messages in the     *)
(* pipe fit together as long as the child keeps to the protocol.             *)
THEOREM InvHolds == Spec => []Inv
  BY InvInit, InvStep, PTL DEF Spec

(* execute() returns results only for the whole batch, in order, bound to    *)
(* the requested records, from a child that exited cleanly with its group;   *)
(* it never takes an obedient child for a broken one; and it leaves no       *)
(* process of a known group behind without saying so.                        *)
THEOREM ExecutionIsSound == Spec => []ExecutionSound
  <1>1. Inv => ExecutionSound
    BY DEF Inv, ExecutionSound
  <1> QED
    BY <1>1, InvHolds, PTL

-----------------------------------------------------------------------------
(* The replay journal.                                                     *)

(* The fields of a freshly inserted row. *)
LEMMA NewRowFields ==
    ASSUME NEW g \in Generations, NEW record \in ReplayRecords, NEW token \in Nat
    PROVE  LET row == NewRow(g, record, token)
           IN  /\ row \in Rows
               /\ row.request_id = record.request_id
               /\ row.nonce = record.nonce /\ row.body = record.body
               /\ row.correlation = record.correlation
               /\ row.state = "in_progress" /\ row.generation = g
               /\ row.token = token /\ row.response = NoResponse
  BY DEF NewRow, Rows, ReplayRecords, States

(* A completion changes the state, the token and the response only. *)
LEMMA CompletedRowFields ==
    ASSUME NEW row \in Rows, NEW response \in Responses
    PROVE  LET next == CompletedRow(row, response)
           IN  /\ next \in Rows
               /\ next.request_id = row.request_id
               /\ next.nonce = row.nonce /\ next.body = row.body
               /\ next.correlation = row.correlation
               /\ next.state = "completed" /\ next.generation = row.generation
               /\ next.token = NoClaimToken /\ next.response = response
  BY DEF CompletedRow, Rows, States, NoClaimToken

(* A recovery changes the state and the token only. *)
LEMMA UnknownRowFields ==
    ASSUME NEW row \in Rows
    PROVE  LET next == UnknownRow(row)
           IN  /\ next \in Rows
               /\ next.request_id = row.request_id
               /\ next.nonce = row.nonce /\ next.body = row.body
               /\ next.correlation = row.correlation
               /\ next.state = "outcome_unknown"
               /\ next.generation = row.generation
               /\ next.token = NoClaimToken /\ next.response = row.response
  BY DEF UnknownRow, Rows, States, NoClaimToken

-----------------------------------------------------------------------------
(* The three ways a transaction changes the table. *)
Inserts(g, record) ==
    /\ g \in Generations /\ record \in ReplayRecords
    /\ ExistingRows(record) = {}
    /\ rows' = rows \cup {NewRow(g, record, tokens + 1)}
    /\ tokens' = tokens + 1

Settle(row, response) ==
    /\ row \in rows /\ row.state = "in_progress"
    /\ response \in Responses /\ response.correlation = row.correlation
    /\ rows' = (rows \ {row}) \cup {CompletedRow(row, response)}

GivesUp(a) ==
    rows' = (rows \ Abandoned(a)) \cup {UnknownRow(row) : row \in Abandoned(a)}

(* Every step changes the table in one of them, or not at all. *)
LEMMA TableSteps ==
    ASSUME [JournalNext]_journalVars
    PROVE  \/ rows' = rows
           \/ \E g \in Generations, record \in ReplayRecords : Inserts(g, record)
           \/ \E row \in rows, response \in Responses : Settle(row, response)
           \/ \E a \in Generations : GivesUp(a)
  <1>1. CASE UNCHANGED journalVars
    BY <1>1 DEF journalVars
  <1>2. ASSUME NEW g \in Generations, NEW record \in ReplayRecords,
               ClaimNew(g, record) \/ ClaimUncertain(g, record)
        PROVE  rows' = rows \/ Inserts(g, record)
    BY <1>2 DEF ClaimNew, ClaimUncertain, Inserts, DrawToken
  <1>3. ASSUME NEW record \in ReplayRecords,
               \/ ClaimActive(record) \/ ClaimCached(record)
               \/ ClaimUnknown(record) \/ ClaimRejected(record)
        PROVE  rows' = rows
    BY <1>3 DEF ClaimActive, ClaimCached, ClaimUnknown, ClaimRejected
  <1>4. ASSUME NEW g \in Generations, NEW claim \in granted,
               NEW response \in Responses, Complete(g, claim, response)
        PROVE  \E row \in rows : Settle(row, response)
    BY <1>4 DEF Complete, Settles, Settle
  <1>5. ASSUME NEW g \in Generations, NEW claim \in granted,
               NEW response \in Responses, CompleteRefused(g, claim, response)
        PROVE  rows' = rows
    BY <1>5 DEF CompleteRefused
  <1>6. ASSUME NEW g \in Generations, NEW a \in Generations,
               RecoverAbandonedGeneration(g, a)
        PROVE  GivesUp(a)
    BY <1>6 DEF RecoverAbandonedGeneration, GivesUp
  <1>7. ASSUME NEW g \in Generations, RecoverRefused(g) PROVE rows' = rows
    BY <1>7 DEF RecoverRefused
  <1>8. CASE CallFails
    BY <1>8 DEF CallFails
  <1> QED
    BY <1>1, <1>2, <1>3, <1>4, <1>5, <1>6, <1>7, <1>8 DEF JournalNext

(* What a caller keeps changes only with claim(). *)
LEMMA CallerSteps ==
    ASSUME [JournalNext]_journalVars
    PROVE  \/ UNCHANGED <<tokens, granted>>
           \/ tokens' = tokens + 1 /\ granted' = granted
           \/ \E g \in Generations, record \in ReplayRecords : ClaimNew(g, record)
  BY DEF JournalNext, journalVars, ClaimNew, ClaimUncertain, ClaimActive, ClaimCached,
         ClaimUnknown, ClaimRejected, Complete, CompleteRefused, CallFails,
         RecoverAbandonedGeneration, RecoverRefused, DrawToken

(* A step keeps the types. *)
LEMMA TypeStep == JournalTypes /\ RowShape /\ [JournalNext]_journalVars => JournalTypes'
  <1> SUFFICES ASSUME JournalTypes, RowShape, [JournalNext]_journalVars PROVE JournalTypes'
    OBVIOUS
  <1>1. rows' \subseteq Rows
    <2>1. ASSUME NEW g \in Generations, NEW record \in ReplayRecords,
                 Inserts(g, record)
          PROVE  rows' \subseteq Rows
      BY <2>1, NewRowFields DEF Inserts, JournalTypes
    <2>2. ASSUME NEW row \in rows, NEW response \in Responses,
                 Settle(row, response)
          PROVE  rows' \subseteq Rows
      BY <2>2, CompletedRowFields DEF Settle, JournalTypes
    <2>3. ASSUME NEW a \in Generations, GivesUp(a) PROVE rows' \subseteq Rows
      BY <2>3, UnknownRowFields DEF GivesUp, Abandoned, JournalTypes
    <2> QED BY <2>1, <2>2, <2>3, TableSteps DEF JournalTypes
  <1>2. tokens' \in Nat /\ granted' \subseteq Claims
    BY CallerSteps DEF JournalTypes, ClaimNew, DrawToken, Claims, ReplayRecords
  <1> DEFINE Served == [evidence : RequestIds \X Nonces \X Bodies,
                        response : Responses]
  <1>3. served' \subseteq Served
    <2>1. ASSUME NEW record \in ReplayRecords, ClaimCached(record)
          PROVE  served' \subseteq Served
      <3>1. PICK row \in rows :
                /\ row.state = "completed"
                /\ served' = served \cup {[evidence |-> Evidence(record),
                                           response |-> row.response]}
        BY <2>1 DEF ClaimCached
      <3>2. row.response \in Responses
        BY <3>1 DEF RowShape, JournalTypes, Rows
      <3>3. Evidence(record) \in RequestIds \X Nonces \X Bodies
        BY DEF Evidence, ReplayRecords
      <3> QED BY <3>1, <3>2, <3>3 DEF JournalTypes
    <2>2. UNCHANGED served \/ \E record \in ReplayRecords : ClaimCached(record)
      BY DEF JournalNext, journalVars, ClaimNew, ClaimUncertain, ClaimActive,
         ClaimUnknown, ClaimRejected, Complete, CompleteRefused, CallFails,
         RecoverAbandonedGeneration, RecoverRefused
    <2> QED BY <2>1, <2>2 DEF JournalTypes
  <1>4. reply' \in Replies
    BY DEF JournalNext, journalVars, ClaimNew, ClaimUncertain, ClaimActive, ClaimCached,
         ClaimUnknown, ClaimRejected, Complete, CompleteRefused, CallFails,
         RecoverAbandonedGeneration, RecoverRefused, Replies, JournalTypes
  <1> QED BY <1>1, <1>2, <1>3, <1>4 DEF JournalTypes

(* A step keeps the shape of a row to its state. *)
LEMMA ShapeStep == JournalTypes /\ RowShape /\ [JournalNext]_journalVars => RowShape'
  <1> SUFFICES ASSUME JournalTypes, RowShape, [JournalNext]_journalVars PROVE RowShape'
    OBVIOUS
  <1>1. tokens' \in Nat /\ tokens <= tokens'
    BY CallerSteps DEF ClaimNew, DrawToken, JournalTypes
  <1>2. ASSUME NEW g \in Generations, NEW record \in ReplayRecords,
               Inserts(g, record)
        PROVE  RowShape'
    <2>1. /\ NewRow(g, record, tokens + 1).state = "in_progress"
          /\ NewRow(g, record, tokens + 1).token = tokens + 1
          /\ NewRow(g, record, tokens + 1).response = NoResponse
      BY NewRowFields DEF JournalTypes
    <2> QED BY <1>1, <1>2, <2>1 DEF Inserts, RowShape, JournalTypes, Rows, NoClaimToken
  <1>3. ASSUME NEW row \in rows, NEW response \in Responses,
               Settle(row, response)
        PROVE  RowShape'
    <2>1. response # NoResponse
      BY JournalConfiguration
    <2> QED BY <1>1, <1>3, <2>1, CompletedRowFields
            DEF Settle, RowShape, JournalTypes, Rows, NoClaimToken
  <1>4. ASSUME NEW a \in Generations, GivesUp(a) PROVE RowShape'
    <2> SUFFICES ASSUME NEW row \in Abandoned(a)
                 PROVE  /\ UnknownRow(row).state = "outcome_unknown"
                        /\ UnknownRow(row).token = NoClaimToken
                        /\ UnknownRow(row).response = NoResponse
      BY <1>1, <1>4 DEF GivesUp, RowShape, JournalTypes, Rows, NoClaimToken
    <2> QED BY UnknownRowFields DEF Abandoned, RowShape, JournalTypes
  <1>5. CASE rows' = rows
    BY <1>1, <1>5 DEF RowShape, JournalTypes, Rows
  <1> QED BY <1>2, <1>3, <1>4, <1>5, TableSteps

-----------------------------------------------------------------------------
(* Rows keep their evidence, so only an insert can break uniqueness, and it *)
(* looked for both keys first.                                              *)
LEMMA UniqueStep == JournalTypes /\ UniqueEvidence /\ [JournalNext]_journalVars => UniqueEvidence'
  <1> SUFFICES ASSUME JournalTypes, UniqueEvidence, [JournalNext]_journalVars PROVE UniqueEvidence'
    OBVIOUS
  <1>1. ASSUME NEW g \in Generations, NEW record \in ReplayRecords,
               Inserts(g, record)
        PROVE  UniqueEvidence'
    <2> DEFINE new == NewRow(g, record, tokens + 1)
    <2>1. new.request_id = record.request_id /\ new.nonce = record.nonce
      BY NewRowFields DEF JournalTypes
    <2>2. \A row \in rows : /\ row.request_id # new.request_id
                            /\ row.nonce # new.nonce
      BY <1>1, <2>1 DEF Inserts, ExistingRows
    <2> HIDE DEF new
    <2>3. rows' = rows \cup {new}
      BY <1>1 DEF Inserts, new
    <2> QED BY <2>2, <2>3 DEF UniqueEvidence
  <1>2. ASSUME NEW row \in rows, NEW response \in Responses,
               Settle(row, response)
        PROVE  UniqueEvidence'
    <2> DEFINE new == CompletedRow(row, response)
    <2>1. new.request_id = row.request_id /\ new.nonce = row.nonce
      BY CompletedRowFields DEF JournalTypes
    <2> HIDE DEF new
    <2>2. rows' = (rows \ {row}) \cup {new}
      BY <1>2 DEF Settle, new
    <2> QED BY <2>1, <2>2 DEF UniqueEvidence
  <1>3. ASSUME NEW a \in Generations, GivesUp(a) PROVE UniqueEvidence'
    <2>1. \A row \in rows : /\ UnknownRow(row).request_id = row.request_id
                            /\ UnknownRow(row).nonce = row.nonce
      BY UnknownRowFields DEF JournalTypes
    <2> QED BY <1>3, <2>1 DEF GivesUp, Abandoned, UniqueEvidence
  <1>4. CASE rows' = rows
    BY <1>4 DEF UniqueEvidence
  <1> QED BY <1>1, <1>2, <1>3, <1>4, TableSteps

(* A row of a request id is never lost, and a terminal one never changes.   *)
LEMMA RowsPersist ==
    ASSUME JournalTypes, [JournalNext]_journalVars, NEW row \in rows
    PROVE  /\ row.state # "in_progress" => row \in rows'
           /\ \E next \in rows' :
                 /\ next.request_id = row.request_id
                 /\ next.nonce = row.nonce /\ next.body = row.body
                 /\ next.correlation = row.correlation
                 /\ next.generation = row.generation
  <1>1. ASSUME NEW g \in Generations, NEW record \in ReplayRecords,
               Inserts(g, record)
        PROVE  row \in rows'
    BY <1>1 DEF Inserts
  <1>2. ASSUME NEW r \in rows, NEW response \in Responses,
               Settle(r, response), r # row
        PROVE  row \in rows'
    BY <1>2 DEF Settle
  <1>3. ASSUME NEW response \in Responses, Settle(row, response)
        PROVE  row.state = "in_progress" /\ CompletedRow(row, response) \in rows'
    BY <1>3 DEF Settle
  <1>4. ASSUME NEW a \in Generations, GivesUp(a)
        PROVE  \/ row \in rows'
               \/ row.state = "in_progress" /\ UnknownRow(row) \in rows'
    BY <1>4 DEF GivesUp, Abandoned
  <1>5. row \in Rows
    BY DEF JournalTypes
  <1> QED
    BY <1>1, <1>2, <1>3, <1>4, <1>5, TableSteps, CompletedRowFields,
       UnknownRowFields

(* Only a fresh row adds an in_progress one. *)
LEMMA ActiveRowsOld ==
    ASSUME JournalTypes, [JournalNext]_journalVars, NEW next \in rows', next.state = "in_progress"
    PROVE  \/ next \in rows
           \/ \E g \in Generations, record \in ReplayRecords :
                 Inserts(g, record) /\ next = NewRow(g, record, tokens + 1)
  <1>1. ASSUME NEW row \in rows, NEW response \in Responses,
               Settle(row, response)
        PROVE  next \in rows
    BY <1>1, CompletedRowFields DEF Settle, JournalTypes
  <1>2. ASSUME NEW a \in Generations, GivesUp(a) PROVE next \in rows
    BY <1>2, UnknownRowFields DEF GivesUp, Abandoned, JournalTypes
  <1>3. ASSUME NEW g \in Generations, NEW record \in ReplayRecords,
               Inserts(g, record)
        PROVE  next \in rows \/ next = NewRow(g, record, tokens + 1)
    BY <1>3 DEF Inserts
  <1> QED BY <1>1, <1>2, <1>3, TableSteps

(* A step grants no request a second time. *)
LEMMA GrantStep == JournalTypes /\ SingleGrant /\ [JournalNext]_journalVars => SingleGrant'
  <1> SUFFICES ASSUME JournalTypes, SingleGrant, [JournalNext]_journalVars PROVE SingleGrant'
    OBVIOUS
  <1>1. ASSUME NEW c \in granted
        PROVE  \E row \in rows' : row.request_id = c.request_id
    BY RowsPersist DEF SingleGrant
  <1>2. ASSUME NEW g \in Generations, NEW record \in ReplayRecords,
               ClaimNew(g, record)
        PROVE  SingleGrant'
    <2> DEFINE c == [request_id |-> record.request_id, generation |-> g,
                     token |-> tokens + 1]
    <2>1. granted' = granted \cup {c}
      BY <1>2 DEF ClaimNew
    <2>2. \A d \in granted : d.request_id # record.request_id
      BY <1>2 DEF ClaimNew, ExistingRows, SingleGrant
    <2>3. \E row \in rows' : row.request_id = record.request_id
      <3>1. NewRow(g, record, tokens + 1).request_id = record.request_id
        BY NewRowFields DEF JournalTypes
      <3> QED BY <1>2, <3>1 DEF ClaimNew
    <2>4. c.request_id = record.request_id
      OBVIOUS
    <2> HIDE DEF c
    <2> QED BY <1>1, <2>1, <2>2, <2>3, <2>4 DEF SingleGrant
  <1>3. CASE granted' = granted
    BY <1>1, <1>3 DEF SingleGrant
  <1> QED BY <1>2, <1>3, CallerSteps

(* The row in progress of a grant carries its token and its generation. *)
LEMMA OwnerStep ==
    ASSUME JournalTypes, SingleGrant, ActiveOwner, [JournalNext]_journalVars
    PROVE  ActiveOwner'
  <1> SUFFICES ASSUME NEW c \in granted', NEW next \in rows',
                      next.state = "in_progress",
                      next.request_id = c.request_id
               PROVE  next.token = c.token /\ next.generation = c.generation
    BY DEF ActiveOwner
  <1>1. CASE next \in rows /\ c \in granted
    BY <1>1 DEF ActiveOwner
  <1>2. ASSUME NEW g \in Generations, NEW record \in ReplayRecords,
               Inserts(g, record), next = NewRow(g, record, tokens + 1)
        PROVE  c \notin granted
    <2>1. next.request_id = record.request_id
      BY <1>2, NewRowFields DEF JournalTypes
    <2> QED BY <1>2, <2>1 DEF Inserts, ExistingRows, SingleGrant
  <1>3. ASSUME c \notin granted
        PROVE  next.token = c.token /\ next.generation = c.generation
    <2>1. PICK g \in Generations, record \in ReplayRecords : ClaimNew(g, record)
      BY <1>3, CallerSteps
    <2>2. c = [request_id |-> record.request_id, generation |-> g,
               token |-> tokens + 1]
      BY <1>3, <2>1 DEF ClaimNew
    <2>3. next \in rows => next.request_id # record.request_id
      BY <2>1 DEF ClaimNew, ExistingRows
    <2>4. next = NewRow(g, record, tokens + 1)
      BY <2>1, <2>2, <2>3 DEF ClaimNew
    <2> QED BY <2>2, <2>4, NewRowFields DEF JournalTypes
  <1> QED BY <1>1, <1>2, <1>3, ActiveRowsOld

(* The journal invariant: each part is preserved from the parts it needs.   *)
JournalInv ==
    JournalTypes /\ RowShape /\ UniqueEvidence /\ SingleGrant /\ ActiveOwner

(* The invariants of the journal together. *)
LEMMA JournalInvariant == JournalSpec => []JournalInv
  <1>1. JournalInit => JournalInv
    BY DEF JournalInit, JournalInv, JournalTypes, RowShape, UniqueEvidence, SingleGrant,
           ActiveOwner, Replies
  <1>2. JournalInv /\ [JournalNext]_journalVars => JournalInv'
    BY TypeStep, ShapeStep, UniqueStep, GrantStep, OwnerStep DEF JournalInv
  <1> QED BY <1>1, <1>2, PTL DEF JournalSpec

(* The table, the claims and the cached responses keep their types.         *)
THEOREM JournalTypeCorrect == JournalSpec => []JournalTypes
  <1>1. JournalInv => JournalTypes
    BY DEF JournalInv
  <1> QED BY <1>1, JournalInvariant, PTL

(* No two rows share a request id or a nonce (_existing_rows).              *)
THEOREM EvidenceIsUnique == JournalSpec => []UniqueEvidence
  <1>1. JournalInv => UniqueEvidence
    BY DEF JournalInv
  <1> QED BY <1>1, JournalInvariant, PTL

(* claim() hands out at most one ownership token for a request id, over all *)
(* generations, failures, completions and recoveries.                       *)
THEOREM GrantIsSingle == JournalSpec => []SingleGrant
  <1>1. JournalInv => SingleGrant
    BY DEF JournalInv
  <1> QED BY <1>1, JournalInvariant, PTL

(* Only the claimant that was given an active row's token can settle it.    *)
THEOREM OwnerIsClaimant == JournalSpec => []ActiveOwner
  <1>1. JournalInv => ActiveOwner
    BY DEF JournalInv
  <1> QED BY <1>1, JournalInvariant, PTL

(* A completed or outcome_unknown row stays as it is: a completion that     *)
(* arrives after the recovery of its generation changes nothing.            *)
THEOREM TerminalRowsStay == JournalSpec => TerminalForever
  <1>1. JournalInv /\ [JournalNext]_journalVars =>
          [\A row \in rows :
              /\ row.state # "in_progress" => row \in rows'
              /\ \E next \in rows' : /\ Evidence(next) = Evidence(row)
                                     /\ next.correlation = row.correlation
                                     /\ next.generation = row.generation]_journalVars
    BY RowsPersist DEF JournalInv, Evidence
  <1> QED BY <1>1, JournalInvariant, PTL DEF JournalSpec, TerminalForever

-----------------------------------------------------------------------------
(* A response served from the journal stays that of a completed row. *)
LEMMA CachedStep ==
    ASSUME JournalTypes, CachedResponseStable, [JournalNext]_journalVars
    PROVE  CachedResponseStable'
  <1> SUFFICES ASSUME NEW s \in served'
               PROVE  \E row \in rows' : /\ row.state = "completed"
                                         /\ Evidence(row) = s.evidence
                                         /\ row.response = s.response
    BY DEF CachedResponseStable
  <1>1. CASE s \in served
    <2>1. PICK row \in rows : /\ row.state = "completed"
                              /\ Evidence(row) = s.evidence
                              /\ row.response = s.response
      BY <1>1 DEF CachedResponseStable
    <2>2. row \in rows'
      BY <2>1, RowsPersist
    <2> QED BY <2>1, <2>2
  <1>2. CASE s \notin served
    <2>1. PICK record \in ReplayRecords : ClaimCached(record)
      BY <1>2 DEF JournalNext, journalVars, ClaimNew, ClaimUncertain, ClaimActive,
         ClaimUnknown, ClaimRejected, Complete, CompleteRefused, CallFails,
         RecoverAbandonedGeneration, RecoverRefused
    <2>2. PICK row \in rows :
              /\ row.state = "completed" /\ Evidence(row) = Evidence(record)
              /\ s = [evidence |-> Evidence(record), response |-> row.response]
      BY <1>2, <2>1 DEF ClaimCached, KnownRow
    <2>3. rows' = rows
      BY <2>1 DEF ClaimCached
    <2> QED BY <2>2, <2>3
  <1> QED BY <1>1, <1>2

(* Every retry that gets a cached response gets the one the table holds for *)
(* exactly its evidence (claim, _completed_response).                       *)
THEOREM CachedResponsesStay == JournalSpec => []CachedResponseStable
  <1>1. JournalInit => CachedResponseStable
    BY DEF JournalInit, CachedResponseStable
  <1>2. JournalInv /\ CachedResponseStable /\ [JournalNext]_journalVars
            => CachedResponseStable'
    BY CachedStep DEF JournalInv
  <1> QED BY <1>1, <1>2, JournalInvariant, PTL DEF JournalSpec

-----------------------------------------------------------------------------
(* The ledger entry of a request id is read off its only row. *)
LEMMA EntryOfRow ==
    ASSUME UniqueEvidence, NEW row \in rows
    PROVE  LedgerEntry(row.request_id)
               = [state |-> row.state, response |-> row.response]
  BY DEF UniqueEvidence, LedgerEntry

(* The same after a step. *)
LEMMA EntryOfNewRow ==
    ASSUME UniqueEvidence', NEW row \in rows'
    PROVE  LedgerEntry(row.request_id)'
               = [state |-> row.state, response |-> row.response]
  BY DEF UniqueEvidence, LedgerEntry

(* A request id whose rows did not change keeps its entry. *)
LEMMA EntryUnchanged ==
    ASSUME UniqueEvidence, UniqueEvidence', NEW q \in RequestIds,
           {row \in rows : row.request_id = q}
               = {row \in rows' : row.request_id = q}
    PROVE  LedgerEntry(q)' = LedgerEntry(q)
  <1>1. CASE \E row \in rows : row.request_id = q
    <2>1. PICK row \in rows : row.request_id = q
      BY <1>1
    <2>2. row \in rows'
      BY <2>1
    <2> QED BY <2>1, <2>2, EntryOfRow, EntryOfNewRow
  <1>2. CASE ~ \E row \in rows : row.request_id = q
    <2>1. ~ \E row \in rows' : row.request_id = q
      BY <1>2
    <2> QED BY <1>2, <2>1 DEF LedgerEntry
  <1> QED BY <1>1, <1>2

(* What claim(), complete() and recover_abandoned_generation() leave behind  *)
(* is sound for every request, retry, clash, failure and recovery: one row   *)
(* and one grant per request, and one cached response.                       *)
THEOREM EvidenceIsSound == JournalSpec => []EvidenceSound
  <1>1. UniqueEvidence /\ SingleGrant /\ CachedResponseStable => EvidenceSound
    BY DEF EvidenceSound
  <1> QED BY <1>1, EvidenceIsUnique, GrantIsSingle, CachedResponsesStay, PTL

(* The journal implements the replay ledger: an insert claims, a settled    *)
(* row completes, a recovery abandons, and every other call stutters.       *)
THEOREM JournalImplementsLedger == JournalSpec => LedgerRefinement
  <1> DEFINE map == [q \in RequestIds |-> LedgerEntry(q)]
  <1>1. JournalInit => Ledger!Init
    BY DEF JournalInit, Ledger!Init, Ledger!Absent, LedgerEntry
  <1>2. ASSUME JournalInv, JournalInv', [JournalNext]_journalVars
        PROVE  [Ledger!Next]_map
    <2> USE DEF JournalInv
    <2>1. ASSUME NEW g \in Generations, NEW record \in ReplayRecords,
                 Inserts(g, record)
          PROVE  Ledger!Claim(record.request_id)
      <3> DEFINE q == record.request_id  new == NewRow(g, record, tokens + 1)
      <3>1. /\ q \in RequestIds /\ new.request_id = q
            /\ new.state = "in_progress" /\ new.response = NoResponse
        BY <1>2, NewRowFields DEF JournalTypes, ReplayRecords
      <3>2. rows' = rows \cup {new}
        BY <2>1 DEF Inserts
      <3> HIDE DEF new
      <3>3. LedgerEntry(q) = Ledger!Absent
        BY <2>1 DEF Inserts, ExistingRows, LedgerEntry, Ledger!Absent
      <3>4. LedgerEntry(q)' = Ledger!InProgress
        BY <1>2, <3>1, <3>2, EntryOfNewRow DEF Ledger!InProgress
      <3>5. ASSUME NEW p \in RequestIds, p # q
            PROVE  LedgerEntry(p)' = LedgerEntry(p)
        BY <1>2, <3>1, <3>2, <3>5, EntryUnchanged
      <3> QED BY <3>1, <3>3, <3>4, <3>5 DEF Ledger!Claim
    <2>2. ASSUME NEW row \in rows, NEW response \in Responses,
                 Settle(row, response)
          PROVE  Ledger!Complete(row.request_id, response)
      <3> DEFINE q == row.request_id  new == CompletedRow(row, response)
      <3>1. /\ q \in RequestIds /\ new.request_id = q
            /\ new.state = "completed" /\ new.response = response
        BY <1>2, CompletedRowFields DEF JournalTypes, Rows
      <3>2. rows' = (rows \ {row}) \cup {new}
        BY <2>2 DEF Settle
      <3> HIDE DEF new
      <3>3. LedgerEntry(q) = Ledger!InProgress
        <4>1. row.state = "in_progress" /\ row.response = NoResponse
          BY <1>2, <2>2 DEF Settle, RowShape
        <4> QED BY <1>2, <4>1, EntryOfRow DEF Ledger!InProgress
      <3>4. LedgerEntry(q)' = Ledger!Completed(response)
        BY <1>2, <3>1, <3>2, EntryOfNewRow DEF Ledger!Completed
      <3>5. ASSUME NEW p \in RequestIds, p # q
            PROVE  LedgerEntry(p)' = LedgerEntry(p)
        BY <1>2, <3>1, <3>2, <3>5, EntryUnchanged
      <3> QED BY <3>1, <3>3, <3>4, <3>5 DEF Ledger!Complete
    <2>3. ASSUME NEW a \in Generations, GivesUp(a)
          PROVE  \E R \in SUBSET RequestIds : Ledger!Abandon(R)
      <3> DEFINE R == {row.request_id : row \in Abandoned(a)}
      <3>1. R \in SUBSET RequestIds
        BY <1>2 DEF Abandoned, JournalTypes, Rows
      <3>2. ASSUME NEW row \in Abandoned(a)
            PROVE  /\ LedgerEntry(row.request_id) = Ledger!InProgress
                   /\ LedgerEntry(row.request_id)' = Ledger!OutcomeUnknown
        <4>1. /\ row \in rows /\ row \in Rows
              /\ row.state = "in_progress" /\ row.response = NoResponse
          BY <1>2, <3>2 DEF Abandoned, RowShape, JournalTypes
        <4>2. /\ UnknownRow(row) \in rows'
              /\ UnknownRow(row).request_id = row.request_id
              /\ UnknownRow(row).state = "outcome_unknown"
              /\ UnknownRow(row).response = NoResponse
          BY <2>3, <3>2, <4>1, UnknownRowFields DEF GivesUp
        <4>3. LedgerEntry(row.request_id) = Ledger!InProgress
          BY <1>2, <4>1, EntryOfRow DEF Ledger!InProgress
        <4>4. LedgerEntry(row.request_id)' = Ledger!OutcomeUnknown
          BY <1>2, <4>2, EntryOfNewRow DEF Ledger!OutcomeUnknown
        <4> QED BY <4>3, <4>4
      <3>3. ASSUME NEW p \in RequestIds, p \notin R
            PROVE  LedgerEntry(p)' = LedgerEntry(p)
        <4>1. \A row \in Abandoned(a) :
                  /\ row.request_id # p /\ UnknownRow(row).request_id # p
          BY <1>2, <3>3, UnknownRowFields DEF Abandoned, JournalTypes
        <4>2. {row \in rows : row.request_id = p}
                  = {row \in rows' : row.request_id = p}
          BY <2>3, <4>1 DEF GivesUp
        <4> QED BY <1>2, <4>2, EntryUnchanged
      <3>4. Ledger!Abandon(R)
        BY <3>1, <3>2, <3>3 DEF Ledger!Abandon
      <3> QED BY <3>1, <3>4
    <2>4. CASE rows' = rows
      BY <2>4 DEF LedgerEntry
    <2>5. \A record \in ReplayRecords : record.request_id \in RequestIds
      BY DEF ReplayRecords
    <2>6. \A row \in rows : row.request_id \in RequestIds
      BY <1>2 DEF JournalTypes, Rows
    <2> QED
      BY <1>2, <2>1, <2>2, <2>3, <2>4, <2>5, <2>6, TableSteps DEF Ledger!Next
  <1> QED
    BY <1>1, <1>2, JournalInvariant, PTL DEF JournalSpec, LedgerRefinement, Ledger!Spec
=============================================================================
