---------------------- MODULE SoarPlaybookLedgerProofs ----------------------
(* Proofs about SoarPlaybookLedger for any playbooks, actors and request    *)
(* threads, and any number of operations cut short.                         *)
EXTENDS SoarPlaybookLedger, FiniteSetTheorems, WellFoundedInduction, TLAPS

(* A record's version is the length of the way to its state; it is what     *)
(* keeps versions bounded although stale rows are written back whole.       *)
Shaped(r) ==
    /\ r.state \in {"none"} => r.version = 0
    /\ r.state \in {"pending_approval"} => r.version = 1
    /\ r.state \in {"approved", "rejected"} => r.version = 2
    /\ r.state \in {"executed_simulated"} => r.version = 3
    /\ r.state \in {"rolled_back"} => r.version = 4

ShapeInv ==
    /\ \A p \in Playbooks : Shaped(record[p])
    /\ \A c \in Callers : caller[c] # Idle => Shaped(caller[c].new)

(* The inductive invariant for the types. *)
LedgerInv == TypeOK /\ ShapeInv

(* What the read of each operation carries to its write. *)
LEMMA UpdatedFacts ==
    ASSUME LedgerInv, NEW p \in Playbooks, NEW actor \in Actors, NEW state \in States,
           \/ record[p].state = "pending_approval" /\ state \in {"approved", "rejected"}
           \/ record[p].state = "approved" /\ state = "executed_simulated"
           \/ record[p].state = "executed_simulated" /\ state = "rolled_back"
    PROVE  Updated(p, state, actor) \in Records /\ Shaped(Updated(p, state, actor))
<1>1. record[p] \in Records /\ Shaped(record[p])
  BY DEF LedgerInv, TypeOK, ShapeInv
<1>2. Updated(p, state, actor) = [state |-> state, version |-> record[p].version + 1,
                                  actor |-> actor, answered |-> record[p].answered]
  BY <1>1 DEF Updated, Records
<1>3. record[p].version \in 1..3 /\ record[p].answered \in BOOLEAN
  BY <1>1 DEF Shaped, Records
<1>4. Updated(p, state, actor) \in Records
  BY <1>2, <1>3 DEF Records
<1>5. Shaped(Updated(p, state, actor))
  BY <1>1, <1>2 DEF Shaped
<1>. QED BY <1>4, <1>5

(* A thread that starts an operation holds a well-formed one. *)
LEMMA WorkStep ==
    ASSUME LedgerInv, NEW c \in Callers, NEW work \in Works, Shaped(work.new),
           Goto(c, work), UNCHANGED <<record, log, seal, faults>>,
           overlapped' \subseteq Playbooks
    PROVE  LedgerInv'
<1>1. caller' = [caller EXCEPT ![c] = work]
  BY DEF Goto
<1>2. caller' \in [Callers -> Works \cup {Idle}]
  BY <1>1 DEF LedgerInv, TypeOK
<1>3. \A d \in Callers : caller'[d] # Idle => Shaped(caller'[d].new)
  BY <1>1 DEF LedgerInv, TypeOK, ShapeInv
<1>. QED BY <1>2, <1>3 DEF LedgerInv, TypeOK, ShapeInv, Records

(* The start of an operation is such a step. *)
LEMMA BeginStep ==
    ASSUME LedgerInv, NEW c \in Callers, NEW work \in Works, Shaped(work.new),
           Begin(c, work), UNCHANGED <<record, log, seal, faults>>
    PROVE  LedgerInv'
<1>1. work.playbook \in Playbooks
  BY DEF Works
<1>2. overlapped' \subseteq Playbooks
  BY <1>1 DEF Begin, LedgerInv, TypeOK
<1>. QED BY <1>2, WorkStep DEF Begin

(* A thread that ends an operation leaves nothing behind. *)
LEMMA RestStep ==
    ASSUME LedgerInv, NEW c \in Callers, Goto(c, Idle)
    PROVE  /\ caller' \in [Callers -> Works \cup {Idle}]
           /\ \A d \in Callers : caller'[d] # Idle => Shaped(caller'[d].new)
BY DEF LedgerInv, TypeOK, ShapeInv, Goto

(* The invariant holds before anything is recommended. *)
LEMMA InvInit == ASSUME Init PROVE LedgerInv
<1>1. NoRecord \in Records /\ Shaped(NoRecord)
  BY DEF NoRecord, Records, States, Shaped
<1>2. seal \in [count : Nat, head : Nat]
  BY DEF Init, Genesis
<1>3. log \in Seq(Entries) /\ faults \in 0..MaxFaults
  BY LedgerConfiguration DEF Init
<1>. QED BY <1>1, <1>2, <1>3 DEF Init, LedgerInv, TypeOK, ShapeInv

(* Every step keeps it. *)
LEMMA InvStep == ASSUME LedgerInv, [Next]_vars PROVE LedgerInv'
<1>1. CASE UNCHANGED vars
  BY <1>1 DEF vars, LedgerInv, TypeOK, ShapeInv
<1>2. CASE \E c \in Callers, p \in Playbooks : Recommend(c, p)
  <2>1. PICK c \in Callers, p \in Playbooks : Recommend(c, p)
    BY <1>2
  <2>2. Pending = [state |-> "pending_approval", version |-> 1, actor |-> NoActor,
                   answered |-> FALSE]
    BY DEF Pending, NoRecord
  <2>3. Pending \in Records /\ Shaped(Pending)
    BY <2>2 DEF Records, States, Shaped
  <2>4. /\ Work("saving", p, "none", Pending) \in Works
        /\ Shaped(Work("saving", p, "none", Pending).new)
    BY <2>3 DEF Work, Works, States
  <2>. QED BY <2>1, <2>4, BeginStep DEF Recommend
<1>3. CASE \E c \in Callers, p \in Playbooks, actor \in Actors : Decide(c, p, actor)
  <2>1. PICK c \in Callers, p \in Playbooks, actor \in Actors : Decide(c, p, actor)
    BY <1>3
  <2>2. PICK state \in {"approved", "rejected"} :
           Begin(c, Work("saving", p, record[p].state, Updated(p, state, actor)))
    BY <2>1 DEF Decide
  <2>3. record[p].state = "pending_approval" /\ state \in States
    BY <2>1 DEF Decide, MayDecide, States
  <2>4. Updated(p, state, actor) \in Records /\ Shaped(Updated(p, state, actor))
    BY <2>3, UpdatedFacts
  <2>5. /\ Work("saving", p, record[p].state, Updated(p, state, actor)) \in Works
        /\ Shaped(Work("saving", p, record[p].state, Updated(p, state, actor)).new)
    BY <2>3, <2>4 DEF Work, Works, States
  <2>. QED BY <2>1, <2>2, <2>5, BeginStep DEF Decide
<1>4. CASE \E c \in Callers, p \in Playbooks, actor \in Actors : Execute(c, p, actor)
  <2>1. PICK c \in Callers, p \in Playbooks, actor \in Actors : Execute(c, p, actor)
    BY <1>4
  <2>2. record[p].state = "approved" /\ "executed_simulated" \in States
    BY <2>1 DEF Execute, MayExecute, States
  <2> DEFINE new == Updated(p, "executed_simulated", actor)
  <2>3. new \in Records /\ Shaped(new)
    BY <2>2, UpdatedFacts
  <2> HIDE DEF new
  <2>4. /\ Work("saving", p, record[p].state, new) \in Works
        /\ Shaped(Work("saving", p, record[p].state, new).new)
    BY <2>2, <2>3 DEF Work, Works, States
  <2>5. Begin(c, Work("saving", p, record[p].state, new))
    BY <2>1 DEF Execute, new
  <2>. QED BY <2>1, <2>4, <2>5, BeginStep DEF Execute
<1>5. CASE \E c \in Callers, p \in Playbooks, actor \in Actors : Rollback(c, p, actor)
  <2>1. PICK c \in Callers, p \in Playbooks, actor \in Actors : Rollback(c, p, actor)
    BY <1>5
  <2>2. record[p].state = "executed_simulated" /\ "rolled_back" \in States
    BY <2>1 DEF Rollback, States
  <2> DEFINE new == Updated(p, "rolled_back", actor)
  <2>3. new \in Records /\ Shaped(new)
    BY <2>2, UpdatedFacts
  <2> HIDE DEF new
  <2>4. /\ Work("verifying", p, record[p].state, new) \in Works
        /\ Shaped(Work("verifying", p, record[p].state, new).new)
    BY <2>2, <2>3 DEF Work, Works, States
  <2>5. Begin(c, Work("verifying", p, record[p].state, new))
    BY <2>1 DEF Rollback, new
  <2>. QED BY <2>1, <2>4, <2>5, BeginStep DEF Rollback
<1>6. CASE \E c \in Callers : ReadRows(c)
  <2>1. PICK c \in Callers : ReadRows(c)
    BY <1>6
  <2>2. caller[c] \in Works /\ Shaped(caller[c].new)
    BY <2>1 DEF ReadRows, At, Idle, LedgerInv, TypeOK, ShapeInv
  <2>3. Len(log) \in Nat
    BY DEF LedgerInv, TypeOK
  <2> DEFINE work == [caller[c] EXCEPT !.at = "sealing", !.rows = Len(log)]
  <2>4. work \in Works /\ Shaped(work.new)
    BY <2>2, <2>3 DEF Works
  <2>5. Goto(c, work)
    BY <2>1 DEF ReadRows
  <2> HIDE DEF work
  <2>. QED BY <2>1, <2>4, <2>5, WorkStep DEF ReadRows, LedgerInv, TypeOK
<1>7. CASE \E c \in Callers : ReadSeal(c)
  <2>1. PICK c \in Callers : ReadSeal(c)
    BY <1>7
  <2>2. caller[c] \in Works /\ Shaped(caller[c].new)
    BY <2>1 DEF ReadSeal, At, Idle, LedgerInv, TypeOK, ShapeInv
  <2>3. \/ \E place \in {"checking", "saving"} : Goto(c, [caller[c] EXCEPT !.at = place])
        \/ Goto(c, Idle)
    BY <2>1 DEF ReadSeal
  <2>4. ASSUME NEW place \in {"checking", "saving"},
               Goto(c, [caller[c] EXCEPT !.at = place])
        PROVE  LedgerInv'
    <3>1. /\ [caller[c] EXCEPT !.at = place] \in Works
          /\ Shaped([caller[c] EXCEPT !.at = place].new)
      BY <2>2 DEF Works
    <3>. QED BY <2>1, <2>4, <3>1, WorkStep DEF ReadSeal, LedgerInv, TypeOK
  <2>5. CASE Goto(c, Idle)
    BY <2>1, <2>5, RestStep DEF ReadSeal, LedgerInv, TypeOK, ShapeInv
  <2>. QED BY <2>3, <2>4, <2>5
<1>8. CASE \E c \in Callers : SaveRecord(c)
  <2>1. PICK c \in Callers : SaveRecord(c)
    BY <1>8
  <2>2. caller[c] # Idle /\ caller[c] \in Works /\ Shaped(caller[c].new)
    BY <2>1 DEF SaveRecord, At, Idle, LedgerInv, TypeOK, ShapeInv
  <2>3. caller[c].new \in Records /\ caller[c].playbook \in Playbooks
    BY <2>2 DEF Works
  <2> DEFINE work == [caller[c] EXCEPT !.at = "appending"]
  <2>4. work \in Works /\ Shaped(work.new)
    BY <2>2 DEF Works
  <2>5. caller' = [caller EXCEPT ![c] = work]
    BY <2>1 DEF SaveRecord, Goto
  <2> HIDE DEF work
  <2>6. /\ caller' \in [Callers -> Works \cup {Idle}]
        /\ \A d \in Callers : caller'[d] # Idle => Shaped(caller'[d].new)
    BY <2>4, <2>5 DEF LedgerInv, TypeOK, ShapeInv
  <2>7. record' \in [Playbooks -> Records] /\ \A p \in Playbooks : Shaped(record'[p])
    BY <2>1, <2>2, <2>3 DEF SaveRecord, LedgerInv, TypeOK, ShapeInv
  <2>. QED BY <2>1, <2>6, <2>7 DEF SaveRecord, LedgerInv, TypeOK, ShapeInv
<1>9. CASE \E c \in Callers : AppendAuditEvent(c)
  <2>1. PICK c \in Callers : AppendAuditEvent(c)
    BY <1>9
  <2>2. caller[c] \in Works
    BY <2>1 DEF AppendAuditEvent, At, Idle, LedgerInv, TypeOK
  <2>3. /\ caller[c].playbook \in Playbooks /\ caller[c].old \in States
        /\ caller[c].new.state \in States
    BY <2>2 DEF Works, Records
  <2>4. log \in Seq(Entries) /\ Len(log) \in Nat
    BY DEF LedgerInv, TypeOK
  <2>5. LastDigest(caller[c].playbook) \in Nat
    <3>1. CASE log = <<>>
      BY <3>1 DEF LastDigest, Genesis
    <3>2. CASE log # <<>>
      <4>1. log[Len(log)] \in Entries
        BY <2>4, <3>2
      <4>. QED BY <3>2, <4>1 DEF LastDigest, Entries
    <3>. QED BY <3>1, <3>2
  <2> DEFINE entry == [digest |-> Len(log) + 1,
                       prev |-> LastDigest(caller[c].playbook),
                       sequence |-> Len(log) + 1, playbook |-> caller[c].playbook,
                       old |-> caller[c].old, new |-> caller[c].new.state]
  <2>6. entry \in Entries
    BY <2>3, <2>4, <2>5 DEF Entries
  <2>7. log' = Append(log, entry) /\ seal' = [count |-> Len(log) + 1, head |-> Len(log) + 1]
    BY <2>1 DEF AppendAuditEvent
  <2> HIDE DEF entry
  <2>8. log' \in Seq(Entries) /\ seal' \in [count : Nat, head : Nat]
    BY <2>4, <2>6, <2>7
  <2>. QED BY <2>1, <2>8, RestStep DEF AppendAuditEvent, LedgerInv, TypeOK, ShapeInv
<1>10. CASE \E c \in Callers, p \in Playbooks : Callback(c, p)
  <2>1. PICK c \in Callers, p \in Playbooks : Callback(c, p)
    BY <1>10
  <2>2. NoRecord \in Records /\ Shaped(NoRecord)
    BY DEF NoRecord, Records, States, Shaped
  <2>3. CallbackWork(p) \in Works /\ Shaped(CallbackWork(p).new)
    BY <2>2 DEF CallbackWork, Work, Works, States
  <2>. QED BY <2>1, <2>3, WorkStep DEF Callback, LedgerInv, TypeOK
<1>11. CASE \E c \in Callers : CallbackCheck(c)
  <2>1. PICK c \in Callers : CallbackCheck(c)
    BY <1>11
  <2>2. caller[c] \in Works /\ Shaped(caller[c].new)
    BY <2>1 DEF CallbackCheck, At, Idle, LedgerInv, TypeOK, ShapeInv
  <2>3. CASE Goto(c, [caller[c] EXCEPT !.at = "timing"])
    <3>1. /\ [caller[c] EXCEPT !.at = "timing"] \in Works
          /\ Shaped([caller[c] EXCEPT !.at = "timing"].new)
      BY <2>2 DEF Works
    <3>. QED BY <2>1, <2>3, <3>1, WorkStep DEF CallbackCheck, LedgerInv, TypeOK
  <2>4. CASE Goto(c, Idle)
    BY <2>1, <2>4, RestStep DEF CallbackCheck, LedgerInv, TypeOK, ShapeInv
  <2>. QED BY <2>1, <2>3, <2>4 DEF CallbackCheck
<1>12. CASE \E c \in Callers : RecordCallback(c)
  <2>1. PICK c \in Callers : RecordCallback(c)
    BY <1>12
  <2>2. caller[c].playbook \in Playbooks
    BY <2>1 DEF RecordCallback, At, Idle, LedgerInv, TypeOK, Works
  <2>3. record' \in [Playbooks -> Records]
    BY <2>1, <2>2 DEF RecordCallback, LedgerInv, TypeOK, Records
  <2>4. \A p \in Playbooks : record'[p].state = record[p].state
                             /\ record'[p].version = record[p].version
    BY <2>1, <2>2 DEF RecordCallback, LedgerInv, TypeOK, Records
  <2>5. \A p \in Playbooks : Shaped(record'[p])
    BY <2>4 DEF LedgerInv, ShapeInv, Shaped
  <2>. QED BY <2>1, <2>3, <2>5, RestStep
           DEF RecordCallback, LedgerInv, TypeOK, ShapeInv
<1>13. CASE \E c \in Callers : CutShort(c)
  <2>1. PICK c \in Callers : CutShort(c)
    BY <1>13
  <2>2. faults' \in 0..MaxFaults
    BY <2>1, LedgerConfiguration DEF CutShort, LedgerInv, TypeOK
  <2>. QED BY <2>1, <2>2, RestStep DEF CutShort, LedgerInv, TypeOK, ShapeInv
<1>. QED BY <1>1, <1>2, <1>3, <1>4, <1>5, <1>6, <1>7, <1>8, <1>9, <1>10, <1>11, <1>12, <1>13
         DEF Next

(* So it always holds. *)
LEMMA InvHolds == Spec => []LedgerInv
BY InvInit, InvStep, PTL DEF Spec

(* Records, entries and operations keep their types, versions their bound,  *)
(* even when threads overwrite each other's rows.                           *)
THEOREM LedgerTypeCorrect == Spec => []TypeOK
<1>1. LedgerInv => TypeOK
  BY DEF LedgerInv
<1>. QED BY <1>1, InvHolds, PTL

(* The stored chain is linked, numbered and sealed in every reachable       *)
(* state: append_audit_event's one transaction, whatever the other threads  *)
(* do, never leaves a chain that a single consistent read would reject.     *)
THEOREM ChainStaysSound == Spec => []ChainSound
<1>1. ASSUME Init PROVE ChainSound
  BY <1>1 DEF Init, ChainSound, LinkedTo
<1>2. ASSUME TypeOK, ChainSound, [Next]_vars PROVE ChainSound'
  <2>1. CASE UNCHANGED <<log, seal>>
    BY <1>2, <2>1 DEF ChainSound, LinkedTo, SealedAt
  <2>2. CASE \E c \in Callers : AppendAuditEvent(c)
    <3>1. PICK c \in Callers : AppendAuditEvent(c)
      BY <2>2
    <3> DEFINE entry == [digest |-> Len(log) + 1,
                         prev |-> LastDigest(caller[c].playbook),
                         sequence |-> Len(log) + 1, playbook |-> caller[c].playbook,
                         old |-> caller[c].old, new |-> caller[c].new.state]
    <3>2. /\ log' = Append(log, entry)
          /\ seal' = [count |-> Len(log) + 1, head |-> Len(log) + 1]
      BY <3>1 DEF AppendAuditEvent
    <3>3. log \in Seq(Entries) /\ Len(log) \in Nat
      BY <1>2 DEF TypeOK
    <3>4. /\ entry.digest = Len(log) + 1 /\ entry.sequence = Len(log) + 1
          /\ entry.prev = LastDigest(caller[c].playbook)
      OBVIOUS
    <3> HIDE DEF entry
    <3>5. /\ Len(log') = Len(log) + 1 /\ log'[Len(log) + 1] = entry
          /\ \A i \in 1..Len(log) : log'[i] = log[i]
      BY <3>2, <3>3
    <3>6. seal' = [count |-> Len(log'), head |-> log'[Len(log')].digest]
      BY <3>2, <3>3, <3>4, <3>5
    <3>7. LinkedTo(Len(log))'
      <4>1. SUFFICES ASSUME NEW i \in 1..(Len(log) + 1)
                     PROVE  /\ log'[i].prev = IF i = 1 THEN Genesis
                                                       ELSE log'[i - 1].digest
                            /\ log'[i].sequence = i
        BY <3>5 DEF LinkedTo
      <4>2. CASE i \in 1..Len(log)
        <5>1. i # 1 => i - 1 \in 1..Len(log)
          BY <3>3, <4>2
        <5>. QED BY <1>2, <3>5, <4>2, <5>1 DEF ChainSound, LinkedTo
      <4>3. CASE i = Len(log) + 1
        <5>1. CASE log = <<>>
          BY <3>3, <3>4, <3>5, <4>3, <5>1 DEF LastDigest
        <5>2. CASE log # <<>>
          <6>1. Len(log) \in 1..Len(log) /\ i - 1 = Len(log) /\ i # 1
            BY <3>3, <4>3, <5>2
          <6>2. log'[i - 1] = log[Len(log)]
            BY <3>5, <6>1
          <6>3. entry.prev = log[Len(log)].digest
            BY <3>4, <5>2 DEF LastDigest
          <6>. QED BY <3>4, <3>5, <4>3, <6>1, <6>2, <6>3
        <5>. QED BY <5>1, <5>2
      <4>. QED BY <3>3, <4>2, <4>3
    <3>. QED BY <3>6, <3>7 DEF ChainSound, SealedAt
  <2>. QED BY <1>2, <2>1, <2>2
           DEF Next, vars, Recommend, Decide, Execute, Rollback, ReadRows,
               ReadSeal, SaveRecord, Callback, CallbackCheck, RecordCallback, CutShort
<1>. QED BY <1>1, <1>2, LedgerTypeCorrect, PTL DEF Spec

-----------------------------------------------------------------------------
(* The refinement.  A thread inside an engine operation, and what it does   *)
(* to the state of its playbook.                                            *)
Changes(c) == caller[c] # Idle /\ ~IsCallback(caller[c])
Edges == {<<"none", "pending_approval">>,
          <<"pending_approval", "approved">>, <<"pending_approval", "rejected">>,
          <<"approved", "executed_simulated">>,
          <<"executed_simulated", "rolled_back">>}

(* Before it saves, an operation that nothing overlaps still finds the      *)
(* state it read. *)
ReadIsFresh ==
    \A c \in Callers :
        /\ Changes(c) /\ caller[c].at \in {"verifying", "sealing", "saving"}
        /\ caller[c].playbook \notin overlapped
        => /\ caller[c].old = record[caller[c].playbook].state
           /\ <<caller[c].old, caller[c].new.state>> \in Edges

(* Without overlaps one operation at a time works on a playbook. *)
OneChange ==
    \A c, d \in Callers :
        /\ Changes(c) /\ Changes(d)
        /\ caller[c].playbook = caller[d].playbook
        /\ caller[c].playbook \notin overlapped
        => c = d

(* Callbacks save nothing. *)
CallbackPlaces ==
    \A c \in Callers :
        caller[c] # Idle /\ IsCallback(caller[c]) =>
            caller[c].at \in {"verifying", "sealing", "checking", "timing"}

FreshInv == ReadIsFresh /\ OneChange /\ CallbackPlaces

(* No operation is under way at the start. *)
LEMMA FreshInit == ASSUME Init PROVE FreshInv
BY DEF Init, FreshInv, ReadIsFresh, OneChange, CallbackPlaces, Changes

(* A step of one thread that changes no state of a record, and that leaves  *)
(* the thread idle or on in the operation it was in. *)
LEMMA FreshOn ==
    ASSUME LedgerInv, FreshInv, NEW c \in Callers, caller[c] # Idle,
           overlapped' = overlapped,
           \A p \in Playbooks : record'[p].state = record[p].state,
           \A d \in Callers : d # c => caller'[d] = caller[d],
           \/ caller'[c] = Idle
           \/ /\ caller'[c].playbook = caller[c].playbook
              /\ caller'[c].old = caller[c].old
              /\ caller'[c].new = caller[c].new
              /\ caller'[c].at \in {"sealing", "saving", "checking", "timing"}
              /\ caller'[c].at = "saving" => ~IsCallback(caller[c])
              /\ caller'[c].at \in {"sealing", "saving"} =>
                     caller[c].at \in {"verifying", "sealing", "saving"}
    PROVE  FreshInv'
<1>1. \A d \in Callers : caller[d] # Idle => caller[d].playbook \in Playbooks
  BY DEF LedgerInv, TypeOK, Works
<1>2. \A d \in Callers : caller'[d] # Idle =>
          /\ caller[d] # Idle
          /\ caller'[d].playbook = caller[d].playbook
          /\ caller'[d].old = caller[d].old
          /\ caller'[d].new = caller[d].new
  OBVIOUS
<1>3. \A d \in Callers : Changes(d)' => Changes(d)
  BY <1>2 DEF Changes, IsCallback
<1>4. OneChange'
  BY <1>2, <1>3 DEF FreshInv, OneChange, Changes
<1>5. ReadIsFresh'
  BY <1>1, <1>2, <1>3 DEF FreshInv, ReadIsFresh, Changes
<1>6. CallbackPlaces'
  BY <1>2 DEF FreshInv, CallbackPlaces, IsCallback
<1>. QED BY <1>4, <1>5, <1>6 DEF FreshInv

(* An operation starts: it has just read its playbook's state, and if       *)
(* another is on the way the playbook is given up as overlapped. *)
LEMMA FreshBegin ==
    ASSUME LedgerInv, FreshInv, NEW c \in Callers, caller[c] = Idle,
           NEW p \in Playbooks, NEW place \in {"verifying", "saving"},
           NEW old, NEW new,
           Begin(c, Work(place, p, old, new)), UNCHANGED record,
           old = record[p].state, <<old, new.state>> \in Edges
    PROVE  FreshInv'
<1> DEFINE work == Work(place, p, old, new)
<1>1. /\ work.playbook = p /\ work.old = old /\ work.new = new /\ work.at = place
  BY DEF Work
<1>2. /\ caller'[c] = work /\ \A d \in Callers : d # c => caller'[d] = caller[d]
      /\ overlapped' = IF Changing(p) = {} THEN overlapped ELSE overlapped \cup {p}
  BY <1>1 DEF Begin, Goto, LedgerInv, TypeOK
<1>3. new.state # "none"
  BY DEF Edges
<1> HIDE DEF work
<1>4. ~IsCallback(work)
  BY <1>1, <1>3 DEF IsCallback
<1>5. \A d \in Callers : d # c => (Changes(d)' <=> Changes(d))
  BY <1>2 DEF Changes
<1>6. \A d \in Callers : d # c /\ Changes(d) /\ caller[d].playbook = p => p \in overlapped'
  BY <1>2 DEF Changes, Changing, Busy
<1>7. overlapped \subseteq overlapped'
  BY <1>2
<1>8. ReadIsFresh'
  <2>1. SUFFICES ASSUME NEW d \in Callers, Changes(d)',
                        caller'[d].at \in {"verifying", "sealing", "saving"},
                        caller'[d].playbook \notin overlapped'
                 PROVE  /\ caller'[d].old = record'[caller'[d].playbook].state
                        /\ <<caller'[d].old, caller'[d].new.state>> \in Edges
    BY DEF ReadIsFresh
  <2>2. CASE d = c
    BY <1>1, <1>2, <2>2
  <2>3. CASE d # c
    BY <1>2, <1>5, <1>7, <2>1, <2>3 DEF FreshInv, ReadIsFresh
  <2>. QED BY <2>2, <2>3
<1>9. OneChange'
  <2>1. SUFFICES ASSUME NEW d \in Callers, NEW e \in Callers, Changes(d)', Changes(e)',
                        caller'[d].playbook = caller'[e].playbook,
                        caller'[d].playbook \notin overlapped', d # e
                 PROVE  FALSE
    BY DEF OneChange
  <2>2. CASE d = c
    BY <1>1, <1>2, <1>5, <1>6, <2>1, <2>2
  <2>3. CASE e = c
    BY <1>1, <1>2, <1>5, <1>6, <2>1, <2>3
  <2>4. CASE d # c /\ e # c
    BY <1>2, <1>5, <1>7, <2>1, <2>4 DEF FreshInv, OneChange
  <2>. QED BY <2>2, <2>3, <2>4
<1>10. CallbackPlaces'
  BY <1>2, <1>4 DEF FreshInv, CallbackPlaces
<1>. QED BY <1>8, <1>9, <1>10 DEF FreshInv

(* A save makes the state what the operation wanted; nothing else that is   *)
(* not overlapped works on that playbook. *)
LEMMA FreshSave ==
    ASSUME LedgerInv, FreshInv, NEW c \in Callers, SaveRecord(c)
    PROVE  FreshInv'
<1>1. caller[c] # Idle /\ caller[c] \in Works /\ caller[c].at = "saving"
  BY DEF SaveRecord, At, Idle, LedgerInv, TypeOK
<1>2. ~IsCallback(caller[c]) /\ Changes(c)
  BY <1>1 DEF FreshInv, CallbackPlaces, Changes
<1>3. /\ caller'[c] = [caller[c] EXCEPT !.at = "appending"]
      /\ \A d \in Callers : d # c => caller'[d] = caller[d]
      /\ overlapped' = overlapped
      /\ record' = [record EXCEPT ![caller[c].playbook] = caller[c].new]
  BY DEF SaveRecord, Goto, LedgerInv, TypeOK
<1>4. /\ caller'[c].at = "appending" /\ caller'[c].playbook = caller[c].playbook
      /\ caller'[c].new = caller[c].new /\ caller'[c] # Idle
  BY <1>1, <1>3 DEF Works, Idle
<1>5. \A d \in Callers : Changes(d)' => /\ Changes(d)
                                       /\ caller'[d].playbook = caller[d].playbook
  BY <1>2, <1>3, <1>4 DEF Changes
<1>6. OneChange'
  BY <1>3, <1>5 DEF FreshInv, OneChange
<1>7. ReadIsFresh'
  <2>1. SUFFICES ASSUME NEW d \in Callers, Changes(d)',
                        caller'[d].at \in {"verifying", "sealing", "saving"},
                        caller'[d].playbook \notin overlapped'
                 PROVE  /\ caller'[d].old = record'[caller'[d].playbook].state
                        /\ <<caller'[d].old, caller'[d].new.state>> \in Edges
    BY DEF ReadIsFresh
  <2>2. d # c
    BY <1>4, <2>1
  <2>3. Changes(d) /\ caller'[d] = caller[d] /\ overlapped' = overlapped
    BY <1>3, <1>5, <2>1, <2>2
  <2>4. caller[d].playbook # caller[c].playbook
    BY <1>2, <2>1, <2>2, <2>3 DEF FreshInv, OneChange
  <2>5. caller[d].playbook \in Playbooks
    BY <2>3 DEF Changes, LedgerInv, TypeOK, Works
  <2>6. record'[caller[d].playbook] = record[caller[d].playbook]
    BY <1>3, <2>4, <2>5 DEF LedgerInv, TypeOK
  <2>. QED BY <2>1, <2>3, <2>6 DEF FreshInv, ReadIsFresh
<1>8. CallbackPlaces'
  <2>1. ~IsCallback(caller'[c])
    BY <1>2, <1>4 DEF IsCallback
  <2>. QED BY <1>3, <2>1 DEF FreshInv, CallbackPlaces
<1>. QED BY <1>6, <1>7, <1>8 DEF FreshInv

(* Every step keeps reads fresh and changes apart. *)
LEMMA FreshStep == ASSUME LedgerInv, FreshInv, [Next]_vars PROVE FreshInv'
<1>1. CASE UNCHANGED vars
  BY <1>1 DEF vars, FreshInv, ReadIsFresh, OneChange, CallbackPlaces, Changes
<1>2. ASSUME NEW c \in Callers, NEW p \in Playbooks, Recommend(c, p) PROVE FreshInv'
  <2>1. record[p].state = "none" /\ Pending.state = "pending_approval"
    BY <1>2 DEF Recommend, NoRecord, Pending
  <2>2. <<"none", Pending.state>> \in Edges
    BY <2>1 DEF Edges
  <2>. QED BY <1>2, <2>1, <2>2, FreshBegin DEF Recommend
<1>3. ASSUME NEW c \in Callers, NEW p \in Playbooks, NEW actor \in Actors,
             Decide(c, p, actor)
      PROVE  FreshInv'
  <2>1. PICK state \in {"approved", "rejected"} :
           Begin(c, Work("saving", p, record[p].state, Updated(p, state, actor)))
    BY <1>3 DEF Decide
  <2>2. <<record[p].state, Updated(p, state, actor).state>> \in Edges
    BY <1>3 DEF Decide, MayDecide, Updated, Edges
  <2>. QED BY <1>3, <2>1, <2>2, FreshBegin DEF Decide
<1>4. ASSUME NEW c \in Callers, NEW p \in Playbooks, NEW actor \in Actors,
             Execute(c, p, actor)
      PROVE  FreshInv'
  <2>1. <<record[p].state, Updated(p, "executed_simulated", actor).state>> \in Edges
    BY <1>4 DEF Execute, MayExecute, Updated, Edges
  <2>. QED BY <1>4, <2>1, FreshBegin DEF Execute
<1>5. ASSUME NEW c \in Callers, NEW p \in Playbooks, NEW actor \in Actors,
             Rollback(c, p, actor)
      PROVE  FreshInv'
  <2>1. <<record[p].state, Updated(p, "rolled_back", actor).state>> \in Edges
    BY <1>5 DEF Rollback, Updated, Edges
  <2>. QED BY <1>5, <2>1, FreshBegin DEF Rollback
<1>6. ASSUME NEW c \in Callers, ReadRows(c) PROVE FreshInv'
  <2>1. caller[c] # Idle /\ caller[c] \in Works /\ caller[c].at = "verifying"
    BY <1>6 DEF ReadRows, At, Idle, LedgerInv, TypeOK
  <2>2. /\ caller'[c] = [caller[c] EXCEPT !.at = "sealing", !.rows = Len(log)]
        /\ \A d \in Callers : d # c => caller'[d] = caller[d]
    BY <1>6 DEF ReadRows, Goto, LedgerInv, TypeOK
  <2>3. /\ caller'[c].playbook = caller[c].playbook /\ caller'[c].old = caller[c].old
        /\ caller'[c].new = caller[c].new /\ caller'[c].at = "sealing"
    BY <2>1, <2>2 DEF Works
  <2>. QED BY <1>6, <2>1, <2>2, <2>3, FreshOn DEF ReadRows
<1>7. ASSUME NEW c \in Callers, ReadSeal(c) PROVE FreshInv'
  <2>1. caller[c] # Idle /\ caller[c] \in Works /\ caller[c].at = "sealing"
    BY <1>7 DEF ReadSeal, At, Idle, LedgerInv, TypeOK
  <2>2. /\ \/ caller'[c] = Idle
           \/ caller'[c] = [caller[c] EXCEPT !.at = "checking"]
           \/ caller'[c] = [caller[c] EXCEPT !.at = "saving"] /\ ~IsCallback(caller[c])
        /\ \A d \in Callers : d # c => caller'[d] = caller[d]
    BY <1>7 DEF ReadSeal, Goto, LedgerInv, TypeOK
  <2>3. \/ caller'[c] = Idle
        \/ /\ caller'[c].playbook = caller[c].playbook /\ caller'[c].old = caller[c].old
           /\ caller'[c].new = caller[c].new /\ caller'[c].at \in {"checking", "saving"}
           /\ caller'[c].at = "saving" => ~IsCallback(caller[c])
    BY <2>1, <2>2 DEF Works
  <2>. QED BY <1>7, <2>1, <2>2, <2>3, FreshOn DEF ReadSeal
<1>8. ASSUME NEW c \in Callers, SaveRecord(c) PROVE FreshInv'
  BY <1>8, FreshSave
<1>9. ASSUME NEW c \in Callers, AppendAuditEvent(c) PROVE FreshInv'
  <2>1. caller[c] # Idle
    BY <1>9 DEF AppendAuditEvent, At, Idle
  <2>2. caller'[c] = Idle /\ \A d \in Callers : d # c => caller'[d] = caller[d]
    BY <1>9 DEF AppendAuditEvent, Goto, LedgerInv, TypeOK
  <2>. QED BY <1>9, <2>1, <2>2, FreshOn DEF AppendAuditEvent
<1>10. ASSUME NEW c \in Callers, NEW p \in Playbooks, Callback(c, p) PROVE FreshInv'
  <2>1. /\ caller'[c] = CallbackWork(p) /\ caller[c] = Idle
        /\ \A d \in Callers : d # c => caller'[d] = caller[d]
        /\ UNCHANGED <<record, overlapped>>
    BY <1>10 DEF Callback, Goto, LedgerInv, TypeOK
  <2>2. IsCallback(CallbackWork(p)) /\ CallbackWork(p).at = "verifying"
    BY DEF IsCallback, CallbackWork, Work, NoRecord
  <2>3. \A d \in Callers : Changes(d)' => d # c /\ Changes(d)
    BY <2>1, <2>2 DEF Changes
  <2>4. ReadIsFresh'
    BY <2>1, <2>3 DEF FreshInv, ReadIsFresh
  <2>5. OneChange'
    BY <2>1, <2>3 DEF FreshInv, OneChange
  <2>6. CallbackPlaces'
    BY <2>1, <2>2 DEF FreshInv, CallbackPlaces
  <2>. QED BY <2>4, <2>5, <2>6 DEF FreshInv
<1>11. ASSUME NEW c \in Callers, CallbackCheck(c) PROVE FreshInv'
  <2>1. caller[c] # Idle /\ caller[c] \in Works /\ caller[c].at = "checking"
    BY <1>11 DEF CallbackCheck, At, Idle, LedgerInv, TypeOK
  <2>2. /\ caller'[c] = Idle \/ caller'[c] = [caller[c] EXCEPT !.at = "timing"]
        /\ \A d \in Callers : d # c => caller'[d] = caller[d]
    BY <1>11 DEF CallbackCheck, Goto, LedgerInv, TypeOK
  <2>3. \/ caller'[c] = Idle
        \/ /\ caller'[c].playbook = caller[c].playbook /\ caller'[c].old = caller[c].old
           /\ caller'[c].new = caller[c].new /\ caller'[c].at = "timing"
    BY <2>1, <2>2 DEF Works
  <2>. QED BY <1>11, <2>1, <2>2, <2>3, FreshOn DEF CallbackCheck
<1>12. ASSUME NEW c \in Callers, RecordCallback(c) PROVE FreshInv'
  <2>1. caller[c] # Idle /\ caller[c].playbook \in Playbooks
    BY <1>12 DEF RecordCallback, At, Idle, LedgerInv, TypeOK, Works
  <2>2. caller'[c] = Idle /\ \A d \in Callers : d # c => caller'[d] = caller[d]
    BY <1>12 DEF RecordCallback, Goto, LedgerInv, TypeOK
  <2>3. \A p \in Playbooks : record'[p].state = record[p].state
    BY <1>12, <2>1 DEF RecordCallback, LedgerInv, TypeOK, Records
  <2>. QED BY <1>12, <2>1, <2>2, <2>3, FreshOn DEF RecordCallback
<1>13. ASSUME NEW c \in Callers, CutShort(c) PROVE FreshInv'
  <2>1. caller'[c] = Idle /\ \A d \in Callers : d # c => caller'[d] = caller[d]
    BY <1>13 DEF CutShort, Goto, LedgerInv, TypeOK
  <2>. QED BY <1>13, <2>1, FreshOn DEF CutShort
<1>. QED BY <1>1, <1>2, <1>3, <1>4, <1>5, <1>6, <1>7, <1>8, <1>9, <1>10, <1>11, <1>12, <1>13
         DEF Next

(* So they always are. *)
LEMMA FreshHolds == Spec => []FreshInv
BY FreshInit, FreshStep, InvHolds, PTL DEF Spec

(* One playbook's stage changes, the others' stay. *)
LEMMA StageStep ==
    ASSUME NEW q \in Playbooks, NEW from, NEW to,
           \A p \in Playbooks : p # q => Stage(p)' = Stage(p),
           Stage(q) = from, Stage(q)' = to
    PROVE  Workflow!Step(q, from, to)
BY DEF Workflow!Step, stages

(* No stage changes: the abstract workflow stutters. *)
LEMMA StageKept ==
    ASSUME \A p \in Playbooks : Stage(p)' = Stage(p)
    PROVE  stages' = stages
BY DEF stages

(* The start of an operation stutters, or makes its playbook an overlapped  *)
(* one. *)
LEMMA BeginRefines ==
    ASSUME NEW c \in Callers, NEW q \in Playbooks, NEW place, NEW old, NEW new,
           Begin(c, Work(place, q, old, new)), UNCHANGED record,
           record[q].state \in {"none", "pending_approval", "approved",
                                "executed_simulated"},
           record[q].state = "none" => Changing(q) = {}
    PROVE  [Workflow!Next]_stages
<1>1. overlapped' = IF Changing(q) = {} THEN overlapped ELSE overlapped \cup {q}
  BY DEF Begin, Work
<1>2. CASE overlapped' = overlapped
  BY <1>2, StageKept DEF Stage
<1>3. CASE overlapped' = overlapped \cup {q} /\ q \notin overlapped /\ Changing(q) # {}
  <2>1. \A p \in Playbooks : p # q => Stage(p)' = Stage(p)
    BY <1>3 DEF Stage
  <2>2. Stage(q) = record[q].state /\ Stage(q)' = "overlapped"
    BY <1>3 DEF Stage
  <2>3. record[q].state \in {"pending_approval", "approved", "rejected",
                             "executed_simulated", "rolled_back"}
    BY <1>3
  <2>4. Workflow!Step(q, record[q].state, "overlapped")
    BY <2>1, <2>2, StageStep
  <2>5. Workflow!Overlap(q)
    BY <2>3, <2>4 DEF Workflow!Overlap
  <2>. QED BY <2>5 DEF Workflow!Next
<1>. QED BY <1>1, <1>2, <1>3

(* A save is the abstract step, unless the playbook is overlapped already. *)
LEMMA SaveRefines ==
    ASSUME LedgerInv, FreshInv, NEW c \in Callers, SaveRecord(c)
    PROVE  [Workflow!Next]_stages
<1> DEFINE q == caller[c].playbook
<1>1. caller[c] # Idle /\ caller[c] \in Works /\ caller[c].at = "saving"
  BY DEF SaveRecord, At, Idle, LedgerInv, TypeOK
<1>2. Changes(c) /\ q \in Playbooks
  BY <1>1 DEF FreshInv, CallbackPlaces, Changes, Works
<1>3. /\ overlapped' = overlapped /\ record'[q] = caller[c].new
      /\ \A x \in Playbooks : x # q => record'[x] = record[x]
  BY <1>2 DEF SaveRecord, LedgerInv, TypeOK
<1>4. CASE q \in overlapped
  BY <1>3, <1>4, StageKept DEF Stage
<1>5. CASE q \notin overlapped
  <2>1. /\ caller[c].old = record[q].state
        /\ <<caller[c].old, caller[c].new.state>> \in Edges
    BY <1>1, <1>2, <1>5 DEF FreshInv, ReadIsFresh
  <2>2. Stage(q) = caller[c].old
    BY <1>5, <2>1 DEF Stage
  <2>6. record'[caller[c].playbook].state = caller[c].new.state
    BY <1>3
  <2>3. \A x \in Playbooks : x # q => Stage(x)' = Stage(x)
    BY <1>3 DEF Stage
  <2>7. stages' =
           [stages EXCEPT ![q] = caller[c].new.state]
    BY <1>2, <1>3, <1>5, <2>3, <2>6 DEF stages, Stage
  <2>4. Workflow!Step(q, caller[c].old, caller[c].new.state)
    BY <1>2, <2>2, <2>7 DEF Workflow!Step, stages
  <2>5. Workflow!Recommend(q) \/ Workflow!Decide(q) \/ Workflow!Execute(q)
           \/ Workflow!Rollback(q)
    BY <2>1, <2>4 DEF Edges, Workflow!Recommend, Workflow!Decide, Workflow!Execute,
                      Workflow!Rollback
  <2>. QED BY <1>2, <2>5 DEF Workflow!Next
<1>. QED BY <1>4, <1>5

(* The engine implements the approval workflow, with any threads and        *)
(* errors, for every playbook on which no two operations overlapped.        *)
THEOREM EngineImplementsWorkflow == Spec => WorkflowRefinement
<1>1. ASSUME Init PROVE Workflow!Init
  BY <1>1 DEF Init, Workflow!Init, stages, Stage, NoRecord
<1>2. ASSUME LedgerInv, FreshInv, [Next]_vars
      PROVE  [Workflow!Next]_stages
  <2>1. CASE UNCHANGED <<record, overlapped>>
    BY <2>1, StageKept DEF Stage
  <2>2. ASSUME NEW c \in Callers, NEW p \in Playbooks, Recommend(c, p)
        PROVE  [Workflow!Next]_stages
    BY <2>2, BeginRefines DEF Recommend, NoRecord
  <2>3. ASSUME NEW c \in Callers, NEW p \in Playbooks, NEW actor \in Actors,
               Decide(c, p, actor) \/ Execute(c, p, actor) \/ Rollback(c, p, actor)
        PROVE  [Workflow!Next]_stages
    <3>1. \E place, new : Begin(c, Work(place, p, record[p].state, new))
      BY <2>3 DEF Decide, Execute, Rollback
    <3>2. /\ record[p].state \in {"pending_approval", "approved", "executed_simulated"}
          /\ UNCHANGED record
      BY <2>3 DEF Decide, Execute, Rollback, MayDecide, MayExecute
    <3>. QED BY <3>1, <3>2, BeginRefines
  <2>4. ASSUME NEW c \in Callers, SaveRecord(c)
        PROVE  [Workflow!Next]_stages
    BY <1>2, <2>4, SaveRefines
  <2>5. ASSUME NEW c \in Callers, RecordCallback(c)
        PROVE  [Workflow!Next]_stages
    <3>1. caller[c].playbook \in Playbooks
      BY <1>2, <2>5 DEF RecordCallback, At, Idle, LedgerInv, TypeOK, Works
    <3>2. \A p \in Playbooks : record'[p].state = record[p].state
      BY <1>2, <2>5, <3>1 DEF RecordCallback, LedgerInv, TypeOK, Records
    <3>. QED BY <2>5, <3>2, StageKept DEF RecordCallback, Stage
  <2>6. ASSUME NEW c \in Callers,
               ReadRows(c) \/ ReadSeal(c) \/ AppendAuditEvent(c)
                  \/ CallbackCheck(c) \/ CutShort(c)
        PROVE  UNCHANGED <<record, overlapped>>
    BY <2>6 DEF ReadRows, ReadSeal, AppendAuditEvent, CallbackCheck, CutShort
  <2>7. ASSUME NEW c \in Callers, NEW p \in Playbooks, Callback(c, p)
        PROVE  UNCHANGED <<record, overlapped>>
    BY <2>7 DEF Callback
  <2>8. UNCHANGED vars => UNCHANGED <<record, overlapped>>
    BY DEF vars
  <2>. QED BY <1>2, <2>1, <2>2, <2>3, <2>4, <2>5, <2>6, <2>7, <2>8 DEF Next
<1>. QED BY <1>1, <1>2, InvHolds, FreshHolds, PTL
         DEF Spec, WorkflowRefinement, Workflow!Spec

-----------------------------------------------------------------------------
(* What the chain accounts for. *)
Later == {"approved", "executed_simulated", "rolled_back"}
Executed == {"executed_simulated", "rolled_back"}

(* An approval of p is in the chain, or saved and about to be.              *)
ApprovalTold(p) ==
    \/ \E j \in 1..Len(log) : log[j].playbook = p /\ log[j].new = "approved"
    \/ \E c \in Callers : /\ caller[c].at = "appending"
                          /\ caller[c].playbook = p
                          /\ caller[c].new.state = "approved"

(* Whatever shows that p went past its approval: its record, an entry, or   *)
(* an operation under way.                                                  *)
PastApproval(p) ==
    \/ record[p].state \in Later
    \/ \E i \in 1..Len(log) : log[i].playbook = p /\ log[i].new = "executed_simulated"
    \/ \E c \in Callers : /\ caller[c] # Idle
                          /\ caller[c].playbook = p
                          /\ caller[c].new.state \in Executed

ApprovalInv == faults = 0 => \A p \in Playbooks : PastApproval(p) => ApprovalTold(p)

(* The chain of p tells its life up to what its record holds, or, while an  *)
(* operation is under way, up to what that operation read.                  *)
LifeTold(p) ==
    /\ \A i \in EntriesOf(log, p, Len(log)) : log[i].old = Told(log, p, i - 1)
    /\ Changing(p) = {} =>
           /\ Cardinality(EntriesOf(log, p, Len(log))) = record[p].version
           /\ Told(log, p, Len(log)) = record[p].state
    /\ \A c \in Changing(p) :
           /\ Cardinality(EntriesOf(log, p, Len(log))) + 1 = caller[c].new.version
           /\ Told(log, p, Len(log)) = caller[c].old
           /\ \/ /\ caller[c].at \in {"verifying", "sealing", "saving"}
                 /\ record[p].state = caller[c].old
                 /\ record[p].version + 1 = caller[c].new.version
              \/ /\ caller[c].at = "appending"
                 /\ record[p].state = caller[c].new.state
                 /\ record[p].version = caller[c].new.version

LifeInv == faults = 0 => \A p \in Playbooks \ overlapped : LifeTold(p)

(* Both hold at the start: nothing is recorded and nothing is told. *)
LEMMA AccountInit == ASSUME Init PROVE ApprovalInv /\ LifeInv
<1>1. log = <<>> /\ Len(log) = 0 /\ \A p \in Playbooks : record[p] = NoRecord
  BY DEF Init
<1>2. \A p \in Playbooks : EntriesOf(log, p, Len(log)) = {}
  BY <1>1 DEF EntriesOf
<1>3. \A p \in Playbooks : Told(log, p, Len(log)) = "none"
  BY <1>2 DEF Told
<1>4. \A p \in Playbooks : Changing(p) = {} /\ ~PastApproval(p)
  BY <1>1 DEF Init, Changing, Busy, PastApproval, NoRecord, Later
<1>5. \A p \in Playbooks : LifeTold(p)
  <2>1. SUFFICES ASSUME NEW p \in Playbooks PROVE LifeTold(p)
    OBVIOUS
  <2>2. EntriesOf(log, p, Len(log)) = {} /\ Changing(p) = {}
    BY <1>2, <1>4
  <2>3. Cardinality(EntriesOf(log, p, Len(log))) = 0
    BY <2>2, FS_EmptySet
  <2>4. record[p].version = 0 /\ record[p].state = "none"
    BY <1>1 DEF NoRecord
  <2>. QED BY <1>3, <2>2, <2>3, <2>4 DEF LifeTold
<1>. QED BY <1>4, <1>5 DEF ApprovalInv, LifeInv

(* A step that saves and appends nothing needs only that the operations it  *)
(* begins past an approval have found one. *)
LEMMA ApprovalOn ==
    ASSUME LedgerInv, ApprovalInv, faults = 0, log' = log,
           \A p \in Playbooks : record'[p].state = record[p].state,
           \A d \in Callers : caller[d].at = "appending" => caller'[d] = caller[d],
           \A d \in Callers : /\ caller'[d] # Idle
                              /\ caller'[d].new.state \in Executed
                              /\ caller'[d].playbook \in Playbooks
                              => PastApproval(caller'[d].playbook)
    PROVE  ApprovalInv'
<1>1. SUFFICES ASSUME NEW p \in Playbooks, PastApproval(p)' PROVE ApprovalTold(p)'
  BY DEF ApprovalInv
<1>2. PastApproval(p)
  BY <1>1 DEF PastApproval
<1>3. ApprovalTold(p)
  BY <1>2 DEF ApprovalInv
<1>. QED BY <1>3 DEF ApprovalTold

(* A save of an approval is about to be told; a save past an approval was   *)
(* begun past one. *)
LEMMA ApprovalSave ==
    ASSUME LedgerInv, FreshInv, ApprovalInv, faults = 0, NEW c \in Callers, SaveRecord(c)
    PROVE  ApprovalInv'
<1>1. caller[c] # Idle /\ caller[c] \in Works /\ caller[c].at = "saving"
  BY DEF SaveRecord, At, Idle, LedgerInv, TypeOK
<1>2. /\ caller'[c] = [caller[c] EXCEPT !.at = "appending"]
      /\ \A d \in Callers : d # c => caller'[d] = caller[d]
      /\ log' = log
      /\ record' = [record EXCEPT ![caller[c].playbook] = caller[c].new]
  BY DEF SaveRecord, Goto, LedgerInv, TypeOK
<1>3. /\ caller'[c].at = "appending" /\ caller'[c].playbook = caller[c].playbook
      /\ caller'[c].new = caller[c].new /\ caller'[c] # Idle
      /\ caller[c].playbook \in Playbooks
  BY <1>1, <1>2 DEF Works, Idle
<1>4. SUFFICES ASSUME NEW p \in Playbooks, PastApproval(p)' PROVE ApprovalTold(p)'
  BY DEF ApprovalInv
<1>5. CASE p = caller[c].playbook /\ caller[c].new.state = "approved"
  BY <1>3, <1>5 DEF ApprovalTold
<1>6. CASE ~(p = caller[c].playbook /\ caller[c].new.state = "approved")
  <2>1. record'[p].state \in Later => \/ record[p].state \in Later
                                      \/ /\ p = caller[c].playbook
                                         /\ caller[c].new.state \in Executed
    BY <1>2, <1>3, <1>6 DEF LedgerInv, TypeOK, Later, Executed
  <2>2. PastApproval(p)
    <3>1. CASE record'[p].state \in Later
      BY <1>1, <2>1, <3>1 DEF PastApproval
    <3>2. CASE \E i \in 1..Len(log') :
                  log'[i].playbook = p /\ log'[i].new = "executed_simulated"
      BY <1>2, <3>2 DEF PastApproval
    <3>3. CASE \E d \in Callers : /\ caller'[d] # Idle
                                  /\ caller'[d].playbook = p
                                  /\ caller'[d].new.state \in Executed
      BY <1>1, <1>2, <1>3, <3>3, ZenonT(60) DEF PastApproval
    <3>. QED BY <1>4, <3>1, <3>2, <3>3 DEF PastApproval
  <2>3. ApprovalTold(p)
    BY <2>2 DEF ApprovalInv
  <2>. QED BY <1>1, <1>2, <2>3 DEF ApprovalTold
<1>. QED BY <1>5, <1>6

(* A set of entry numbers that is not empty has a largest. *)
LEMMA LargestExists ==
    ASSUME NEW n \in Nat, NEW S \in SUBSET (1..n), S # {}
    PROVE  \E j \in S : \A k \in S : k <= j
<1> DEFINE T == {n - k : k \in S}
           R == OpToRel(<, Nat)
<1>1. T \subseteq Nat /\ T # {}
  <2>1. \A k \in S : k \in 1..n /\ n - k \in Nat
    OBVIOUS
  <2>. QED BY <2>1
<1>2. IsWellFoundedOn(R, Nat)
  BY NatLessThanWellFounded
<1> HIDE DEF R
<1>3. PICK x \in T : \A y \in T : ~(<<y, x>> \in R)
  BY <1>1, <1>2, WFMin
<1>4. \A y \in T : ~(y < x)
  BY <1>1, <1>3 DEF R, OpToRel
<1>5. PICK j \in S : x = n - j
  OBVIOUS
<1>6. \A k \in S : n - k \in T /\ k \in Nat
  OBVIOUS
<1>7. \A k \in S : ~(n - k < n - j)
  BY <1>4, <1>5, <1>6
<1>8. \A k \in S : k <= j
  BY <1>6, <1>7
<1>. QED BY <1>8

(* A playbook's entries are finitely many. *)
LEMMA EntriesFinite ==
    ASSUME NEW chain \in Seq(Entries), NEW p
    PROVE  IsFiniteSet(EntriesOf(chain, p, Len(chain)))
<1>1. IsFiniteSet(1..Len(chain)) /\ EntriesOf(chain, p, Len(chain)) \subseteq 1..Len(chain)
  BY FS_Interval DEF EntriesOf
<1>. QED BY <1>1, FS_Subset

(* An entry at the end of a chain: what it adds to the entries of its       *)
(* playbook, and what they tell then. *)
LEMMA EntryAdded ==
    ASSUME NEW chain \in Seq(Entries), NEW e \in Entries, NEW p \in Playbooks
    PROVE  LET longer == Append(chain, e)
               n == Len(chain)
           IN  /\ Len(longer) = n + 1 /\ longer[n + 1] = e
               /\ \A i \in 1..n : longer[i] = chain[i]
               /\ \A i \in 0..n : Told(longer, p, i) = Told(chain, p, i)
               /\ p # e.playbook =>
                     /\ EntriesOf(longer, p, n + 1) = EntriesOf(chain, p, n)
                     /\ Told(longer, p, n + 1) = Told(chain, p, n)
               /\ p = e.playbook =>
                     /\ EntriesOf(longer, p, n + 1) = EntriesOf(chain, p, n) \cup {n + 1}
                     /\ Cardinality(EntriesOf(longer, p, n + 1)) =
                           Cardinality(EntriesOf(chain, p, n)) + 1
                     /\ Told(longer, p, n + 1) = e.new
<1> DEFINE longer == Append(chain, e)
           n == Len(chain)
<1>1. n \in Nat
  OBVIOUS
<1>2. /\ Len(longer) = n + 1 /\ longer[n + 1] = e
      /\ \A i \in 1..n : longer[i] = chain[i]
  OBVIOUS
<1> HIDE DEF longer, n
<1>3. \A i \in 0..n : EntriesOf(longer, p, i) = EntriesOf(chain, p, i)
  BY <1>1, <1>2 DEF EntriesOf
<1>4. ASSUME NEW i \in 0..n PROVE Told(longer, p, i) = Told(chain, p, i)
  <2> DEFINE own == EntriesOf(chain, p, i)
             last == Latest(own)
  <2>1. own = EntriesOf(longer, p, i)
    BY <1>3
  <2>2. CASE own = {}
    BY <2>1, <2>2 DEF Told
  <2>3. CASE own # {}
    <3>1. own \subseteq 1..i
      BY DEF EntriesOf
    <3>2. \E j \in own : \A k \in own : k <= j
      <4>1. i \in Nat /\ own \in SUBSET (1..i)
        BY <1>1, <3>1
      <4> HIDE DEF own
      <4>. QED BY <2>3, <4>1, LargestExists
    <3>3. last \in own
      BY <3>2 DEF Latest
    <3>4. longer[last] = chain[last]
      BY <1>1, <1>2, <3>1, <3>3
    <3>. QED BY <2>1, <2>3, <3>4 DEF Told
  <2>. QED BY <2>2, <2>3
<1>5. ASSUME p # e.playbook
      PROVE  /\ EntriesOf(longer, p, n + 1) = EntriesOf(chain, p, n)
             /\ Told(longer, p, n + 1) = Told(chain, p, n)
  <2>1. EntriesOf(longer, p, n + 1) = EntriesOf(longer, p, n)
    BY <1>1, <1>2, <1>5 DEF EntriesOf
  <2>2. n \in 0..n
    BY <1>1
  <2>3. Told(longer, p, n + 1) = Told(longer, p, n)
    BY <2>1 DEF Told
  <2>. QED BY <1>3, <1>4, <2>1, <2>2, <2>3
<1>6. ASSUME p = e.playbook
      PROVE  /\ EntriesOf(longer, p, n + 1) = EntriesOf(chain, p, n) \cup {n + 1}
             /\ Cardinality(EntriesOf(longer, p, n + 1)) =
                   Cardinality(EntriesOf(chain, p, n)) + 1
             /\ Told(longer, p, n + 1) = e.new
  <2>1. EntriesOf(longer, p, n + 1) = EntriesOf(chain, p, n) \cup {n + 1}
    BY <1>1, <1>2, <1>6 DEF EntriesOf
  <2>2. EntriesOf(chain, p, n) \subseteq 1..n /\ n + 1 \notin EntriesOf(chain, p, n)
    BY <1>1 DEF EntriesOf
  <2>3. IsFiniteSet(EntriesOf(chain, p, n))
    <3>1. IsFiniteSet(1..n)
      BY <1>1, FS_Interval
    <3>. QED BY <2>2, <3>1, FS_Subset
  <2>4. Cardinality(EntriesOf(longer, p, n + 1)) =
           Cardinality(EntriesOf(chain, p, n)) + 1
    BY <2>1, <2>2, <2>3, FS_AddElement
  <2> DEFINE own == EntriesOf(longer, p, n + 1)
             last == Latest(own)
  <2>5. n + 1 \in own /\ own # {} /\ \A k \in own : k \in Nat /\ k <= n + 1
    BY <1>1, <2>1, <2>2
  <2>6. last \in own /\ \A k \in own : k <= last
    BY <2>5 DEF Latest
  <2>7. last = n + 1
    <3> HIDE DEF own, last
    <3>. QED BY <1>1, <2>5, <2>6
  <2>8. Told(longer, p, n + 1) = longer[last].new
    BY <2>5 DEF Told
  <2>. QED BY <1>2, <2>1, <2>4, <2>7, <2>8
<1>. QED BY <1>2, <1>4, <1>5, <1>6 DEF longer, n

(* An append tells what its operation saved. *)
LEMMA ApprovalAppend ==
    ASSUME LedgerInv, FreshInv, ApprovalInv, faults = 0, NEW c \in Callers, NEW e \in Entries,
           caller[c] # Idle, caller'[c] = Idle, record' = record,
           \A d \in Callers : d # c => caller'[d] = caller[d],
           log' = Append(log, e), e.playbook = caller[c].playbook,
           e.new = caller[c].new.state
    PROVE  ApprovalInv'
<1>1. log \in Seq(Entries)
  BY DEF LedgerInv, TypeOK
<1>2. /\ Len(log') = Len(log) + 1 /\ log'[Len(log) + 1] = e /\ Len(log) \in Nat
      /\ \A i \in 1..Len(log) : log'[i] = log[i]
  BY <1>1
<1>3. SUFFICES ASSUME NEW p \in Playbooks, PastApproval(p)' PROVE ApprovalTold(p)'
  BY DEF ApprovalInv
<1>4. PastApproval(p)
  <2>1. CASE record'[p].state \in Later
    BY <2>1 DEF PastApproval
  <2>2. CASE \E d \in Callers : /\ caller'[d] # Idle
                                /\ caller'[d].playbook = p
                                /\ caller'[d].new.state \in Executed
    BY <2>2 DEF PastApproval
  <2>3. ASSUME NEW i \in 1..Len(log'),
               log'[i].playbook = p, log'[i].new = "executed_simulated"
        PROVE  PastApproval(p)
    <3>1. CASE i \in 1..Len(log)
      BY <1>2, <2>3, <3>1 DEF PastApproval
    <3>2. CASE i = Len(log) + 1
      BY <1>2, <2>3, <3>2 DEF PastApproval, Executed
    <3>. QED BY <1>2, <3>1, <3>2
  <2>. QED BY <1>3, <2>1, <2>2, <2>3 DEF PastApproval
<1>5. ApprovalTold(p)
  BY <1>4 DEF ApprovalInv
<1>6. CASE \E j \in 1..Len(log) : log[j].playbook = p /\ log[j].new = "approved"
  BY <1>2, <1>6 DEF ApprovalTold
<1>7. ASSUME NEW d \in Callers, caller[d].at = "appending",
             caller[d].playbook = p, caller[d].new.state = "approved"
      PROVE  ApprovalTold(p)'
  <2>1. CASE d = c
    <3>1. Len(log) + 1 \in 1..Len(log')
      BY <1>2
    <3>. QED BY <1>2, <1>7, <2>1, <3>1 DEF ApprovalTold
  <2>2. CASE d # c
    BY <1>7, <2>2 DEF ApprovalTold
  <2>. QED BY <2>1, <2>2
<1>. QED BY <1>5, <1>6, <1>7 DEF ApprovalTold

(* A step that neither begins, moves nor ends an operation on p, and        *)
(* neither saves its record nor appends an entry. *)
LEMMA LifeKept ==
    ASSUME NEW p \in Playbooks, LifeTold(p), log' = log,
           record'[p].state = record[p].state, record'[p].version = record[p].version,
           Changing(p)' = Changing(p),
           \A c \in Changing(p) : caller'[c] = caller[c]
    PROVE  LifeTold(p)'
BY DEF LifeTold

(* The one operation on p goes on to another place before its save. *)
LEMMA LifeMoves ==
    ASSUME NEW p \in Playbooks, LifeTold(p), log' = log,
           record'[p].state = record[p].state, record'[p].version = record[p].version,
           NEW c \in Callers, Changing(p) = {c}, Changing(p)' = {c},
           caller'[c].old = caller[c].old, caller'[c].new = caller[c].new,
           caller[c].at # "appending", caller'[c].at \in {"verifying", "sealing", "saving"}
    PROVE  LifeTold(p)'
BY DEF LifeTold

(* The one operation on p gives up before its save. *)
LEMMA LifeRefused ==
    ASSUME LedgerInv, NEW p \in Playbooks, LifeTold(p), log' = log,
           record'[p].state = record[p].state, record'[p].version = record[p].version,
           NEW c \in Callers, Changing(p) = {c}, Changing(p)' = {},
           caller[c] # Idle, caller[c].at # "appending"
    PROVE  LifeTold(p)'
<1>1. record[p].version \in Nat /\ caller[c].new.version \in Nat
  BY SMTT(40) DEF LedgerInv, TypeOK, Works, Records
<1>2. IsFiniteSet(EntriesOf(log, p, Len(log)))
  BY EntriesFinite DEF LedgerInv, TypeOK
<1>3. Cardinality(EntriesOf(log, p, Len(log))) \in Nat
  BY <1>2, FS_CardinalityType
<1>. QED BY <1>1, <1>3 DEF LifeTold

(* An operation begins on p, where none was under way. *)
LEMMA LifeBegins ==
    ASSUME LedgerInv, NEW p \in Playbooks, LifeTold(p), log' = log, record' = record,
           NEW c \in Callers, Changing(p) = {}, Changing(p)' = {c},
           caller'[c].at \in {"verifying", "saving"}, caller'[c].old = record[p].state,
           caller'[c].new.version = record[p].version + 1
    PROVE  LifeTold(p)'
BY DEF LifeTold

(* The one operation on p saves the record. *)
LEMMA LifeSaves ==
    ASSUME NEW p \in Playbooks, LifeTold(p), log' = log,
           NEW c \in Callers, Changing(p) = {c}, Changing(p)' = {c},
           caller'[c].old = caller[c].old, caller'[c].new = caller[c].new,
           record'[p] = caller[c].new, caller'[c].at = "appending"
    PROVE  LifeTold(p)'
BY DEF LifeTold

(* The one operation on p appends its entry and is over. *)
LEMMA LifeAppends ==
    ASSUME LedgerInv, NEW p \in Playbooks, LifeTold(p), NEW e \in Entries,
           log' = Append(log, e), record' = record,
           NEW c \in Callers, Changing(p) = {c}, Changing(p)' = {},
           caller[c].at = "appending",
           e.playbook = p, e.old = caller[c].old, e.new = caller[c].new.state
    PROVE  LifeTold(p)'
<1> DEFINE n == Len(log)
<1>1. log \in Seq(Entries) /\ n \in Nat
  BY DEF LedgerInv, TypeOK
<1>2. /\ Len(log') = n + 1 /\ log'[n + 1] = e
      /\ \A i \in 1..n : log'[i] = log[i]
      /\ \A i \in 0..n : Told(log', p, i) = Told(log, p, i)
      /\ EntriesOf(log', p, n + 1) = EntriesOf(log, p, n) \cup {n + 1}
      /\ Cardinality(EntriesOf(log', p, n + 1)) = Cardinality(EntriesOf(log, p, n)) + 1
      /\ Told(log', p, n + 1) = e.new
  BY <1>1, EntryAdded
<1>3. EntriesOf(log, p, n) \subseteq 1..n
  BY DEF EntriesOf
<1>4. ASSUME NEW i \in EntriesOf(log', p, n + 1)
      PROVE  log'[i].old = Told(log', p, i - 1)
  <2>1. CASE i \in EntriesOf(log, p, n)
    <3>1. i \in 1..n /\ i - 1 \in 0..n
      BY <1>1, <1>3, <2>1
    <3>2. log[i].old = Told(log, p, i - 1)
      BY <2>1 DEF LifeTold
    <3>. QED BY <1>2, <3>1, <3>2
  <2>2. CASE i = n + 1
    <3>1. i - 1 = n /\ n \in 0..n
      BY <1>1, <2>2
    <3>2. e.old = Told(log, p, n)
      BY DEF LifeTold
    <3>. QED BY <1>2, <2>2, <3>1, <3>2
  <2>. QED BY <1>2, <1>4, <2>1, <2>2
<1>5. Cardinality(EntriesOf(log', p, n + 1)) = record'[p].version
  BY <1>2 DEF LifeTold
<1>6. Told(log', p, n + 1) = record'[p].state
  BY <1>2 DEF LifeTold
<1>. QED BY <1>2, <1>4, <1>5, <1>6 DEF LifeTold

(* Another playbook's entry leaves what the chain tells of p. *)
LEMMA LifeAside ==
    ASSUME LedgerInv, NEW p \in Playbooks, LifeTold(p), NEW e \in Entries,
           log' = Append(log, e), record' = record, e.playbook # p,
           Changing(p)' = Changing(p), \A c \in Changing(p) : caller'[c] = caller[c]
    PROVE  LifeTold(p)'
<1> DEFINE n == Len(log)
<1>1. log \in Seq(Entries) /\ n \in Nat
  BY DEF LedgerInv, TypeOK
<1>2. /\ Len(log') = n + 1
      /\ \A i \in 1..n : log'[i] = log[i]
      /\ \A i \in 0..n : Told(log', p, i) = Told(log, p, i)
      /\ EntriesOf(log', p, n + 1) = EntriesOf(log, p, n)
      /\ Told(log', p, n + 1) = Told(log, p, n)
  BY <1>1, EntryAdded
<1>3. ASSUME NEW i \in EntriesOf(log, p, n)
      PROVE  log'[i].old = Told(log', p, i - 1)
  <2>1. i \in 1..n /\ i - 1 \in 0..n
    BY <1>1, <1>3 DEF EntriesOf
  <2>2. log[i].old = Told(log, p, i - 1)
    BY <1>3 DEF LifeTold
  <2>. QED BY <1>2, <2>1, <2>2
<1>4. /\ EntriesOf(log', p, Len(log')) = EntriesOf(log, p, Len(log))
      /\ Told(log', p, Len(log')) = Told(log, p, Len(log))
  BY <1>2
<1>5. ASSUME Changing(p)' = {}
      PROVE  /\ Cardinality(EntriesOf(log', p, Len(log'))) = record'[p].version
             /\ Told(log', p, Len(log')) = record'[p].state
  BY <1>4, <1>5 DEF LifeTold
<1>6. \A c \in Changing(p)' :
         /\ Cardinality(EntriesOf(log', p, Len(log'))) + 1 = caller'[c].new.version
         /\ Told(log', p, Len(log')) = caller'[c].old
         /\ \/ /\ caller'[c].at \in {"verifying", "sealing", "saving"}
               /\ record'[p].state = caller'[c].old
               /\ record'[p].version + 1 = caller'[c].new.version
            \/ /\ caller'[c].at = "appending"
               /\ record'[p].state = caller'[c].new.state
               /\ record'[p].version = caller'[c].new.version
  BY <1>4 DEF LifeTold
<1>. QED BY <1>3, <1>4, <1>5, <1>6 DEF LifeTold

(* One thread moves; the operations on a playbook are then those of the     *)
(* other threads, and its own. *)
LEMMA ChangingStep ==
    ASSUME LedgerInv, FreshInv, NEW c \in Callers, NEW p \in Playbooks \ overlapped,
           \A d \in Callers : d # c => caller'[d] = caller[d]
    PROVE  /\ c \in Changing(p) => Changing(p) = {c}
           /\ c \notin Changing(p) /\ c \notin Changing(p)' =>
                 /\ Changing(p)' = Changing(p)
                 /\ \A d \in Changing(p) : caller'[d] = caller[d]
           /\ c \in Changing(p) /\ c \in Changing(p)' => Changing(p)' = {c}
           /\ c \in Changing(p) /\ c \notin Changing(p)' => Changing(p)' = {}
           /\ Changing(p) = {} /\ c \in Changing(p)' => Changing(p)' = {c}
<1>1. \A d \in Callers : d \in Changing(p) <=> Changes(d) /\ caller[d].playbook = p
  BY DEF Changing, Busy, Changes
<1>2. \A d \in Callers : d \in Changing(p)' <=>
                              caller'[d] # Idle /\ ~IsCallback(caller'[d])
                              /\ caller'[d].playbook = p
  BY DEF Changing, Busy
<1>3. Changing(p) \subseteq Callers /\ Changing(p)' \subseteq Callers
  BY DEF Changing, Busy
<1>4. \A d \in Callers : d # c => (d \in Changing(p)' <=> d \in Changing(p))
  BY <1>1, <1>2 DEF Changes
<1>5. \A d, e \in Changing(p) : d = e
  BY <1>1, <1>3 DEF FreshInv, OneChange
<1>. QED BY <1>3, <1>4, <1>5

(* The start of an operation on q. *)
LEMMA AccountBegin ==
    ASSUME LedgerInv, FreshInv, LifeInv, ApprovalInv, faults = 0,
           NEW c \in Callers, caller[c] = Idle,
           NEW q \in Playbooks, NEW place \in {"verifying", "saving"}, NEW new \in Records,
           Begin(c, Work(place, q, record[q].state, new)),
           UNCHANGED <<record, log, faults>>,
           new.version = record[q].version + 1, new.state # "none",
           new.state \in Executed => record[q].state \in Later
    PROVE  ApprovalInv' /\ LifeInv'
<1> DEFINE work == Work(place, q, record[q].state, new)
<1>1. /\ work.playbook = q /\ work.old = record[q].state /\ work.new = new
      /\ work.at = place
  BY DEF Work
<1>2. /\ caller'[c] = work /\ \A d \in Callers : d # c => caller'[d] = caller[d]
      /\ overlapped' = IF Changing(q) = {} THEN overlapped ELSE overlapped \cup {q}
  BY <1>1 DEF Begin, Goto, LedgerInv, TypeOK
<1> HIDE DEF work
<1>3. work # Idle
  BY <1>1 DEF Idle
<1>4. ~IsCallback(work)
  BY <1>1 DEF IsCallback
<1>5. ApprovalInv'
  <2>1. \A d \in Callers : caller[d].at = "appending" => caller'[d] = caller[d]
    BY <1>2 DEF Idle
  <2>2. ASSUME NEW d \in Callers, caller'[d] # Idle,
               caller'[d].new.state \in Executed, caller'[d].playbook \in Playbooks
        PROVE  PastApproval(caller'[d].playbook)
    <3>1. CASE d = c
      BY <1>1, <1>2, <2>2, <3>1 DEF PastApproval
    <3>2. CASE d # c
      BY <1>2, <2>2, <3>2 DEF PastApproval
    <3>. QED BY <3>1, <3>2
  <2>. QED BY <2>1, <2>2, ApprovalOn
<1>6. ASSUME NEW p \in Playbooks \ overlapped' PROVE LifeTold(p)'
  <2>1. p \notin overlapped /\ LifeTold(p)
    BY <1>2 DEF LifeInv
  <2>2. c \notin Changing(p)
    BY DEF Changing, Busy
  <2>3. CASE p = q
    <3>1. Changing(p) = {}
      BY <1>2, <1>6, <2>3
    <3>2. c \in Changing(p)'
      BY <1>1, <1>2, <1>3, <1>4, <2>3 DEF Changing, Busy
    <3>3. Changing(p)' = {c}
      BY <1>2, <2>1, <3>1, <3>2, ChangingStep
    <3>. QED BY <1>1, <1>2, <2>1, <2>3, <3>1, <3>3, LifeBegins
  <2>4. CASE p # q
    <3>1. c \notin Changing(p)'
      BY <1>1, <1>2, <2>4 DEF Changing
    <3>2. Changing(p)' = Changing(p) /\ \A d \in Changing(p) : caller'[d] = caller[d]
      BY <1>2, <2>1, <2>2, <3>1, ChangingStep
    <3>. QED BY <2>1, <3>2, LifeKept
  <2>. QED BY <2>3, <2>4
<1>. QED BY <1>5, <1>6 DEF LifeInv

(* A step that saves and appends nothing, of a thread that works on, or     *)
(* gives up before its save. *)
LEMMA AccountOn ==
    ASSUME LedgerInv, FreshInv, LifeInv, ApprovalInv, faults = 0,
           NEW c \in Callers, caller[c] # Idle, caller[c].at # "appending",
           UNCHANGED <<log, overlapped>>,
           \A p \in Playbooks : /\ record'[p].state = record[p].state
                                /\ record'[p].version = record[p].version,
           \A d \in Callers : d # c => caller'[d] = caller[d],
           \/ caller'[c] = Idle
           \/ /\ caller'[c].playbook = caller[c].playbook
              /\ caller'[c].old = caller[c].old
              /\ caller'[c].new = caller[c].new
              /\ caller'[c] # Idle
              /\ /\ ~IsCallback(caller[c])
                 /\ caller[c].at \in {"verifying", "sealing", "saving"}
                 => caller'[c].at \in {"verifying", "sealing", "saving"}
    PROVE  ApprovalInv' /\ LifeInv'
<1>1. ApprovalInv'
  <2>1. \A d \in Callers : caller[d].at = "appending" => caller'[d] = caller[d]
    OBVIOUS
  <2>2. ASSUME NEW d \in Callers, caller'[d] # Idle,
               caller'[d].new.state \in Executed, caller'[d].playbook \in Playbooks
        PROVE  PastApproval(caller'[d].playbook)
    <3>1. CASE d = c
      BY <2>2, <3>1 DEF PastApproval
    <3>2. CASE d # c
      BY <2>2, <3>2 DEF PastApproval
    <3>. QED BY <3>1, <3>2
  <2>. QED BY <2>1, <2>2, ApprovalOn
<1>2. ASSUME NEW p \in Playbooks \ overlapped PROVE LifeTold(p)'
  <2>1. LifeTold(p)
    BY DEF LifeInv
  <2>2. CASE c \notin Changing(p)
    <3>1. c \notin Changing(p)'
      BY <2>2 DEF Changing, Busy, IsCallback
    <3>2. Changing(p)' = Changing(p) /\ \A d \in Changing(p) : caller'[d] = caller[d]
      BY <2>2, <3>1, ChangingStep
    <3>. QED BY <2>1, <3>2, LifeKept
  <2>3. CASE c \in Changing(p) /\ caller'[c] = Idle
    <3>1. c \notin Changing(p)'
      BY <2>3 DEF Changing, Busy
    <3>2. Changing(p) = {c} /\ Changing(p)' = {}
      BY <2>3, <3>1, ChangingStep
    <3>. QED BY <2>1, <3>2, LifeRefused
  <2>4. CASE c \in Changing(p) /\ caller'[c] # Idle
    <3>1. c \in Changing(p)' /\ ~IsCallback(caller[c])
      BY <2>4 DEF Changing, Busy, IsCallback
    <3>2. Changing(p) = {c} /\ Changing(p)' = {c}
      BY <2>4, <3>1, ChangingStep
    <3>3. caller[c].at \in {"verifying", "sealing", "saving"}
      BY <2>1, <2>4 DEF LifeTold
    <3>. QED BY <2>1, <2>4, <3>1, <3>2, <3>3, LifeMoves
  <2>. QED BY <2>2, <2>3, <2>4
<1>. QED BY <1>1, <1>2 DEF LifeInv

(* The save of an operation. *)
LEMMA AccountSave ==
    ASSUME LedgerInv, FreshInv, LifeInv, ApprovalInv, faults = 0,
           NEW c \in Callers, SaveRecord(c)
    PROVE  ApprovalInv' /\ LifeInv'
<1>1. caller[c] # Idle /\ caller[c] \in Works /\ caller[c].at = "saving"
  BY DEF SaveRecord, At, Idle, LedgerInv, TypeOK
<1>2. /\ caller'[c] = [caller[c] EXCEPT !.at = "appending"]
      /\ \A d \in Callers : d # c => caller'[d] = caller[d]
      /\ UNCHANGED <<log, overlapped>>
      /\ record' = [record EXCEPT ![caller[c].playbook] = caller[c].new]
  BY DEF SaveRecord, Goto, LedgerInv, TypeOK
<1>3. /\ caller'[c].at = "appending" /\ caller'[c].playbook = caller[c].playbook
      /\ caller'[c].new = caller[c].new /\ caller'[c].old = caller[c].old
      /\ caller'[c] # Idle
  BY <1>1, <1>2 DEF Works, Idle
<1>4. ~IsCallback(caller[c])
  BY <1>1 DEF FreshInv, CallbackPlaces
<1>5. ASSUME NEW p \in Playbooks \ overlapped PROVE LifeTold(p)'
  <2>1. LifeTold(p)
    BY DEF LifeInv
  <2>2. CASE p = caller[c].playbook
    <3>1. c \in Changing(p) /\ c \in Changing(p)'
      BY <1>1, <1>3, <1>4, <2>2 DEF Changing, Busy, IsCallback
    <3>2. Changing(p) = {c} /\ Changing(p)' = {c}
      BY <1>2, <3>1, ChangingStep
    <3>3. record'[p] = caller[c].new
      BY <1>2, <2>2 DEF LedgerInv, TypeOK
    <3>. QED BY <1>2, <1>3, <2>1, <3>2, <3>3, LifeSaves
  <2>3. CASE p # caller[c].playbook
    <3>1. c \notin Changing(p) /\ c \notin Changing(p)'
      BY <1>3, <2>3 DEF Changing
    <3>2. Changing(p)' = Changing(p) /\ \A d \in Changing(p) : caller'[d] = caller[d]
      BY <1>2, <3>1, ChangingStep
    <3>3. record'[p] = record[p]
      BY <1>2, <2>3 DEF LedgerInv, TypeOK
    <3>. QED BY <1>2, <2>1, <3>2, <3>3, LifeKept
  <2>. QED BY <2>2, <2>3
<1>. QED BY <1>2, <1>5, ApprovalSave DEF LifeInv

(* Its entry. *)
LEMMA AccountAppend ==
    ASSUME LedgerInv, FreshInv, LifeInv, ApprovalInv, faults = 0,
           NEW c \in Callers, AppendAuditEvent(c)
    PROVE  ApprovalInv' /\ LifeInv'
<1>1. caller[c] # Idle /\ caller[c] \in Works /\ caller[c].at = "appending"
  BY DEF AppendAuditEvent, At, Idle, LedgerInv, TypeOK
<1>2. /\ caller'[c] = Idle
      /\ \A d \in Callers : d # c => caller'[d] = caller[d]
      /\ UNCHANGED <<record, overlapped>>
  BY DEF AppendAuditEvent, Goto, LedgerInv, TypeOK
<1>3. ~IsCallback(caller[c])
  BY <1>1 DEF FreshInv, CallbackPlaces
<1>4. LastDigest(caller[c].playbook) \in Nat /\ Len(log) \in Nat
  <2>1. log \in Seq(Entries)
    BY DEF LedgerInv, TypeOK
  <2>2. log # <<>> => log[Len(log)] \in Entries
    BY <2>1
  <2>. QED BY <2>1, <2>2 DEF LastDigest, Genesis, Entries
<1>5. PICK e \in Entries : /\ log' = Append(log, e)
                           /\ e.playbook = caller[c].playbook
                           /\ e.old = caller[c].old
                           /\ e.new = caller[c].new.state
  <2> DEFINE e == [digest |-> Len(log) + 1, prev |-> LastDigest(caller[c].playbook),
                   sequence |-> Len(log) + 1, playbook |-> caller[c].playbook,
                   old |-> caller[c].old, new |-> caller[c].new.state]
  <2>1. e \in Entries
    BY <1>1, <1>4 DEF Entries, Works, Records
  <2>2. log' = Append(log, e)
    BY DEF AppendAuditEvent
  <2>. QED BY <2>1, <2>2
<1>6. ApprovalInv'
  BY <1>1, <1>2, <1>5, ApprovalAppend
<1>7. ASSUME NEW p \in Playbooks \ overlapped PROVE LifeTold(p)'
  <2>1. LifeTold(p)
    BY DEF LifeInv
  <2>2. c \notin Changing(p)'
    BY <1>2 DEF Changing, Busy
  <2>3. CASE p = caller[c].playbook
    <3>1. c \in Changing(p)
      BY <1>1, <1>3, <2>3 DEF Changing, Busy
    <3>2. Changing(p) = {c} /\ Changing(p)' = {}
      BY <1>2, <2>2, <3>1, ChangingStep
    <3>. QED BY <1>1, <1>2, <1>5, <2>1, <2>3, <3>2, LifeAppends
  <2>4. CASE p # caller[c].playbook
    <3>1. c \notin Changing(p)
      BY <2>4 DEF Changing
    <3>2. Changing(p)' = Changing(p) /\ \A d \in Changing(p) : caller'[d] = caller[d]
      BY <1>2, <2>2, <3>1, ChangingStep
    <3>. QED BY <1>2, <1>5, <2>1, <2>4, <3>2, LifeAside
  <2>. QED BY <2>3, <2>4
<1>. QED BY <1>2, <1>6, <1>7 DEF LifeInv

(* Every step keeps the account, for as long as nothing was cut short. *)
LEMMA AccountStep ==
    ASSUME LedgerInv, FreshInv, LifeInv, ApprovalInv, [Next]_vars
    PROVE  ApprovalInv' /\ LifeInv'
<1>1. CASE faults' # 0
  BY <1>1 DEF ApprovalInv, LifeInv
<1>2. CASE UNCHANGED vars
  BY <1>2 DEF vars, ApprovalInv, PastApproval, ApprovalTold, LifeInv, LifeTold, Changing, Busy
<1>3. CASE Next /\ faults' = 0
  <2>1. faults = 0 /\ \A c \in Callers : ~CutShort(c)
    <3>1. faults \in Nat
      BY LedgerConfiguration DEF LedgerInv, TypeOK
    <3>2. faults' = faults \/ faults' = faults + 1
      BY <1>3, ZenonT(60) DEF Next, Recommend, Callback, Decide, Execute, Rollback, ReadRows,
                  ReadSeal, SaveRecord, AppendAuditEvent, CallbackCheck,
                  RecordCallback, CutShort
    <3>3. faults = 0 /\ faults' # faults + 1
      BY <1>3, <3>1, <3>2
    <3>. QED BY <3>3 DEF CutShort
  <2>2. ASSUME NEW c \in Callers, NEW p \in Playbooks, Recommend(c, p)
        PROVE  ApprovalInv' /\ LifeInv'
    <3>1. record[p].state = "none" /\ record[p].version = 0
      BY <2>2 DEF Recommend, NoRecord
    <3>2. /\ Pending.version = 1 /\ Pending.state = "pending_approval"
          /\ Pending \in Records
      BY DEF Pending, Records, States
    <3>3. /\ Pending.version = record[p].version + 1 /\ Pending.state # "none"
          /\ Pending.state \notin Executed
      BY <3>1, <3>2 DEF Executed
    <3>4. Begin(c, Work("saving", p, record[p].state, Pending))
      BY <2>2, <3>1 DEF Recommend
    <3>. QED BY <2>1, <2>2, <3>2, <3>3, <3>4, AccountBegin DEF Recommend
  <2>3. ASSUME NEW c \in Callers, NEW p \in Playbooks, NEW actor \in Actors,
               Decide(c, p, actor) \/ Execute(c, p, actor) \/ Rollback(c, p, actor)
        PROVE  ApprovalInv' /\ LifeInv'
    <3>1. PICK place \in {"verifying", "saving"}, state \in States :
             /\ Begin(c, Work(place, p, record[p].state, Updated(p, state, actor)))
             /\ \/ record[p].state = "pending_approval" /\ state \in {"approved", "rejected"}
                \/ record[p].state = "approved" /\ state = "executed_simulated"
                \/ record[p].state = "executed_simulated" /\ state = "rolled_back"
      BY <2>3 DEF Decide, Execute, Rollback, MayDecide, MayExecute, States
    <3>2. Updated(p, state, actor) \in Records
      BY <3>1, UpdatedFacts
    <3>3. /\ Updated(p, state, actor).version = record[p].version + 1
          /\ Updated(p, state, actor).state = state
      BY DEF Updated
    <3>4. state # "none" /\ (state \in Executed => record[p].state \in Later)
      BY <3>1 DEF Executed, Later
    <3>5. caller[c] = Idle /\ UNCHANGED <<record, log, faults>>
      BY <2>3 DEF Decide, Execute, Rollback
    <3>. QED BY <2>1, <3>1, <3>2, <3>3, <3>4, <3>5, AccountBegin
  <2>4. ASSUME NEW c \in Callers, ReadRows(c) PROVE ApprovalInv' /\ LifeInv'
    <3>1. caller[c] # Idle /\ caller[c] \in Works /\ caller[c].at = "verifying"
      BY <2>4 DEF ReadRows, At, Idle, LedgerInv, TypeOK
    <3>2. /\ caller'[c] = [caller[c] EXCEPT !.at = "sealing", !.rows = Len(log)]
          /\ \A d \in Callers : d # c => caller'[d] = caller[d]
      BY <2>4 DEF ReadRows, Goto, LedgerInv, TypeOK
    <3>3. /\ caller'[c].playbook = caller[c].playbook /\ caller'[c].old = caller[c].old
          /\ caller'[c].new = caller[c].new /\ caller'[c].at = "sealing"
          /\ caller'[c] # Idle
      BY <3>1, <3>2 DEF Works, Idle
    <3>. QED BY <2>1, <2>4, <3>1, <3>2, <3>3, AccountOn DEF ReadRows
  <2>5. ASSUME NEW c \in Callers, ReadSeal(c) PROVE ApprovalInv' /\ LifeInv'
    <3>1. caller[c] # Idle /\ caller[c] \in Works /\ caller[c].at = "sealing"
      BY <2>5 DEF ReadSeal, At, Idle, LedgerInv, TypeOK
    <3>2. /\ \/ caller'[c] = Idle
             \/ caller'[c] = [caller[c] EXCEPT !.at = "checking"] /\ IsCallback(caller[c])
             \/ caller'[c] = [caller[c] EXCEPT !.at = "saving"]
          /\ \A d \in Callers : d # c => caller'[d] = caller[d]
      BY <2>5 DEF ReadSeal, Goto, LedgerInv, TypeOK
    <3>3. \/ caller'[c] = Idle
          \/ /\ caller'[c].playbook = caller[c].playbook /\ caller'[c].old = caller[c].old
             /\ caller'[c].new = caller[c].new /\ caller'[c] # Idle
             /\ ~IsCallback(caller[c]) => caller'[c].at = "saving"
      BY <3>1, <3>2 DEF Works, Idle
    <3>. QED BY <2>1, <2>5, <3>1, <3>2, <3>3, AccountOn DEF ReadSeal
  <2>6. ASSUME NEW c \in Callers, SaveRecord(c) PROVE ApprovalInv' /\ LifeInv'
    BY <2>1, <2>6, AccountSave
  <2>7. ASSUME NEW c \in Callers, AppendAuditEvent(c) PROVE ApprovalInv' /\ LifeInv'
    BY <2>1, <2>7, AccountAppend
  <2>8. ASSUME NEW c \in Callers, NEW p \in Playbooks, Callback(c, p)
        PROVE  ApprovalInv' /\ LifeInv'
    <3>1. /\ caller'[c] = CallbackWork(p) /\ caller[c] = Idle
          /\ \A d \in Callers : d # c => caller'[d] = caller[d]
          /\ UNCHANGED <<record, log, overlapped>>
      BY <2>8 DEF Callback, Goto, LedgerInv, TypeOK
    <3>2. IsCallback(caller'[c]) /\ caller'[c].new.state \notin Executed
      BY <3>1 DEF IsCallback, CallbackWork, Work, NoRecord, Executed
    <3>3. ApprovalInv'
      <4>1. \A d \in Callers : caller[d].at = "appending" => caller'[d] = caller[d]
        BY <3>1 DEF Idle
      <4>2. ASSUME NEW d \in Callers, caller'[d] # Idle,
                   caller'[d].new.state \in Executed, caller'[d].playbook \in Playbooks
            PROVE  PastApproval(caller'[d].playbook)
        BY <3>1, <3>2, <4>2 DEF PastApproval
      <4>. QED BY <2>1, <3>1, <4>1, <4>2, ApprovalOn
    <3>4. ASSUME NEW q \in Playbooks \ overlapped PROVE LifeTold(q)'
      <4>1. LifeTold(q)
        BY <2>1 DEF LifeInv
      <4>2. c \notin Changing(q) /\ c \notin Changing(q)'
        BY <3>1, <3>2 DEF Changing, Busy
      <4>3. Changing(q)' = Changing(q) /\ \A d \in Changing(q) : caller'[d] = caller[d]
        BY <3>1, <4>2, ChangingStep
      <4>. QED BY <3>1, <4>1, <4>3, LifeKept
    <3>. QED BY <3>1, <3>3, <3>4 DEF LifeInv
  <2>9. ASSUME NEW c \in Callers, CallbackCheck(c) \/ RecordCallback(c)
        PROVE  ApprovalInv' /\ LifeInv'
    <3>1. /\ caller[c] # Idle /\ caller[c] \in Works
          /\ caller[c].at \in {"checking", "timing"}
      BY <2>9 DEF CallbackCheck, RecordCallback, At, Idle, LedgerInv, TypeOK
    <3>2. /\ \/ caller'[c] = Idle
             \/ caller'[c] = [caller[c] EXCEPT !.at = "timing"]
          /\ \A d \in Callers : d # c => caller'[d] = caller[d]
          /\ UNCHANGED <<log, overlapped>>
      BY <2>9 DEF CallbackCheck, RecordCallback, Goto, LedgerInv, TypeOK
    <3>3. \A p \in Playbooks : /\ record'[p].state = record[p].state
                               /\ record'[p].version = record[p].version
      BY <2>9, <3>1 DEF CallbackCheck, RecordCallback, LedgerInv, TypeOK, Records, Works
    <3>4. \/ caller'[c] = Idle
          \/ /\ caller'[c].playbook = caller[c].playbook /\ caller'[c].old = caller[c].old
             /\ caller'[c].new = caller[c].new /\ caller'[c] # Idle
      BY <3>1, <3>2 DEF Works, Idle
    <3>. QED BY <2>1, <3>1, <3>2, <3>3, <3>4, AccountOn
  <2>. QED BY <1>3, <2>1, <2>2, <2>3, <2>4, <2>5, <2>6, <2>7, <2>8, <2>9 DEF Next
<1>. QED BY <1>1, <1>2, <1>3

(* The chain accounts for what became of each playbook, however the         *)
(* threads' three transactions interleave: an execution it tells of was     *)
(* approved there, and a playbook whose operations kept apart has its whole *)
(* life in it, an entry for every version of its record.                    *)
THEOREM ChainAccounts == Spec => []LifeInChain
<1>1. ASSUME LedgerInv, ApprovalInv, LifeInv PROVE LifeInChain
  <2>1. ExecutionHasApproval
    <3>1. SUFFICES ASSUME faults = 0, Busy = {}, NEW i \in 1..Len(log),
                          log[i].new = "executed_simulated"
                   PROVE  \E j \in 1..Len(log) : /\ log[j].playbook = log[i].playbook
                                                 /\ log[j].new = "approved"
      BY DEF ExecutionHasApproval
    <3>2. log[i].playbook \in Playbooks
      <4>1. log[i] \in Entries
        BY <1>1 DEF LedgerInv, TypeOK
      <4>. QED BY <4>1 DEF Entries
    <3>3. ApprovalTold(log[i].playbook)
      BY <1>1, <3>1, <3>2 DEF ApprovalInv, PastApproval
    <3>4. \A c \in Callers : caller[c].at # "appending"
      BY <3>1 DEF Busy, Idle
    <3>. QED BY <3>3, <3>4 DEF ApprovalTold
  <2>2. AuditTellsLife
    BY <1>1 DEF AuditTellsLife, LifeInv, LifeTold
  <2>. QED BY <2>1, <2>2 DEF LifeInChain
<1>. QED BY <1>1, AccountInit, AccountStep, InvHolds, FreshHolds, PTL DEF Spec
=============================================================================
