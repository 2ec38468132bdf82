------------------------- MODULE SoarPlaybookLedger -------------------------
(* ApprovalGatedSoarEngine over SoarPlaybookSqliteRepository: playbook       *)
(* records, and the audit chain with its sealed head, used by the request    *)
(* threads of one server.                                                    *)
(*                                                                           *)
(* Each engine operation reads the record, writes it back whole, and then    *)
(* appends its audit entry: three separate transactions, so three steps.     *)
(* Verifying the chain is two more: the rows are read in one SELECT and the  *)
(* seal in another, with no transaction around them.                         *)
(* An entry's HMAC stands for the number of the entry it was computed for;   *)
(* collisions and edits from outside are left out.                           *)
EXTENDS Naturals, Sequences, FiniteSets

CONSTANTS
    Playbooks,   \* playbook_id values
    Actors,      \* actor_id values
    Callers,     \* request threads
    NoActor,
    MaxEntries,  \* bound: audit entries ever written
    MaxFaults    \* bound: operations cut short by an error or a crash

ASSUME LedgerConfiguration ==
    /\ NoActor \notin Actors
    /\ MaxEntries \in Nat /\ MaxFaults \in Nat

VARIABLES
    record,   \* soar_playbook_records
    log,      \* soar_audit_events in rowid order
    seal,     \* soar_ledger_head_seal
    caller,   \* where each thread is, and what it has read
    faults,   \* operations cut short so far
    overlapped  \* history: playbooks on which two operations overlapped

vars == <<record, log, seal, caller, faults, overlapped>>

States == {"none", "pending_approval", "approved", "rejected",
           "executed_simulated", "rolled_back"}
Genesis == 0

Records == [state : States, version : 0..4, actor : Actors \cup {NoActor},
            answered : BOOLEAN]
NoRecord == [state |-> "none", version |-> 0, actor |-> NoActor,
             answered |-> FALSE]
Pending == [state |-> "pending_approval", version |-> 1, actor |-> NoActor,
            answered |-> FALSE]

Entries == [digest : Nat, prev : Nat, sequence : Nat, playbook : Playbooks,
            old : States, new : States]
Idle == [at |-> "idle"]

(* A change of playbook p from state old to record new; rows is what its    *)
(* verification of the chain has read.                                      *)
Work(place, p, old, new) ==
    [at |-> place, playbook |-> p, old |-> old, new |-> new, rows |-> 0]

(* A callback for p changes no state. *)
CallbackWork(p) == Work("verifying", p, "none", NoRecord)
IsCallback(work) == work.new.state = "none"

Works == [at : {"verifying", "sealing", "saving", "appending", "checking", "timing"},
          playbook : Playbooks, old : States, new : Records, rows : Nat]

TypeOK ==
    /\ record \in [Playbooks -> Records]
    /\ log \in Seq(Entries)
    /\ seal \in [count : Nat, head : Nat]
    /\ caller \in [Callers -> Works \cup {Idle}]
    /\ faults \in 0..MaxFaults
    /\ overlapped \subseteq Playbooks

Init ==
    /\ record = [p \in Playbooks |-> NoRecord]
    /\ log = <<>>
    /\ seal = [count |-> 0, head |-> Genesis]
    /\ caller = [c \in Callers |-> Idle]
    /\ faults = 0
    /\ overlapped = {}

-----------------------------------------------------------------------------
(* verify_audit_chain_integrity, applied to the first n rows. *)
LinkedTo(n) ==
    \A i \in 1..n :
        /\ log[i].prev = IF i = 1 THEN Genesis ELSE log[i - 1].digest
        /\ log[i].sequence = i
SealedAt(n) == seal = [count |-> n, head |-> log[n].digest]
ChainVerified(n) == n > 0 /\ LinkedTo(n) /\ SealedAt(n)
HasEntry(p, n) == \E i \in 1..n : log[i].playbook = p

Busy == {c \in Callers : caller[c] # Idle}
Room == Len(log) + Cardinality(Busy) < MaxEntries
At(c, place) == caller[c].at = place
Goto(c, work) == caller' = [caller EXCEPT ![c] = work]

(* The threads inside an engine operation on p, and the start of another. *)
Changing(p) == {c \in Busy : ~IsCallback(caller[c]) /\ caller[c].playbook = p}
Begin(c, work) ==
    /\ Goto(c, work)
    /\ overlapped' = IF Changing(work.playbook) = {} THEN overlapped
                     ELSE overlapped \cup {work.playbook}

Updated(p, state, actor) ==
    [state |-> state, version |-> record[p].version + 1, actor |-> actor,
     answered |-> record[p].answered]

(* recommend_actions_for_alert: the playbook_id is fresh. *)
Recommend(c, p) ==
    /\ caller[c] = Idle /\ Room
    /\ record[p] = NoRecord /\ Changing(p) = {}
    /\ Begin(c, Work("saving", p, "none", Pending))
    /\ UNCHANGED <<record, log, seal, faults>>

(* Mutant: a playbook that was decided may be decided again. *)
MayDecideAgain(p) == record[p].state # "none"

(* decide_recommendation's checks. *)
MayDecide(p) == record[p].state = "pending_approval"

(* decide_recommendation: its read and its checks; the expected version is   *)
(* the one read, any other is refused.                                       *)
Decide(c, p, actor) ==
    /\ caller[c] = Idle /\ Room
    /\ MayDecide(p)
    /\ \E state \in {"approved", "rejected"} :
          Begin(c, Work("saving", p, record[p].state, Updated(p, state, actor)))
    /\ UNCHANGED <<record, log, seal, faults>>

(* Mutant: an approval is not waited for. *)
MayExecuteEarly(p) == record[p].state \in {"pending_approval", "approved"}

(* execute_approved_action's check of the state. *)
MayExecute(p) == record[p].state = "approved"

(* execute_approved_action: its read and its checks. *)
Execute(c, p, actor) ==
    /\ caller[c] = Idle /\ Room
    /\ MayExecute(p)
    /\ Begin(c, Work("saving", p, record[p].state,
                     Updated(p, "executed_simulated", actor)))
    /\ UNCHANGED <<record, log, seal, faults>>

(* rollback_executed_action: its read and the checks of the record; only the *)
(* executor may roll back.                                                   *)
Rollback(c, p, actor) ==
    /\ caller[c] = Idle /\ Room
    /\ record[p].state = "executed_simulated"
    /\ record[p].actor = actor
    /\ Begin(c, Work("verifying", p, record[p].state,
                     Updated(p, "rolled_back", actor)))
    /\ UNCHANGED <<record, log, seal, faults>>

(* A verification's first SELECT: the rows. *)
ReadRows(c) ==
    /\ At(c, "verifying")
    /\ Goto(c, [caller[c] EXCEPT !.at = "sealing", !.rows = Len(log)])
    /\ UNCHANGED <<record, log, seal, faults, overlapped>>

(* Its second SELECT, the seal, and its verdict; a rollback also wants       *)
(* entries of its own playbook. A refused caller gives up.                   *)
ReadSeal(c) ==
    /\ At(c, "sealing")
    /\ LET work == caller[c]
           sound == /\ ChainVerified(work.rows)
                    /\ IsCallback(work) \/ HasEntry(work.playbook, work.rows)
           next == IF IsCallback(work) THEN "checking" ELSE "saving"
       IN  Goto(c, IF sound THEN [work EXCEPT !.at = next] ELSE Idle)
    /\ UNCHANGED <<record, log, seal, faults, overlapped>>

(* save_record: INSERT OR REPLACE of the whole row. *)
SaveRecord(c) ==
    /\ At(c, "saving")
    /\ record' = [record EXCEPT ![caller[c].playbook] = caller[c].new]
    /\ Goto(c, [caller[c] EXCEPT !.at = "appending"])
    /\ UNCHANGED <<log, seal, faults, overlapped>>

(* Mutant: the previous hash is looked up among the playbook's own entries. *)
LastDigestOwn(p) ==
    LET own == {i \in 1..Len(log) : log[i].playbook = p}
    IN  IF own = {} THEN Genesis
        ELSE log[CHOOSE i \in own : \A j \in own : j <= i].digest

(* The hash of the last row of the whole table. *)
LastDigest(p) == IF log = <<>> THEN Genesis ELSE log[Len(log)].digest

(* append_audit_event: one BEGIN IMMEDIATE transaction. *)
AppendAuditEvent(c) ==
    /\ At(c, "appending")
    /\ LET sequence == Len(log) + 1
           entry == [digest |-> sequence, prev |-> LastDigest(caller[c].playbook),
                     sequence |-> sequence, playbook |-> caller[c].playbook,
                     old |-> caller[c].old, new |-> caller[c].new.state]
       IN  /\ log' = Append(log, entry)
           /\ seal' = [count |-> sequence, head |-> entry.digest]
    /\ Goto(c, Idle)
    /\ UNCHANGED <<record, faults, overlapped>>

(* The callback endpoint: a signed callback comes in, *)
Callback(c, p) ==
    /\ caller[c] = Idle
    /\ Goto(c, CallbackWork(p))
    /\ UNCHANGED <<record, log, seal, faults, overlapped>>

(* and after the chain the record's state is checked. *)
CallbackCheck(c) ==
    /\ At(c, "checking")
    /\ Goto(c, IF record[caller[c].playbook].state \in {"approved", "executed_simulated"}
               THEN [caller[c] EXCEPT !.at = "timing"] ELSE Idle)
    /\ UNCHANGED <<record, log, seal, faults, overlapped>>

(* record_callback_verification: the timing columns alone are updated. *)
RecordCallback(c) ==
    /\ At(c, "timing")
    /\ record' = [record EXCEPT ![caller[c].playbook].answered = TRUE]
    /\ Goto(c, Idle)
    /\ UNCHANGED <<log, seal, faults, overlapped>>

(* The thread's next database call fails, or its process dies. *)
CutShort(c) ==
    /\ caller[c] # Idle
    /\ faults < MaxFaults
    /\ faults' = faults + 1
    /\ Goto(c, Idle)
    /\ UNCHANGED <<record, log, seal, overlapped>>

Next ==
    \E c \in Callers :
        \/ \E p \in Playbooks : Recommend(c, p) \/ Callback(c, p)
        \/ \E p \in Playbooks, actor \in Actors :
              Decide(c, p, actor) \/ Execute(c, p, actor) \/ Rollback(c, p, actor)
        \/ ReadRows(c) \/ ReadSeal(c) \/ SaveRecord(c) \/ AppendAuditEvent(c)
        \/ CallbackCheck(c) \/ RecordCallback(c) \/ CutShort(c)

Spec == Init /\ [][Next]_vars

-----------------------------------------------------------------------------
(* Whatever threads interleave or are cut short, the stored chain is        *)
(* linked and numbered, and sealed at its last entry.                       *)
ChainSound == LinkedTo(Len(log)) /\ (log # <<>> => SealedAt(Len(log)))

(* Once every operation is over, and none was cut short, an execution in    *)
(* the chain has its approval there too, though not always before it.       *)
ExecutionHasApproval ==
    faults = 0 /\ Busy = {} =>
        \A i \in 1..Len(log) : log[i].new = "executed_simulated" =>
            \E j \in 1..Len(log) :
                log[j].playbook = log[i].playbook /\ log[j].new = "approved"

(* The entries of p among the first n of a chain, and the state they tell.  *)
EntriesOf(chain, p, n) == {i \in 1..n : chain[i].playbook = p}
Latest(own) == CHOOSE i \in own : \A j \in own : j <= i
Told(chain, p, n) ==
    LET own == EntriesOf(chain, p, n)
    IN  IF own = {} THEN "none" ELSE chain[Latest(own)].new

(* The chain tells a playbook's whole life: if its operations never         *)
(* overlapped and none was cut short, its entries are, in order, the steps  *)
(* from nothing to the state its record is in, one for each version.        *)
AuditTellsLife ==
    \A p \in Playbooks \ overlapped : faults = 0 /\ Changing(p) = {} =>
        /\ Cardinality(EntriesOf(log, p, Len(log))) = record[p].version
        /\ \A i \in EntriesOf(log, p, Len(log)) : log[i].old = Told(log, p, i - 1)
        /\ Told(log, p, Len(log)) = record[p].state

(* A playbook keeps to the workflow, cut short or not, for as long as its   *)
(* operations do not overlap.                                               *)
Stage(p) == IF p \in overlapped THEN "overlapped" ELSE record[p].state
stages == [p \in Playbooks |-> Stage(p)]
Workflow == INSTANCE PlaybookWorkflow WITH stage <- stages
WorkflowRefinement == Workflow!Spec

(* The chain accounts for what became of each playbook. *)
LifeInChain == ExecutionHasApproval /\ AuditTellsLife
=============================================================================
