--------------------------- MODULE HumanCredentials ---------------------------
(* The operator's credential policy, its journal and the journal's archives, *)
(* as files of a locked directory.                                           *)
(*                                                                           *)
(* Every operation holds the directory's exclusive lock, so what it reads is *)
(* what it writes against and another operation is refused; one step here is *)
(* one file made durable, and the process may die between two of them.  A    *)
(* file that must not be there before is linked under its name and then      *)
(* unlinked from its temporary one: a process that dies between leaves it    *)
(* two names, and every later read refuses it.  A certificate stands for its *)
(* fingerprint.                                                              *)
EXTENDS Naturals, Sequences

CONSTANTS
    Certs,        \* client certificates, each issued to one actor
    Actors,
    ActorOf,      \* the actor each certificate names
    Archives,     \* archive directories offered to rotate_journal
    MaxRecords,   \* MAX_JOURNAL_RECORDS, and MAX_HUMAN_CREDENTIALS
    MaxDeaths,   \* bound: processes that die or are cut short
    NoFile

(* What the policy file and the journal hold. *)
PolicyRecord == [cert : Certs, enabled : BOOLEAN, revoked : BOOLEAN]
JournalEntry ==
    [seq : Nat, cert : Certs \cup {NoFile}, previous : Archives \cup {NoFile},
     action : {"init", "enroll", "disable", "revoke", "journal_rotated"}]

ASSUME CredentialConfiguration ==
    /\ NoFile \notin Certs \cup Archives
    /\ NoFile \notin Seq(PolicyRecord) \cup Seq(JournalEntry)  \* no file's content
    /\ ActorOf \in [Certs -> Actors]
    /\ MaxRecords \in Nat \ {0} /\ MaxDeaths \in Nat

VARIABLES
    policy,    \* the records of the policy file, or NoFile
    journal,   \* the journal's entries; <<>> when there is no file
    torn,      \* the journal's last line was cut short
    linked,    \* of the policy and the journal, those left with two names
    archive,   \* per directory, the archived entries and the manifest
    expired,   \* certificates past not_after
    policyOp,  \* what the holder of the directory's lock has yet to write
    lost,      \* the changes whose journal entry was cut off; no file has it
    deaths

credentialVars == <<policy, journal, torn, linked, archive, expired, policyOp,
                   lost, deaths>>

NoOp == [todo |-> "none"]
EmptyArchive == [entries |-> NoFile, manifest |-> FALSE]

CredentialInit ==
    /\ policy = NoFile
    /\ journal = <<>>
    /\ torn = FALSE
    /\ linked = {}
    /\ archive = [a \in Archives |-> EmptyArchive]
    /\ expired = {}
    /\ policyOp = NoOp
    /\ lost = {}
    /\ deaths = 0

Dies == deaths < MaxDeaths /\ deaths' = deaths + 1

-----------------------------------------------------------------------------
Records == IF policy = NoFile THEN <<>> ELSE policy
Record(c) == [cert |-> c, enabled |-> TRUE, revoked |-> FALSE]
Enrolled == {Records[i].cert : i \in DOMAIN Records}
ActiveIn(records) ==
    {records[i].cert : i \in {j \in DOMAIN records :
                                records[j].enabled /\ ~records[j].revoked}}

(* _read: a file with one name; with current=True, no active credential is   *)
(* past its end either.                                                      *)
PolicyOpens == policy # NoFile /\ "policy" \notin linked
PolicyReadable == PolicyOpens /\ ActiveIn(policy) \cap expired = {}

(* The certificate's own checks: chain, purpose, actor and dates. *)
CertificateValid(c) == c \notin expired

(* The active credentials of a newly loaded registry. *)
LoadRegistry == IF PolicyReadable THEN ActiveIn(policy) ELSE {}

(* The first active credential of the actor, as a set of at most one. *)
ActiveFingerprint(actor) ==
    LET mine == {i \in DOMAIN Records : /\ Records[i].cert \in LoadRegistry
                                        /\ ActorOf[Records[i].cert] = actor}
    IN {Records[i].cert : i \in {j \in mine : \A k \in mine : j <= k}}

(* The presented certificate is the one enrolled for the claimed actor. *)
VerifyOperatorIdentity(actor, c) == c \in ActiveFingerprint(actor)

(* flock without blocking: an operation in progress refuses any other. *)
PolicyLockFree == policyOp = NoOp

(* _read_journal accepts what the module's own steps wrote whole. *)
JournalReadable == ~torn /\ "journal" \notin linked

NextSeq == IF journal = <<>> THEN 1 ELSE journal[Len(journal)].seq + 1

Entry(action, c) ==
    [seq |-> NextSeq, action |-> action, cert |-> c, previous |-> NoFile]

(* What an entry says was done, and what is done and not yet journalled. *)
Fact(e) == <<IF e.action = "init" THEN "enroll" ELSE e.action, e.cert>>
Pending == IF policyOp.todo = "append" THEN {Fact(policyOp.entry)} ELSE {}

(* What every change asks of the journal before it touches the policy. *)
JournalHasRoom == PolicyLockFree /\ JournalReadable /\ Len(journal) < MaxRecords

(* _write, and the append that must follow it. *)
PolicyWritten(records, action, c) ==
    /\ policy' = records
    /\ policyOp' = [todo |-> "append", entry |-> Entry(action, c)]
    /\ UNCHANGED <<journal, torn, linked, archive, expired, lost, deaths>>

MayEnroll(c, create) ==
    /\ JournalHasRoom
    /\ IF create THEN journal = <<>> /\ policy = NoFile ELSE PolicyReadable
    /\ CertificateValid(c) /\ c \notin Enrolled
    /\ Len(Records) < MaxRecords

Enroll(c, create) ==
    /\ MayEnroll(c, create)
    /\ PolicyWritten(Append(Records, Record(c)),
                     IF create THEN "init" ELSE "enroll", c)

(* The first policy is linked and the process dies before the unlink. *)
InitLinkLeft(c) ==
    /\ MayEnroll(c, TRUE) /\ Dies
    /\ policy' = Append(Records, Record(c))
    /\ linked' = linked \cup {"policy"}
    /\ lost' = lost \cup {<<"enroll", c>>}
    /\ UNCHANGED <<journal, torn, archive, expired, policyOp>>

(* Mutant: a disabled credential is enabled by the next disable. *)
RestrictToggles(c, revoke) ==
    /\ JournalHasRoom
    /\ PolicyOpens /\ c \in Enrolled
    /\ PolicyWritten([i \in DOMAIN Records |->
                        IF Records[i].cert # c THEN Records[i]
                        ELSE IF revoke THEN [Records[i] EXCEPT !.revoked = TRUE]
                        ELSE [Records[i] EXCEPT !.enabled = ~@]],
                     IF revoke THEN "revoke" ELSE "disable", c)

(* An expired record may be restricted: the policy is read without its dates. *)
RestrictCredential(c, revoke) ==
    /\ JournalHasRoom
    /\ PolicyOpens /\ c \in Enrolled
    /\ PolicyWritten([i \in DOMAIN Records |->
                        IF Records[i].cert # c THEN Records[i]
                        ELSE IF revoke THEN [Records[i] EXCEPT !.revoked = TRUE]
                        ELSE [Records[i] EXCEPT !.enabled = FALSE]],
                     IF revoke THEN "revoke" ELSE "disable", c)

JournalAppended ==
    /\ policyOp.todo = "append"
    /\ journal' = Append(journal, policyOp.entry)
    /\ policyOp' = NoOp
    /\ UNCHANGED <<policy, torn, linked, archive, expired, lost, deaths>>

(* The first entry's file is linked and the process dies before the unlink. *)
JournalLinkLeft ==
    /\ policyOp.todo = "append" /\ journal = <<>>
    /\ Dies
    /\ journal' = <<policyOp.entry>>
    /\ linked' = linked \cup {"journal"}
    /\ policyOp' = NoOp
    /\ UNCHANGED <<policy, torn, archive, expired, lost>>

(* A short write leaves a last line that no later read accepts. *)
JournalTorn ==
    /\ policyOp.todo = "append" /\ journal # <<>>
    /\ Dies
    /\ torn' = TRUE
    /\ policyOp' = NoOp
    /\ lost' = lost \cup {Fact(policyOp.entry)}
    /\ UNCHANGED <<policy, journal, linked, archive, expired>>

(* The journal's bytes are copied to an archive that has neither file. *)
RotateCopies(a) ==
    /\ PolicyLockFree /\ JournalReadable /\ journal # <<>>
    /\ archive[a] = EmptyArchive
    /\ archive' = [archive EXCEPT ![a].entries = journal]
    /\ policyOp' = [todo |-> "manifest", dir |-> a]
    /\ UNCHANGED <<policy, journal, torn, linked, expired, lost, deaths>>

RotateManifest ==
    /\ policyOp.todo = "manifest"
    /\ archive' = [archive EXCEPT ![policyOp.dir].manifest = TRUE]
    /\ policyOp' = [policyOp EXCEPT !.todo = "checkpoint"]
    /\ UNCHANGED <<policy, journal, torn, linked, expired, lost, deaths>>

(* Mutant: the new journal does not name the archive. *)
CheckpointUnchained == Entry("journal_rotated", NoFile)

Checkpoint == [Entry("journal_rotated", NoFile) EXCEPT !.previous = policyOp.dir]

(* The policy is read only now; unreadable, it leaves the archive behind and *)
(* the journal as it was.                                                    *)
RotateCheckpoint ==
    /\ policyOp.todo = "checkpoint"
    /\ journal' = IF PolicyReadable THEN <<Checkpoint>> ELSE journal
    /\ policyOp' = NoOp
    /\ UNCHANGED <<policy, torn, linked, archive, expired, lost, deaths>>

(* The process dies and its lock goes with it. *)
PolicyCrash ==
    /\ policyOp # NoOp /\ Dies
    /\ lost' = lost \cup Pending
    /\ policyOp' = NoOp
    /\ UNCHANGED <<policy, journal, torn, linked, archive, expired>>

Expire(c) ==
    /\ c \notin expired
    /\ expired' = expired \cup {c}
    /\ UNCHANGED <<policy, journal, torn, linked, archive, policyOp, lost,
                   deaths>>

-----------------------------------------------------------------------------
(* Both files are there and agree. *)
VerifyJournalArchive(a) == archive[a].entries # NoFile /\ archive[a].manifest

EntriesOf(s) == {s[i] : i \in DOMAIN s}

(* Every archive some entry was rotated into, and all entries that are still *)
(* found by following the checkpoints back from the journal.                 *)
Chain == {a \in Archives :
            \E e \in EntriesOf(journal) \cup
                     UNION {EntriesOf(archive[b].entries) :
                              b \in {b \in Archives : VerifyJournalArchive(b)}} :
                e.previous = a}
History == EntriesOf(journal) \cup UNION {EntriesOf(archive[a].entries) : a \in Chain}

(* Rotation loses nothing, whenever it dies: the journal and the archives    *)
(* its checkpoints name, each with its manifest, hold one entry for every    *)
(* number from 1 to the last.                                                *)
NoHistoryLost ==
    /\ \A a \in Chain : VerifyJournalArchive(a)
    /\ \A n \in 1..(NextSeq - 1) : \E e \in History : e.seq = n
    /\ \A e, f \in History : e.seq = f.seq => e = f

(* Facts the policy file holds. *)
PolicyFacts ==
    {<<"enroll", c>> : c \in Enrolled}
      \cup {<<"disable", Records[i].cert>> :
                i \in {j \in DOMAIN Records : ~Records[j].enabled}}
      \cup {<<"revoke", Records[i].cert>> :
                i \in {j \in DOMAIN Records : Records[j].revoked}}

(* The journal never claims a change the policy does not hold, and the only  *)
(* changes it lacks are those whose writer died or was cut short between     *)
(* the policy's write and the journal's.                                     *)
JournalTrailsPolicy ==
    LET told == {Fact(e) : e \in {h \in History : h.cert # NoFile}}
    IN told \subseteq PolicyFacts /\ PolicyFacts \subseteq told \cup lost \cup Pending

Restricted(c) == c \in Enrolled \ ActiveIn(Records)

(* A disabled or revoked credential is never active again, by enrolment,     *)
(* rotation or a crash, and no actor is ever verified with it.               *)
RestrictedStaysOut ==
    [][\A c \in Certs : Restricted(c) =>
          /\ Restricted(c)'
          /\ \A actor \in Actors : ~VerifyOperatorIdentity(actor, c)']_credentialVars

(* The journal and its archives tell the policy's whole history, but for     *)
(* the one entry that a writer had no time for.                              *)
HistoryKept == NoHistoryLost /\ JournalTrailsPolicy
=============================================================================
