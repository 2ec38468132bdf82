---------------------------- MODULE StorageRecovery ----------------------------
(* storage_backup and audit_retention over the four databases of the analyst   *)
(* plane: online snapshots, restore, export and pruning of the audit, while    *)
(* the service writes, operators run two commands at a time, and anything may  *)
(* die between two file operations.                                            *)
(*                                                                             *)
(* A database is the set of what its rows are about: alert ids, or the order   *)
(* keys (event_time, audit_event_id) of audit events.  The clock may step      *)
(* back, so a new event takes any unused key.  A file's digest stands for its  *)
(* content.                                                                    *)
EXTENDS Naturals, FiniteSets, TLC

CONSTANTS
    Alerts,      \* alert_candidate_id values
    Keys,        \* order keys of audit events
    Capacity,    \* the audit's _capacity_limit
    SnapDirs,    \* snapshot directories
    ArchDirs,    \* archive directories
    Jobs,        \* operator commands that run at the same time
    MaxJobs,     \* bound: commands started
    MaxCrashes,  \* bound: crashes of the service or of a command
    Missing, Damaged

ASSUME StorageConfiguration ==
    /\ Keys \subseteq Nat /\ Capacity \in Nat \ {0}
    /\ MaxJobs \in Nat /\ MaxCrashes \in Nat
    /\ SnapDirs \cap ArchDirs = {}   \* both commands demand an empty directory
    /\ \A rows \in SUBSET (Alerts \cup Keys) : rows \notin {Missing, Damaged}

VARIABLES
    up,        \* the service runs
    live,      \* the database files of the storage directory
    wal,       \* databases with a write-ahead log beside the file
    stale,     \* databases whose log belongs to a file that was replaced
    snap,      \* per snapshot directory, its database files and its manifest
    arch,      \* per archive directory, its events file and its manifest
    job,       \* the running commands
    begun,     \* commands started so far
    crashes,   \* crashes so far
    appended,  \* audit events acknowledged to the service
    undone     \* audit events a restore went back behind or copied short

storageVars == <<up, live, wal, stale, snap, arch, job, begun, crashes, appended, undone>>

Roles == {"alerts", "states", "audit", "incidents"}
Core == Roles \ {"incidents"}
Logged == Roles \ {"audit"}   \* the databases in WAL mode

NoFiles == [r \in Roles |-> Missing]
Idle == [op |-> "none"]

Init ==
    /\ up = TRUE
    /\ live = [r \in Roles |-> IF r = "incidents" THEN Missing ELSE {}]
    /\ wal = {} /\ stale = {}
    /\ snap = [d \in SnapDirs |-> [files |-> NoFiles, manifest |-> Missing]]
    /\ arch = [d \in ArchDirs |-> [events |-> Missing, manifest |-> Missing]]
    /\ job = [j \in Jobs |-> Idle]
    /\ begun = 0 /\ crashes = 0
    /\ appended = {} /\ undone = {}

(* What a reader of a database sees: a log is replayed, a foreign one too. *)
Content(r) == IF r \in stale THEN Damaged ELSE live[r]
Readable(r) == Content(r) \notin {Missing, Damaged}

(* The events the audit's database is read to hold. *)
Events == IF Readable("audit") THEN live["audit"] ELSE {}

-----------------------------------------------------------------------------
(* The service writes. *)
Write(r, content) ==
    /\ live' = [live EXCEPT ![r] = content]
    /\ wal' = wal \cup ({r} \cap Logged)
    /\ UNCHANGED <<up, stale, snap, arch, job, begun, crashes, undone>>

AlertInserted(a) ==
    /\ up /\ Readable("alerts") /\ a \notin live["alerts"]
    /\ Write("alerts", live["alerts"] \cup {a}) /\ UNCHANGED appended

StateChanged(a) ==
    /\ up /\ Readable("alerts") /\ Readable("states")
    /\ a \in live["alerts"] \ live["states"]
    /\ Write("states", live["states"] \cup {a}) /\ UNCHANGED appended

IncidentStored(a) ==
    /\ up /\ Readable("alerts") /\ a \in live["alerts"]
    /\ \/ live["incidents"] = Missing /\ Write("incidents", {a})
       \/ /\ Readable("incidents") /\ a \notin live["incidents"]
          /\ Write("incidents", live["incidents"] \cup {a})
    /\ UNCHANGED appended

(* AnalystSecurityAuditRepository.append; at its capacity it refuses. *)
EventAppended(k) ==
    /\ up /\ Readable("audit") /\ k \notin appended
    /\ Cardinality(live["audit"]) < Capacity
    /\ Write("audit", live["audit"] \cup {k})
    /\ appended' = appended \cup {k}

(* A clean stop checkpoints the logs; a crash leaves them. *)
ServiceStops ==
    /\ up /\ up' = FALSE
    /\ wal' = {}
    /\ UNCHANGED <<live, stale, snap, arch, job, begun, crashes, appended, undone>>

ServiceCrashes ==
    /\ up /\ crashes < MaxCrashes /\ up' = FALSE
    /\ crashes' = crashes + 1
    /\ UNCHANGED <<live, wal, stale, snap, arch, job, begun, appended, undone>>

Restoring == \E j \in Jobs : job[j].op = "restore" /\ job[j].pc # "begun"

(* The operator starts it again, never during a restore; what a log says is  *)
(* then in the file.                                                         *)
ServiceStarts ==
    /\ ~up /\ ~Restoring /\ up' = TRUE
    /\ live' = [r \in Roles |-> Content(r)]
    /\ stale' = {}
    /\ UNCHANGED <<wal, snap, arch, job, begun, crashes, appended, undone>>

-----------------------------------------------------------------------------
(* Operator commands.  A command holds a flock on its directory until it     *)
(* ends; a second one that meets it gives up.                                *)
Working(d) == {j \in Jobs : job[j].op \in {"create", "export"} /\ job[j].dir = d}

Begin(j, record) ==
    /\ job[j] = Idle /\ begun < MaxJobs
    /\ job' = [job EXCEPT ![j] = record]
    /\ begun' = begun + 1
    /\ UNCHANGED <<up, live, wal, stale, snap, arch, crashes, appended, undone>>

OnlyJob(j, record) ==
    /\ job' = [job EXCEPT ![j] = record]
    /\ UNCHANGED <<up, begun, crashes, appended>>

(* create_storage_snapshot: into an empty directory. *)
CreateBegins(j, d) ==
    /\ Working(d) = {}
    /\ snap[d] = [files |-> NoFiles, manifest |-> Missing]
    /\ Begin(j, [op |-> "create", dir |-> d, todo |-> Core])

(* The order of the copies. *)
CopyOrder == [alerts |-> 1, states |-> 2, audit |-> 3, incidents |-> 4]

(* Each database is copied at a moment of its own. *)
DatabaseCopied(j, r) ==
    /\ job[j].op = "create" /\ r \in job[j].todo
    /\ \A q \in job[j].todo : CopyOrder[r] <= CopyOrder[q]
    /\ Readable(r)
    /\ snap' = [snap EXCEPT ![job[j].dir].files[r] = live[r]]
    /\ OnlyJob(j, [job[j] EXCEPT !.todo =
                      IF r = "audit" /\ live["incidents"] # Missing
                      THEN {"incidents"} ELSE @ \ {r}])
    /\ UNCHANGED <<live, wal, stale, arch, undone>>

(* _inspect_database and _check_cross_database_consistency, on the files of  *)
(* a directory.                                                              *)
Consistent(files) ==
    /\ \A r \in Roles : files[r] # Damaged
    /\ files["states"] \subseteq files["alerts"]
    /\ files["incidents"] # Missing => files["incidents"] \subseteq files["alerts"]

(* Mutant: the copies are not compared with each other. *)
CreateEndsUnchecked(j) ==
    /\ job[j].op = "create" /\ job[j].todo = {}
    /\ LET d == job[j].dir IN snap' = [snap EXCEPT ![d].manifest = snap[d].files]
    /\ OnlyJob(j, Idle)
    /\ UNCHANGED <<live, wal, stale, arch, undone>>

(* The manifest comes last, by rename, and only if the copies agree; one that *)
(* was written short verifies no more than none.                              *)
CreateEnds(j) ==
    /\ job[j].op = "create" /\ job[j].todo = {}
    /\ LET d == job[j].dir IN
       snap' = IF Consistent(snap[d].files)
               THEN [snap EXCEPT ![d].manifest = snap[d].files] ELSE snap
    /\ OnlyJob(j, Idle)
    /\ UNCHANGED <<live, wal, stale, arch, undone>>

(* verify_storage_snapshot; it needs a shared lock on the directory. *)
Verified(d) ==
    /\ Working(d) = {}
    /\ snap[d].manifest # Missing
    /\ \A r \in Core : snap[d].files[r] # Missing
    /\ \A r \in Roles : snap[d].manifest[r] # Missing => snap[d].files[r] = snap[d].manifest[r]
    /\ snap[d].files["incidents"] # Missing => snap[d].manifest["incidents"] # Missing
    /\ Consistent(snap[d].manifest)

RolesOf(d) == {r \in Roles : snap[d].manifest[r] # Missing}

(* restore_storage_snapshot, offline as the runbook demands. *)
RestoreBegins(j, d) ==
    /\ ~up /\ Verified(d)
    /\ Begin(j, [op |-> "restore", pc |-> "begun", dir |-> d, todo |-> RolesOf(d),
                 spoiled |-> {}])

RestoreLocks(j) ==
    /\ job[j].op = "restore" /\ job[j].pc = "begun" /\ ~up
    /\ IF Restoring THEN OnlyJob(j, Idle) ELSE OnlyJob(j, [job[j] EXCEPT !.pc = "replace"])
    /\ UNCHANGED <<live, wal, stale, snap, arch, undone>>

(* The order of the manifest, which is stored with sorted keys. *)
RestoreOrder == [alerts |-> 1, audit |-> 2, incidents |-> 3, states |-> 4]

(* A copy beside the file, renamed over it.  How much each write took is not *)
(* looked at, so the copy may be short; the command notes nothing of it.     *)
DatabaseReplaced(j, r) ==
    /\ job[j].op = "restore" /\ job[j].pc = "replace" /\ r \in job[j].todo
    /\ \A q \in job[j].todo : RestoreOrder[r] <= RestoreOrder[q]
    /\ \E file \in {snap[job[j].dir].files[r], Damaged} :
          /\ live' = [live EXCEPT ![r] = file]
          /\ OnlyJob(j, [job[j] EXCEPT !.pc = "unlink",
                            !.spoiled = IF file = Damaged THEN @ \cup {r} ELSE @])
    /\ stale' = stale \cup ({r} \cap wal)
    /\ undone' = IF r = "audit" THEN undone \cup (Events \ Events') ELSE undone
    /\ UNCHANGED <<wal, snap, arch>>

Replaced(j) == CHOOSE r \in job[j].todo :
                   \A q \in job[j].todo : RestoreOrder[r] <= RestoreOrder[q]

(* On to the next database, or to the checks. *)
RestoreGoesOn(j, spoiled) ==
    OnlyJob(j, [job[j] EXCEPT !.todo = @ \ {Replaced(j)}, !.spoiled = spoiled,
                              !.pc = IF job[j].todo = {Replaced(j)} THEN "check" ELSE "replace"])

(* Mutant: the old logs are left where they are. *)
SidecarsKept(j) ==
    /\ job[j].op = "restore" /\ job[j].pc = "unlink"
    /\ RestoreGoesOn(j, job[j].spoiled)
    /\ UNCHANGED <<live, wal, stale, snap, arch, undone>>

SidecarsUnlinked(j) ==
    /\ job[j].op = "restore" /\ job[j].pc = "unlink"
    /\ wal' = wal \ {Replaced(j)} /\ stale' = stale \ {Replaced(j)}
    /\ RestoreGoesOn(j, job[j].spoiled)
    /\ UNCHANGED <<live, snap, arch, undone>>

(* The unlink fails, and the restore goes on as if it had not. *)
SidecarsLeft(j) ==
    /\ job[j].op = "restore" /\ job[j].pc = "unlink" /\ Replaced(j) \in wal
    /\ RestoreGoesOn(j, job[j].spoiled \cup {Replaced(j)})
    /\ UNCHANGED <<live, wal, stale, snap, arch, undone>>

(* _inspect_database and the cross-check read what is there; damage need not *)
(* show, and a restore that finds some ends with an error.                   *)
RestoreChecked(j) ==
    /\ job[j].op = "restore" /\ job[j].pc = "check"
    /\ OnlyJob(j, [job[j] EXCEPT !.pc = "restored"])
    /\ UNCHANGED <<live, wal, stale, snap, arch, undone>>

RestoreReturns(j) ==
    /\ job[j].op = "restore" /\ job[j].pc = "restored"
    /\ OnlyJob(j, Idle)
    /\ UNCHANGED <<live, wal, stale, snap, arch, undone>>

-----------------------------------------------------------------------------
(* export_security_audit_archive: the rows up to a key, as they are now. *)
ExportBegins(j, d, last) ==
    /\ Working(d) = {}
    /\ arch[d] = [events |-> Missing, manifest |-> Missing]
    /\ Readable("audit") /\ last \in live["audit"]
    /\ Begin(j, [op |-> "export", dir |-> d, pc |-> "read",
                 rows |-> {k \in live["audit"] : k <= last}])

(* O_EXCL: the file is made, and written in full. *)
EventsWritten(j) ==
    /\ job[j].op = "export" /\ job[j].pc = "read"
    /\ arch' = [arch EXCEPT ![job[j].dir].events = job[j].rows]
    /\ OnlyJob(j, [job[j] EXCEPT !.pc = "written"])
    /\ UNCHANGED <<live, wal, stale, snap, undone>>

ManifestWritten(j) ==
    /\ job[j].op = "export" /\ job[j].pc = "written"
    /\ arch' = [arch EXCEPT ![job[j].dir].manifest = job[j].rows]
    /\ OnlyJob(j, Idle)
    /\ UNCHANGED <<live, wal, stale, snap, undone>>

(* verify_security_audit_archive. *)
ArchiveVerified(d) ==
    /\ Working(d) = {}
    /\ arch[d].manifest # Missing /\ arch[d].events = arch[d].manifest

Archived == UNION {arch[d].events : d \in {x \in ArchDirs : ArchiveVerified(x)}}

(* Mutant: the rows are deleted by their keys, uncompared. *)
PruneByKey(d) ==
    /\ ArchiveVerified(d) /\ Readable("audit") /\ begun < MaxJobs
    /\ live' = [live EXCEPT !["audit"] = {k \in @ : \A e \in arch[d].events : k > e}]
    /\ begun' = begun + 1
    /\ UNCHANGED <<up, wal, stale, snap, arch, job, crashes, appended, undone>>

(* prune_archived_security_audit: one transaction, for the archived prefix.  *)
Prune(d) ==
    /\ ArchiveVerified(d) /\ Readable("audit") /\ begun < MaxJobs
    /\ LET Prefix == {k \in live["audit"] : \E e \in arch[d].events : k <= e}
       IN Prefix = arch[d].events /\ live' = [live EXCEPT !["audit"] = @ \ Prefix]
    /\ begun' = begun + 1
    /\ UNCHANGED <<up, wal, stale, snap, arch, job, crashes, appended, undone>>

-----------------------------------------------------------------------------
(* The file a command was writing when it died, or that was written short. *)
Torn(j) ==
    CASE job[j].op = "create" ->
            /\ \E r \in Roles : snap' = [snap EXCEPT ![job[j].dir].files[r] =
                                            IF r \in job[j].todo THEN Damaged ELSE @]
            /\ UNCHANGED arch
      [] job[j].op = "export" ->
            /\ arch' = [arch EXCEPT ![job[j].dir] =
                          IF job[j].pc = "read" THEN [@ EXCEPT !.events = Damaged] ELSE @]
            /\ UNCHANGED snap
      [] OTHER -> UNCHANGED <<snap, arch>>

(* An error, a signal or a crash ends a command; its lock goes with it. *)
JobDies(j) ==
    /\ job[j] # Idle /\ crashes < MaxCrashes
    /\ crashes' = crashes + 1
    /\ \/ Torn(j)
       \/ UNCHANGED <<snap, arch>>
    /\ job' = [job EXCEPT ![j] = Idle]
    /\ UNCHANGED <<up, live, wal, stale, begun, appended, undone>>

JobStep(j) ==
    \/ \E r \in Roles : DatabaseCopied(j, r) \/ DatabaseReplaced(j, r)
    \/ CreateEnds(j) \/ RestoreLocks(j) \/ SidecarsUnlinked(j) \/ SidecarsLeft(j)
    \/ RestoreChecked(j) \/ RestoreReturns(j)
    \/ EventsWritten(j) \/ ManifestWritten(j)

Next ==
    \/ \E a \in Alerts : AlertInserted(a) \/ StateChanged(a) \/ IncidentStored(a)
    \/ \E k \in Keys : EventAppended(k)
    \/ ServiceStops \/ ServiceCrashes \/ ServiceStarts
    \/ \E j \in Jobs :
          \/ \E d \in SnapDirs : CreateBegins(j, d) \/ RestoreBegins(j, d)
          \/ \E d \in ArchDirs, k \in Keys : ExportBegins(j, d, k)
          \/ JobStep(j) \/ JobDies(j)
    \/ \E d \in ArchDirs : Prune(d)

Spec == Init /\ [][Next]_storageVars

(* Commands and archive directories are interchangeable, for TLC's sake. *)
Symmetric == Permutations(Jobs) \cup Permutations(ArchDirs)

-----------------------------------------------------------------------------
(* A snapshot that verifies refers to no alert it does not hold, though its  *)
(* databases were copied one after another while the service wrote.          *)
SnapshotConsistent ==
    \A d \in SnapDirs :
        Working(d) = {} /\ snap[d].manifest # Missing => Consistent(snap[d].files)

(* The database reads as the copy does; the audit, which may be pruned while  *)
(* a restore is at work, but for events that an archive holds.                *)
PutBack(r, copy) ==
    IF r = "audit" THEN live[r] \subseteq copy /\ copy \subseteq live[r] \cup Archived
                   ELSE Content(r) = copy

(* A restore that returned left every database as the snapshot holds it, and  *)
(* no log of a replaced file with it, unless a write of that very database    *)
(* was short or its log could not be unlinked: neither is reported.           *)
RestoreExact ==
    \A j \in Jobs : job[j].op = "restore" /\ job[j].pc = "restored" =>
        \A r \in RolesOf(job[j].dir) \ job[j].spoiled :
            PutBack(r, snap[job[j].dir].files[r])

(* Nothing the audit acknowledged is ever lost: it is in the database, in a  *)
(* complete archive, or taken back by a restore.                             *)
PrunedIsArchived == appended \subseteq Events \cup undone \cup Archived

(* A finished snapshot holds databases that fit together and keeps them: no   *)
(* later command writes into its directory, and it verifies for ever.         *)
SnapshotsSound ==
    [][/\ SnapshotConsistent'
       /\ \A d \in SnapDirs : snap[d].manifest # Missing => snap'[d] = snap[d]]_storageVars
=============================================================================
