---------------------------- MODULE OperationsProofs ----------------------------
(***************************************************************************)
(* Theorems about the operators' commands, for every set of alerts, audit  *)
(* keys, directories, certificates and commands at work at the same time,  *)
(* and any number of crashes: snapshots, restore, export and pruning       *)
(* (StorageRecovery), then the credential policy with its journal and      *)
(* archives and the CA that issues what it enrols (HumanCaIssuance).  The  *)
(* two share no state.                                                     *)
(***************************************************************************)
EXTENDS StorageRecovery, HumanCaIssuance, TLAPS

(* What the rows of a database can be about. *)
Subjects == Alerts \cup Keys
(* Each database: its rows, or gone, or unreadable. *)
Databases == [Roles -> (SUBSET Subjects) \cup {Missing, Damaged}]

(* Where a storage command is. *)
RestoreJobs ==
    [op : {"restore"}, dir : SnapDirs, todo : SUBSET Roles, spoiled : SUBSET Roles,
     pc : {"begun", "replace", "unlink", "check", "restored"}]
JobRecords ==
    {Idle}
    \cup [op : {"create"}, dir : SnapDirs, todo : SUBSET Roles]
    \cup RestoreJobs
    \cup [op : {"export"}, dir : ArchDirs, rows : SUBSET Subjects,
          pc : {"read", "written"}]

(* The types the proofs rest on. *)
TypeOK ==
    /\ up \in BOOLEAN
    /\ live \in Databases
    /\ wal \subseteq Logged /\ stale \subseteq Logged
    /\ snap \in [SnapDirs -> [files : Databases, manifest : Databases \cup {Missing}]]
    /\ arch \in [ArchDirs -> [events : (SUBSET Subjects) \cup {Missing, Damaged},
                              manifest : (SUBSET Subjects) \cup {Missing}]]
    /\ job \in [Jobs -> JobRecords]
    /\ begun \in Nat /\ crashes \in Nat
    /\ appended \subseteq Keys

(* The command that writes a snapshot, and the one that restores. *)
Creates(j, d) == job[j].op = "create" /\ job[j].dir = d
Restores(j) == job[j].op = "restore"

(* One writer per snapshot directory, and none once it has its manifest. *)
WritersApart ==
    /\ \A j, k \in Jobs, d \in SnapDirs : Creates(j, d) /\ Creates(k, d) => j = k
    /\ \A d \in SnapDirs : snap[d].manifest # Missing =>
           /\ Consistent(snap[d].files)
           /\ \A j \in Jobs : ~Creates(j, d)

(* The database's file is the copy, but for what was pruned since. *)
Copied(r, content, copy, archived) ==
    IF r = "audit" THEN content \subseteq copy /\ copy \subseteq content \cup archived
                   ELSE content = copy

(* A restore works from a finished snapshot, offline and alone, and what it *)
(* has put back stays.                                                      *)
RestoreTrue(j) ==
    LET d == job[j].dir IN
    /\ snap[d].manifest # Missing
    /\ job[j].pc = "begun" => job[j].todo = RolesOf(d) /\ job[j].spoiled = {}
    /\ job[j].pc # "begun" =>
           /\ ~up
           /\ \A k \in Jobs \ {j} : Restores(k) => job[k].pc = "begun"
    /\ job[j].pc \in {"check", "restored"} => job[j].todo = {}
    /\ job[j].pc = "unlink" =>
           /\ Replaced(j) \in job[j].todo
           /\ Replaced(j) \notin job[j].spoiled =>
                  Copied(Replaced(j), live[Replaced(j)], snap[d].files[Replaced(j)], Archived)
    /\ \A r \in RolesOf(d) \ (job[j].todo \cup job[j].spoiled) :
           Copied(r, live[r], snap[d].files[r], Archived) /\ r \notin stale

(* The inductive invariant. *)
Inv ==
    /\ TypeOK /\ WritersApart /\ PrunedIsArchived
    /\ \A j \in Jobs : Restores(j) => RestoreTrue(j)

-----------------------------------------------------------------------------
(* The fields a command has, by its kind. *)
LEMMA JobFields ==
    ASSUME TypeOK, NEW j \in Jobs
    PROVE  /\ Idle.op = "none" /\ Idle \in JobRecords
           /\ job[j].op \in {"none", "create", "restore", "export"}
           /\ job[j].op = "create" =>
                  job[j] \in [op : {"create"}, dir : SnapDirs, todo : SUBSET Roles]
           /\ job[j].op = "restore" =>
                  /\ job[j] \in RestoreJobs /\ job[j].dir \in SnapDirs
                  /\ job[j].todo \in SUBSET Roles /\ job[j].spoiled \in SUBSET Roles
           /\ job[j].op = "export" =>
                  job[j] \in [op : {"export"}, dir : ArchDirs,
                              rows : SUBSET Subjects, pc : {"read", "written"}]
  BY DEF TypeOK, JobRecords, RestoreJobs, Idle

(* The first of the databases still to be put back. *)
LEMMA FirstRole ==
    ASSUME NEW todo \in SUBSET Roles, NEW r \in todo, NEW s \in todo,
           \A q \in todo : RestoreOrder[r] <= RestoreOrder[q],
           \A q \in todo : RestoreOrder[s] <= RestoreOrder[q]
    PROVE  r = s
  BY DEF Roles, RestoreOrder

(* The database a restore is replacing is that first one. *)
LEMMA ReplacedIsFirst ==
    ASSUME NEW j \in Jobs, job[j].todo \in SUBSET Roles, NEW r \in job[j].todo,
           \A q \in job[j].todo : RestoreOrder[r] <= RestoreOrder[q]
    PROVE  Replaced(j) = r
  <1>1. /\ Replaced(j) \in job[j].todo
        /\ \A q \in job[j].todo : RestoreOrder[Replaced(j)] <= RestoreOrder[q]
    BY DEF Replaced
  <1> QED
    BY <1>1, FirstRole

-----------------------------------------------------------------------------
(* What keeps each part of the invariant. *)
ArchivesKept ==
    \A d \in ArchDirs : ArchiveVerified(d) =>
        ArchiveVerified(d)' /\ arch'[d].events = arch[d].events

(* What was archived stays archived. *)
LEMMA ArchivedStays == ASSUME ArchivesKept PROVE Archived \subseteq Archived'
  BY DEF ArchivesKept, Archived

(* What left the live audit database is in a verified archive or was undone. *)
LEMMA PrunedKept ==
    ASSUME PrunedIsArchived, ArchivesKept, undone \subseteq undone',
           NEW new, appended' \subseteq appended \cup new,
           new \subseteq Events',
           Events \subseteq Events' \cup undone' \cup Archived
    PROVE  PrunedIsArchived'
  BY ArchivedStays DEF PrunedIsArchived

(* The audit has no log that could be foreign. *)
AuditRead ==
    /\ "audit" \in Roles
    /\ Events = IF live["audit"] \in SUBSET Subjects THEN live["audit"] ELSE {}
    /\ Readable("audit") <=> live["audit"] \in SUBSET Subjects

LEMMA AuditEvents == (TypeOK => AuditRead) /\ (TypeOK' => AuditRead')
  <1>1. TypeOK => AuditRead
    <2> SUFFICES ASSUME TypeOK PROVE AuditRead
      OBVIOUS
    <2>1. "audit" \in Roles /\ "audit" \notin stale
      BY DEF TypeOK, Logged, Roles
    <2>2. live["audit"] \in (SUBSET Subjects) \cup {Missing, Damaged}
      BY <2>1 DEF TypeOK, Databases
    <2>3. {Missing, Damaged} \cap SUBSET Subjects = {}
      BY StorageConfiguration DEF Subjects
    <2> QED
      BY <2>1, <2>2, <2>3 DEF AuditRead, Events, Readable, Content
  <1> QED
    BY <1>1, PTL

(* An archive verifies as long as no command starts in its directory. *)
LEMMA ArchivesUntouched ==
    ASSUME arch' = arch,
           \A k \in Jobs, d \in ArchDirs : k \in Working(d)' => k \in Working(d)
    PROVE  ArchivesKept
  BY DEF ArchivesKept, ArchiveVerified, Working

(* No snapshot changes and no command starts one. *)
LEMMA WritersKept ==
    ASSUME WritersApart, snap' = snap,
           \A j \in Jobs, d \in SnapDirs : Creates(j, d)' => Creates(j, d)
    PROVE  WritersApart'
  BY DEF WritersApart, Consistent

(* Only archived events go from the audit. *)
AuditShrinks ==
    /\ live'["audit"] \subseteq live["audit"]
    /\ live["audit"] \cup Archived \subseteq live'["audit"] \cup Archived'

LEMMA AuditStays ==
    ASSUME ArchivesKept, live' = live PROVE AuditShrinks
  BY ArchivedStays DEF AuditShrinks

(* A database put back stays so. *)
LEMMA CopiedStays ==
    ASSUME NEW r \in Roles, NEW copy, r # "audit" => live'[r] = live[r], AuditShrinks,
           Copied(r, live[r], copy, Archived)
    PROVE  Copied(r, live'[r], copy, Archived')
  BY DEF Copied, AuditShrinks

(* What a restore relies on stays: its snapshot, the databases it put back. *)
LEMMA RestoreKept ==
    ASSUME NEW j \in Jobs, RestoreTrue(j), job'[j] = job[j],
           snap'[job[j].dir] = snap[job[j].dir],
           job[j].pc # "begun" => (up' => up),
           job[j].pc # "begun" =>
               \A k \in Jobs \ {j} : Restores(k)' /\ job'[k].pc # "begun" =>
                   Restores(k) /\ job[k].pc # "begun",
           job[j].pc # "begun" =>
               /\ \A r \in Roles \ {"audit"} : live'[r] = live[r]
               /\ stale' \subseteq stale /\ AuditShrinks,
           job[j].todo \in SUBSET Roles
    PROVE  RestoreTrue(j)'
  <1>1. /\ RolesOf(job[j].dir)' = RolesOf(job[j].dir) /\ Replaced(j)' = Replaced(j)
        /\ snap'[job'[j].dir] = snap[job[j].dir]
    BY DEF RolesOf, Replaced
  <1>2. RolesOf(job[j].dir) \subseteq Roles
    BY DEF RolesOf
  <1>3. ASSUME job[j].pc # "begun", NEW r \in Roles,
               Copied(r, live[r], snap[job[j].dir].files[r], Archived)
        PROVE  Copied(r, live'[r], snap[job[j].dir].files[r], Archived')
    BY <1>3, CopiedStays
  <1>4. CASE job[j].pc = "begun"
    <2>1. /\ snap'[job'[j].dir].manifest # Missing /\ job'[j].pc = "begun"
          /\ job'[j].todo = RolesOf(job[j].dir)' /\ job'[j].spoiled = {}
      BY <1>1, <1>4 DEF RestoreTrue
    <2> QED
      BY <1>1, <2>1 DEF RestoreTrue, Restores
  <1>5. CASE job[j].pc # "begun"
    <2>1. ASSUME job[j].pc = "unlink"
          PROVE  /\ Replaced(j)' \in job'[j].todo
                 /\ Replaced(j)' \notin job'[j].spoiled =>
                      Copied(Replaced(j)', live'[Replaced(j)'],
                             snap'[job'[j].dir].files[Replaced(j)'], Archived')
      <3>1. PICK r \in Roles : r = Replaced(j) /\ r \in job[j].todo
        BY <2>1 DEF RestoreTrue
      <3>2. r \notin job[j].spoiled => Copied(r, live[r], snap[job[j].dir].files[r], Archived)
        BY <2>1, <3>1 DEF RestoreTrue
      <3>3. r \notin job[j].spoiled => Copied(r, live'[r], snap[job[j].dir].files[r], Archived')
        BY <1>3, <1>5, <3>2
      <3> QED
        BY <1>1, <3>1, <3>3
    <2>2. \A r \in RolesOf(job[j].dir) \ (job[j].todo \cup job[j].spoiled) :
              Copied(r, live'[r], snap[job[j].dir].files[r], Archived') /\ r \notin stale'
      BY <1>2, <1>3, <1>5 DEF RestoreTrue
    <2>3. ~up' /\ \A k \in Jobs \ {j} : Restores(k)' => job'[k].pc = "begun"
      BY <1>5 DEF RestoreTrue, Restores
    <2>4. /\ snap'[job'[j].dir].manifest # Missing
          /\ job'[j].pc \in {"check", "restored"} => job'[j].todo = {}
      BY <1>1 DEF RestoreTrue
    <2> QED
      BY <1>1, <1>5, <2>1, <2>2, <2>3, <2>4 DEF RestoreTrue
  <1> QED BY <1>4, <1>5

-----------------------------------------------------------------------------
(* The service writes only while it is up, and then nothing is restored. *)
LEMMA ServiceWrites ==
    ASSUME Inv, up, NEW r \in Roles, NEW content \in SUBSET Subjects,
           Write(r, content), NEW new \in SUBSET Keys,
           appended' = appended \cup new,
           r = "audit" => content = live["audit"] \cup new, r # "audit" => new = {}
    PROVE  Inv'
  <1>1. TypeOK /\ WritersApart /\ PrunedIsArchived
    BY DEF Inv
  <1>2. /\ UNCHANGED <<up, stale, snap, arch, job, begun, crashes, undone>>
        /\ live' = [live EXCEPT ![r] = content]
    BY DEF Write
  <1>3. TypeOK'
    BY <1>1, <1>2 DEF Write, TypeOK, Databases, Logged
  <1>4. WritersApart'
    BY <1>1, <1>2, WritersKept DEF Creates
  <1>5. PrunedIsArchived'
    <2>1. ArchivesKept
      BY <1>2, ArchivesUntouched DEF Working
    <2>2. "audit" \in Roles /\ live'["audit"] = IF r = "audit" THEN content ELSE live["audit"]
      BY <1>1, <1>2 DEF TypeOK, Databases, Roles
    <2>3. Events' = IF live'["audit"] \in SUBSET Subjects THEN live'["audit"] ELSE {}
      BY <1>3, AuditEvents DEF AuditRead
    <2>4. Events = IF live["audit"] \in SUBSET Subjects THEN live["audit"] ELSE {}
      BY <1>1, AuditEvents DEF AuditRead
    <2>5. new \subseteq Events' /\ Events \subseteq Events'
      BY <2>2, <2>3, <2>4
    <2> QED
      BY <1>1, <1>2, <2>1, <2>5, PrunedKept
  <1>6. ASSUME NEW j \in Jobs, Restores(j)' PROVE RestoreTrue(j)'
    <2>1. Restores(j) /\ RestoreTrue(j) /\ job[j].pc = "begun"
      BY <1>2, <1>6 DEF Inv, Restores, RestoreTrue
    <2>2. job[j].todo \in SUBSET Roles
      BY <1>1, <2>1, JobFields DEF Restores
    <2> QED
      BY <1>2, <2>1, <2>2, RestoreKept
  <1> QED
    BY <1>3, <1>4, <1>5, <1>6 DEF Inv

(* The service stores an alert, a state, an incident or an event. *)
LEMMA ServiceStep ==
    ASSUME Inv,
           \/ \E a \in Alerts : AlertInserted(a) \/ StateChanged(a) \/ IncidentStored(a)
           \/ \E k \in Keys : EventAppended(k)
    PROVE  Inv'
  <1>1. \A r \in Roles : Readable(r) => live[r] \in SUBSET Subjects
    BY DEF Inv, TypeOK, Databases, Readable, Content
  <1>2. ASSUME NEW a \in Alerts,
               AlertInserted(a) \/ StateChanged(a) \/ IncidentStored(a)
        PROVE  Inv'
    <2>1. PICK r \in Roles \ {"audit"}, content \in SUBSET Subjects :
              Write(r, content) /\ up /\ appended' = appended
      BY <1>1, <1>2 DEF AlertInserted, StateChanged, IncidentStored, Roles, Subjects
    <2>2. {} \in SUBSET Keys /\ appended' = appended \cup {}
      BY <2>1
    <2> QED
      BY <2>1, <2>2, ServiceWrites
  <1>3. ASSUME NEW k \in Keys, EventAppended(k) PROVE Inv'
    <2>1. /\ up /\ Write("audit", live["audit"] \cup {k})
          /\ appended' = appended \cup {k}
          /\ live["audit"] \cup {k} \in SUBSET Subjects /\ "audit" \in Roles
      BY <1>1, <1>3 DEF EventAppended, Roles, Subjects
    <2>2. ASSUME NEW content \in SUBSET Subjects, NEW r \in Roles, r = "audit",
                 content = live["audit"] \cup {k}
          PROVE  Inv'
      <3>1. {k} \in SUBSET Keys /\ Write(r, content)
        BY <2>1, <2>2
      <3> QED
        BY <2>1, <2>2, <3>1, ServiceWrites
    <2> QED
      BY <2>1, <2>2
  <1> QED
    BY <1>2, <1>3

(* The service stops, crashes or starts; a restore at work keeps it down. *)
LEMMA ServiceEnds ==
    ASSUME Inv, ServiceStops \/ ServiceCrashes \/ ServiceStarts
    PROVE  Inv'
  <1>1. TypeOK /\ WritersApart /\ PrunedIsArchived
    BY DEF Inv
  <1>2. UNCHANGED <<snap, arch, job, begun, appended, undone>>
    BY DEF ServiceStops, ServiceCrashes, ServiceStarts
  <1>3. "audit" \in Roles /\ live'["audit"] = live["audit"]
    BY <1>1 DEF ServiceStops, ServiceCrashes, ServiceStarts, TypeOK, Content,
                Logged, Roles
  <1>4. TypeOK'
    <2>1. live' \in Databases
      BY <1>1 DEF ServiceStops, ServiceCrashes, ServiceStarts, TypeOK, Content,
                  Databases
    <2>2. wal' \subseteq Logged /\ stale' \subseteq Logged
      BY <1>1 DEF ServiceStops, ServiceCrashes, ServiceStarts, TypeOK
    <2>3. crashes' \in Nat
      BY <1>1 DEF ServiceStops, ServiceCrashes, ServiceStarts, TypeOK
    <2>4. up' \in BOOLEAN
      BY DEF ServiceStops, ServiceCrashes, ServiceStarts
    <2> QED
      BY <1>1, <1>2, <2>1, <2>2, <2>3, <2>4 DEF TypeOK
  <1>5. WritersApart'
    BY <1>1, <1>2, WritersKept DEF Creates
  <1>6. ArchivesKept
    BY <1>2, ArchivesUntouched DEF Working
  <1>8. PrunedIsArchived'
    <2>1. Events' = Events
      <3>1. Events' = IF live'["audit"] \in SUBSET Subjects THEN live'["audit"] ELSE {}
        BY <1>4, AuditEvents DEF AuditRead
      <3> QED
        BY <1>1, <1>3, <3>1, AuditEvents DEF AuditRead
    <2> QED
      BY <1>1, <1>2, <1>6, <2>1, PrunedKept
  <1>7. ASSUME NEW j \in Jobs, Restores(j)' PROVE RestoreTrue(j)'
    <2>1. Restores(j) /\ RestoreTrue(j) /\ job[j].todo \in SUBSET Roles
      BY <1>1, <1>2, <1>7, JobFields DEF Inv, Restores
    <2>2. CASE ServiceStarts
      <3>1. job[j].pc = "begun"
        BY <2>1, <2>2 DEF ServiceStarts, Restoring, Restores
      <3>2. snap' = snap /\ job' = job
        BY <1>2
      <3> QED
        BY <2>1, <3>1, <3>2, RestoreKept
    <2>3. CASE ServiceStops \/ ServiceCrashes
      <3>1. /\ job' = job /\ snap' = snap /\ ~up' /\ live' = live /\ stale' = stale
        BY <1>2, <2>3 DEF ServiceStops, ServiceCrashes
      <3>2. AuditShrinks
        BY <1>6, <3>1, AuditStays
      <3> QED
        BY <2>1, <3>1, <3>2, RestoreKept DEF Restores
    <2> QED
      BY <2>2, <2>3
  <1> QED
    BY <1>4, <1>5, <1>7, <1>8 DEF Inv

-----------------------------------------------------------------------------
(* A command begins, in a directory that is its own. *)
LEMMA CommandBegins ==
    ASSUME Inv, NEW j \in Jobs,
           \/ \E d \in SnapDirs : CreateBegins(j, d) \/ RestoreBegins(j, d)
           \/ \E d \in ArchDirs, k \in Keys : ExportBegins(j, d, k)
    PROVE  Inv'
  <1>1. TypeOK /\ WritersApart /\ PrunedIsArchived /\ "audit" \in Roles
    BY DEF Inv, Roles
  <1>2. PICK record : Begin(j, record) /\ record = job'[j]
    BY <1>1 DEF CreateBegins, RestoreBegins, ExportBegins, Begin, TypeOK
  <1>3. /\ UNCHANGED <<up, live, wal, stale, snap, arch, crashes, appended, undone>>
        /\ job[j] = Idle /\ begun' = begun + 1
        /\ \A k \in Jobs \ {j} : job'[k] = job[k]
        /\ job' = [job EXCEPT ![j] = record]
    BY <1>1, <1>2 DEF Begin, TypeOK
  <1>4. \/ /\ record \in [op : {"create"}, dir : SnapDirs, todo : SUBSET Roles]
           /\ snap[record.dir].manifest = Missing /\ Working(record.dir) = {}
        \/ /\ record \in RestoreJobs
           /\ record.pc = "begun" /\ record.todo = RolesOf(record.dir)
           /\ record.spoiled = {} /\ snap[record.dir].manifest # Missing
        \/ /\ record \in [op : {"export"}, dir : ArchDirs,
                          rows : SUBSET Subjects, pc : {"read", "written"}]
           /\ arch[record.dir].manifest = Missing
    <2>1. ASSUME NEW d \in SnapDirs, CreateBegins(j, d)
          PROVE  /\ record \in [op : {"create"}, dir : SnapDirs, todo : SUBSET Roles]
                 /\ snap[record.dir].manifest = Missing /\ Working(record.dir) = {}
      <3>1. record = [op |-> "create", dir |-> d, todo |-> Core]
        BY <1>1, <1>2, <2>1 DEF CreateBegins, Begin, TypeOK
      <3> QED
        BY <2>1, <3>1 DEF CreateBegins, Core
    <2>2. ASSUME NEW d \in SnapDirs, RestoreBegins(j, d)
          PROVE  /\ record \in RestoreJobs
                 /\ record.pc = "begun" /\ record.todo = RolesOf(record.dir)
                 /\ record.spoiled = {} /\ snap[record.dir].manifest # Missing
      <3>1. record = [op |-> "restore", pc |-> "begun", dir |-> d, todo |-> RolesOf(d),
                      spoiled |-> {}]
        BY <1>1, <1>2, <2>2 DEF RestoreBegins, Begin, TypeOK
      <3> QED
        BY <2>2, <3>1 DEF RestoreBegins, Verified, RolesOf, RestoreJobs
    <2>3. ASSUME NEW d \in ArchDirs, NEW last \in Keys, ExportBegins(j, d, last)
          PROVE  /\ record \in [op : {"export"}, dir : ArchDirs,
                                rows : SUBSET Subjects, pc : {"read", "written"}]
                 /\ arch[record.dir].manifest = Missing
      <3>1. record = [op |-> "export", dir |-> d, pc |-> "read",
                      rows |-> {k \in live["audit"] : k <= last}]
        BY <1>1, <1>2, <2>3 DEF ExportBegins, Begin, TypeOK
      <3>2. live["audit"] \in SUBSET Subjects
        BY <1>1, <2>3 DEF ExportBegins, Readable, Content, TypeOK, Databases
      <3> QED
        BY <2>3, <3>1, <3>2 DEF ExportBegins
    <2> QED
      BY <2>1, <2>2, <2>3
  <1>5. TypeOK'
    <2>1. record \in JobRecords
      BY <1>4 DEF JobRecords
    <2> QED
      BY <1>1, <1>3, <2>1 DEF TypeOK
  <1>6. WritersApart'
    <2>1. \A k \in Jobs, d \in SnapDirs :
              Creates(k, d)' <=> \/ k # j /\ Creates(k, d)
                                 \/ k = j /\ record.op = "create" /\ record.dir = d
      BY <1>2, <1>3 DEF Creates
    <2>2. ASSUME record.op = "create"
          PROVE  /\ snap[record.dir].manifest = Missing
                 /\ \A k \in Jobs : ~Creates(k, record.dir)
      BY <1>4, <2>2 DEF Creates, Working, RestoreJobs
    <2> QED
      BY <1>1, <1>3, <2>1, <2>2 DEF WritersApart, Consistent
  <1>7. ArchivesKept
    <2>1. SUFFICES ASSUME NEW d \in ArchDirs, ArchiveVerified(d)
                   PROVE  ArchiveVerified(d)' /\ arch'[d].events = arch[d].events
      BY DEF ArchivesKept
    <2>2. d # record.dir \/ record.op \notin {"create", "export"}
      BY <1>4, <2>1, StorageConfiguration DEF ArchiveVerified, RestoreJobs
    <2>3. Working(d)' = {}
      BY <1>2, <1>3, <2>1, <2>2 DEF ArchiveVerified, Working
    <2> QED
      BY <1>3, <2>1, <2>3 DEF ArchiveVerified
  <1>9. PrunedIsArchived'
    <2>1. Events' = Events
      BY <1>3 DEF Events, Readable, Content
    <2> QED
      BY <1>1, <1>3, <1>7, <2>1, PrunedKept
  <1>8. ASSUME NEW k \in Jobs, Restores(k)' PROVE RestoreTrue(k)'
    <2>1. CASE k = j
      <3>1. /\ record.pc = "begun" /\ record.todo = RolesOf(record.dir)
            /\ record.spoiled = {} /\ snap[record.dir].manifest # Missing
        BY <1>2, <1>4, <1>8, <2>1 DEF Restores
      <3>2. RolesOf(record.dir)' = RolesOf(record.dir)
        BY <1>3 DEF RolesOf
      <3> QED
        BY <1>2, <1>3, <2>1, <3>1, <3>2 DEF RestoreTrue
    <2>2. CASE k # j
      <3>1. Restores(k) /\ RestoreTrue(k) /\ job'[k] = job[k]
            /\ job[k].todo \in SUBSET Roles
        BY <1>1, <1>3, <1>8, <2>2, JobFields DEF Inv, Restores
      <3>2. \A i \in Jobs \ {k} : Restores(i)' /\ job'[i].pc # "begun" =>
                Restores(i) /\ job[i].pc # "begun"
        BY <1>2, <1>3, <1>4 DEF Restores, RestoreJobs
      <3>3. AuditShrinks
        BY <1>3, <1>7, AuditStays
      <3> QED
        BY <1>3, <3>1, <3>2, <3>3, RestoreKept
    <2> QED
      BY <2>1, <2>2
  <1> QED
    BY <1>5, <1>6, <1>8, <1>9 DEF Inv

-----------------------------------------------------------------------------
(* A step of one command that writes no live database: what it may do to    *)
(* its own directory and to its own record, for the invariant to hold.      *)
LEMMA DirectoryStep ==
    ASSUME Inv, NEW j \in Jobs,
           UNCHANGED <<up, live, wal, stale, appended, undone>>,
           TypeOK', \A k \in Jobs \ {j} : job'[k] = job[k],
           job[j].op # "none", ~Restores(j)' \/ job[j] = job'[j],
           \A d \in SnapDirs : snap'[d] = snap[d] \/ Creates(j, d),
           \A d \in SnapDirs : Creates(j, d)' => Creates(j, d),
           \A d \in SnapDirs : /\ Creates(j, d) /\ snap'[d].manifest # Missing
                               => Consistent(snap'[d].files) /\ ~Creates(j, d)',
           \A d \in ArchDirs : arch'[d] = arch[d] \/ j \in Working(d),
           \A d \in ArchDirs : j \in Working(d)' => j \in Working(d)
    PROVE  Inv'
  <1>1. TypeOK /\ WritersApart /\ PrunedIsArchived
    BY DEF Inv
  <1>2. WritersApart'
    <2>1. \A k \in Jobs, d \in SnapDirs : Creates(k, d)' => Creates(k, d)
      BY DEF Creates
    <2>2. ASSUME NEW d \in SnapDirs, snap'[d].manifest # Missing
          PROVE  Consistent(snap'[d].files) /\ \A k \in Jobs : ~Creates(k, d)'
      <3>1. CASE Creates(j, d)
        BY <1>1, <2>1, <2>2, <3>1 DEF WritersApart
      <3>2. CASE ~Creates(j, d)
        BY <1>1, <2>1, <2>2, <3>2 DEF WritersApart
      <3> QED
        BY <3>1, <3>2
    <2>3. \A d \in SnapDirs : Consistent(snap[d].files)' <=> Consistent(snap'[d].files)
      BY DEF Consistent
    <2> QED
      BY <1>1, <2>1, <2>2, <2>3 DEF WritersApart
  <1>3. ArchivesKept
    BY DEF ArchivesKept, ArchiveVerified, Working
  <1>5. PrunedIsArchived'
    <2>1. Events' = Events
      BY DEF Events, Readable, Content
    <2> QED
      BY <1>1, <1>3, <2>1, PrunedKept
  <1>4. ASSUME NEW k \in Jobs, Restores(k)' PROVE RestoreTrue(k)'
    <2>1. job'[k] = job[k]
      BY <1>4
    <2>2. Restores(k) /\ RestoreTrue(k) /\ job[k].todo \in SUBSET Roles
          /\ job[k].dir \in SnapDirs
      BY <1>1, <1>4, <2>1, JobFields DEF Inv, Restores
    <2>3. snap'[job[k].dir] = snap[job[k].dir]
      BY <1>1, <2>2 DEF RestoreTrue, WritersApart
    <2>4. \A i \in Jobs \ {k} : Restores(i)' /\ job'[i].pc # "begun" =>
              Restores(i) /\ job[i].pc # "begun"
      BY DEF Restores
    <2>5. AuditShrinks
      BY <1>3, AuditStays
    <2> QED
      BY <2>1, <2>2, <2>3, <2>4, <2>5, RestoreKept
  <1> QED
    BY <1>2, <1>4, <1>5 DEF Inv

(* create_storage_snapshot copies its databases and writes its manifest. *)
LEMMA CreateStep ==
    ASSUME Inv, NEW j \in Jobs, CreateEnds(j) \/ \E r \in Roles : DatabaseCopied(j, r)
    PROVE  Inv'
  <1>1. TypeOK /\ job[j].op = "create"
    BY DEF Inv, CreateEnds, DatabaseCopied
  <1>2. /\ job[j].dir \in SnapDirs /\ job[j].todo \in SUBSET Roles
        /\ job[j] \in [op : {"create"}, dir : SnapDirs, todo : SUBSET Roles]
    BY <1>1, JobFields
  <1>3. /\ UNCHANGED <<up, live, wal, stale, arch, undone, begun, crashes, appended>>
        /\ \A k \in Jobs \ {j} : job'[k] = job[k]
    BY <1>1 DEF CreateEnds, DatabaseCopied, OnlyJob, TypeOK
  <1>4. CASE CreateEnds(j)
    <2>1. job' = [job EXCEPT ![j] = Idle] /\ job'[j] = Idle
      BY <1>1, <1>4 DEF CreateEnds, OnlyJob, TypeOK
    <2>2. snap' = snap \/ /\ Consistent(snap[job[j].dir].files)
                          /\ snap' = [snap EXCEPT ![job[j].dir].manifest =
                                                     snap[job[j].dir].files]
      BY <1>4 DEF CreateEnds
    <2>3. TypeOK'
      <3>1. job' \in [Jobs -> JobRecords]
        BY <1>1, <2>1, JobFields DEF TypeOK
      <3>2. snap' \in [SnapDirs -> [files : Databases, manifest : Databases \cup {Missing}]]
        BY <1>1, <1>2, <2>2 DEF TypeOK
      <3> QED
        BY <1>1, <1>3, <3>1, <3>2 DEF TypeOK
    <2>4. ~Restores(j)' /\ \A d : ~Creates(j, d)' /\ j \notin Working(d)'
      BY <1>1, <2>1, JobFields DEF Restores, Creates, Working
    <2>5. \A d \in SnapDirs : snap'[d] = snap[d] \/ Creates(j, d)
      BY <1>1, <1>2, <2>2 DEF Creates, TypeOK
    <2>6. \A d \in SnapDirs : Creates(j, d) /\ snap'[d].manifest # Missing =>
              Consistent(snap'[d].files)
      <3>1. CASE snap' = snap
        BY <3>1 DEF Inv, WritersApart
      <3>2. CASE /\ Consistent(snap[job[j].dir].files)
                 /\ snap' = [snap EXCEPT ![job[j].dir].manifest = snap[job[j].dir].files]
        BY <1>1, <1>2, <3>2 DEF Creates, TypeOK
      <3> QED
        BY <2>2, <3>1, <3>2
    <2> QED
      BY <1>1, <1>3, <2>3, <2>4, <2>5, <2>6, DirectoryStep
  <1>5. ASSUME NEW r \in Roles, DatabaseCopied(j, r) PROVE Inv'
    <2>1. /\ snap' = [snap EXCEPT ![job[j].dir].files[r] = live[r]]
          /\ \E new \in SUBSET Roles : job' = [job EXCEPT ![j] = [job[j] EXCEPT !.todo = new]]
      BY <1>2, <1>5 DEF DatabaseCopied, OnlyJob, Roles
    <2>2. job'[j] \in [op : {"create"}, dir : SnapDirs, todo : SUBSET Roles]
          /\ job'[j].dir = job[j].dir
      BY <1>1, <1>2, <2>1 DEF TypeOK
    <2>3. snap'[job[j].dir].manifest = snap[job[j].dir].manifest
          /\ \A d \in SnapDirs \ {job[j].dir} : snap'[d] = snap[d]
      BY <1>1, <1>2, <2>1 DEF TypeOK
    <2>4. TypeOK'
      <3>1. job' \in [Jobs -> JobRecords]
        BY <1>1, <2>1, <2>2 DEF TypeOK, JobRecords
      <3>2. snap' \in [SnapDirs -> [files : Databases, manifest : Databases \cup {Missing}]]
        BY <1>1, <1>2, <2>1, SMTT(40) DEF TypeOK, Databases
      <3> QED
        BY <1>1, <1>3, <3>1, <3>2 DEF TypeOK
    <2>5. /\ ~Restores(j)'
          /\ \A d : Creates(j, d)' <=> Creates(j, d)
          /\ \A d : j \in Working(d)' <=> j \in Working(d)
      BY <1>1, <2>2 DEF Restores, Creates, Working
    <2>6. \A d \in SnapDirs : /\ snap'[d] = snap[d] \/ Creates(j, d)
                              /\ Creates(j, d) => snap'[d].manifest = Missing
      BY <1>1, <2>3 DEF Creates, Inv, WritersApart
    <2> QED
      BY <1>1, <1>3, <2>4, <2>5, <2>6, DirectoryStep
  <1> QED
    BY <1>4, <1>5

(* export_audit_archive writes its events and its manifest. *)
LEMMA ExportStep ==
    ASSUME Inv, NEW j \in Jobs, EventsWritten(j) \/ ManifestWritten(j)
    PROVE  Inv'
  <1>1. TypeOK /\ job[j].op = "export"
    BY DEF Inv, EventsWritten, ManifestWritten
  <1>2. job[j] \in [op : {"export"}, dir : ArchDirs, rows : SUBSET Subjects,
                    pc : {"read", "written"}]
    BY <1>1, JobFields
  <1>3. /\ UNCHANGED <<up, live, wal, stale, snap, undone, begun, crashes, appended>>
        /\ \A k \in Jobs \ {j} : job'[k] = job[k]
    BY <1>1 DEF EventsWritten, ManifestWritten, OnlyJob, TypeOK
  <1>4. /\ job' = [job EXCEPT ![j] = job'[j]]
        /\ job'[j] = Idle \/ job'[j] = [job[j] EXCEPT !.pc = "written"]
    BY <1>1 DEF EventsWritten, ManifestWritten, OnlyJob, TypeOK
  <1>5. \/ arch' = [arch EXCEPT ![job[j].dir].events = job[j].rows]
        \/ arch' = [arch EXCEPT ![job[j].dir].manifest = job[j].rows]
    BY DEF EventsWritten, ManifestWritten
  <1>6. TypeOK'
    <2>1. job'[j] \in JobRecords
      BY <1>1, <1>2, <1>4, JobFields DEF JobRecords
    <2>2. job' \in [Jobs -> JobRecords]
      BY <1>1, <1>4, <2>1 DEF TypeOK
    <2>3. arch' \in [ArchDirs -> [events : (SUBSET Subjects) \cup {Missing, Damaged},
                                  manifest : (SUBSET Subjects) \cup {Missing}]]
      BY <1>1, <1>2, <1>5 DEF TypeOK
    <2> QED
      BY <1>1, <1>3, <2>2, <2>3 DEF TypeOK
  <1>7. /\ ~Restores(j)' /\ \A d : ~Creates(j, d) /\ ~Creates(j, d)'
        /\ \A d : j \in Working(d)' => j \in Working(d)
    BY <1>1, <1>2, <1>4, JobFields DEF Restores, Creates, Working
  <1>8. \A d \in ArchDirs : arch'[d] = arch[d] \/ j \in Working(d)
    BY <1>1, <1>2, <1>5 DEF TypeOK, Working
  <1> QED
    BY <1>1, <1>3, <1>6, <1>7, <1>8, DirectoryStep

(* A command dies where it stands. *)
LEMMA DeathStep == ASSUME Inv, NEW j \in Jobs, JobDies(j) PROVE Inv'
  <1>1. TypeOK /\ job[j] # Idle
    BY DEF Inv, JobDies
  <1>2. /\ UNCHANGED <<up, live, wal, stale, begun, appended, undone>>
        /\ job' = [job EXCEPT ![j] = Idle] /\ crashes' = crashes + 1
        /\ Torn(j) \/ UNCHANGED <<snap, arch>>
    BY DEF JobDies
  <1>3. /\ job'[j] = Idle /\ job' \in [Jobs -> JobRecords]
        /\ \A k \in Jobs \ {j} : job'[k] = job[k]
    BY <1>1, <1>2, JobFields DEF TypeOK
  <1>4. job[j].op \in {"create", "restore", "export"}
    BY <1>1, JobFields DEF TypeOK, JobRecords, RestoreJobs
  <1>5. ~Restores(j)' /\ \A d : ~Creates(j, d)' /\ j \notin Working(d)'
    BY <1>1, <1>3, JobFields DEF Restores, Creates, Working
  <1>6. \/ UNCHANGED <<snap, arch>>
        \/ /\ job[j].op = "create" /\ arch' = arch
           /\ \E r \in Roles, d \in SnapDirs :
                 /\ d = job[j].dir
                 /\ \E c \in (SUBSET Subjects) \cup {Missing, Damaged} :
                       snap' = [snap EXCEPT ![d].files[r] = c]
        \/ /\ job[j].op = "export" /\ snap' = snap
           /\ \E d \in ArchDirs :
                 /\ d = job[j].dir
                 /\ \/ arch' = arch
                    \/ arch' = [arch EXCEPT ![d].events = Damaged]
    <2>1. CASE UNCHANGED <<snap, arch>>
      BY <2>1
    <2>2. CASE Torn(j) /\ job[j].op = "create"
      <3>1. job[j].dir \in SnapDirs /\ arch' = arch
        BY <1>1, <2>2, JobFields DEF Torn
      <3>2. PICK r \in Roles : snap' = [snap EXCEPT ![job[j].dir].files[r] =
                                            IF r \in job[j].todo THEN Damaged ELSE @]
        BY <2>2 DEF Torn
      <3>3. snap[job[j].dir].files[r] \in (SUBSET Subjects) \cup {Missing, Damaged}
        BY <1>1, <3>1 DEF TypeOK, Databases
      <3>4. \E c \in (SUBSET Subjects) \cup {Missing, Damaged} :
                snap' = [snap EXCEPT ![job[j].dir].files[r] = c]
        BY <3>2, <3>3
      <3> QED
        BY <2>2, <3>1, <3>4
    <2>3. CASE Torn(j) /\ job[j].op = "export"
      <3>1. job[j].dir \in ArchDirs /\ snap' = snap
        BY <1>1, <2>3, JobFields DEF Torn
      <3>2. arch' = [arch EXCEPT ![job[j].dir] =
                        IF job[j].pc = "read" THEN [@ EXCEPT !.events = Damaged] ELSE @]
        BY <2>3 DEF Torn
      <3>3. arch' = arch \/ arch' = [arch EXCEPT ![job[j].dir].events = Damaged]
        BY <1>1, <3>1, <3>2 DEF TypeOK
      <3> QED
        BY <2>3, <3>1, <3>3
    <2>4. CASE Torn(j) /\ job[j].op = "restore"
      BY <2>4 DEF Torn
    <2> QED
      BY <1>2, <1>4, <2>1, <2>2, <2>3, <2>4
  <1>7. TypeOK'
    <2>1. snap' \in [SnapDirs -> [files : Databases, manifest : Databases \cup {Missing}]]
      BY <1>1, <1>6 DEF TypeOK, Databases
    <2>2. arch' \in [ArchDirs -> [events : (SUBSET Subjects) \cup {Missing, Damaged},
                                  manifest : (SUBSET Subjects) \cup {Missing}]]
      BY <1>1, <1>6 DEF TypeOK
    <2> QED
      BY <1>1, <1>2, <1>3, <2>1, <2>2 DEF TypeOK
  <1>8. \A d \in SnapDirs :
            /\ snap'[d] = snap[d] \/ Creates(j, d)
            /\ snap'[d].manifest = snap[d].manifest
    BY <1>1, <1>6 DEF TypeOK, Creates
  <1>9. \A d \in SnapDirs : Creates(j, d) => snap'[d].manifest = Missing
    BY <1>8 DEF Inv, WritersApart
  <1>10. \A d \in ArchDirs : arch'[d] = arch[d] \/ j \in Working(d)
    BY <1>1, <1>6 DEF TypeOK, Working
  <1>11. job[j].op # "none"
    BY <1>4
  <1> QED
    BY <1>1, <1>2, <1>3, <1>5, <1>7, <1>8, <1>9, <1>10, <1>11, DirectoryStep

-----------------------------------------------------------------------------
(* The steps of a restore move its stage, and put one database back. *)
LEMMA RestoreStep ==
    ASSUME Inv, NEW j \in Jobs,
           \/ RestoreLocks(j) \/ SidecarsUnlinked(j) \/ SidecarsLeft(j)
           \/ RestoreChecked(j) \/ RestoreReturns(j) \/ \E r \in Roles : DatabaseReplaced(j, r)
    PROVE  Inv'
  <1>1. TypeOK /\ WritersApart /\ PrunedIsArchived /\ Restores(j) /\ RestoreTrue(j)
    BY DEF Inv, RestoreLocks, SidecarsUnlinked, SidecarsLeft, RestoreChecked,
           RestoreReturns, DatabaseReplaced, Restores
  <1>2. /\ job[j] \in RestoreJobs
        /\ job[j].dir \in SnapDirs /\ job[j].todo \in SUBSET Roles
        /\ job[j].op = "restore" /\ job[j].spoiled \in SUBSET Roles
    BY <1>1, JobFields DEF Restores, RestoreJobs
  <1>3. /\ UNCHANGED <<up, snap, arch, begun, crashes, appended>>
        /\ \A k \in Jobs \ {j} : job'[k] = job[k]
        /\ job' = [job EXCEPT ![j] = job'[j]]
    BY <1>1 DEF RestoreLocks, SidecarsUnlinked, SidecarsLeft, RestoreChecked,
                RestoreReturns, RestoreGoesOn, DatabaseReplaced, OnlyJob, TypeOK
  <1>4. /\ \A d : ~Creates(j, d) /\ j \notin Working(d)
        /\ RolesOf(job[j].dir) \subseteq Roles
        /\ \A d : RolesOf(d)' = RolesOf(d)
    BY <1>2, <1>3 DEF Creates, Working, RolesOf
  <1>5. /\ \/ job'[j] = Idle
           \/ /\ job'[j] \in RestoreJobs
              /\ job'[j].dir = job[j].dir
        /\ job'[j] \in JobRecords /\ job'[j].op \in {"none", "restore"}
    <2>1. \/ job'[j] = Idle
          \/ \E p \in {"replace", "unlink", "check", "restored"},
                t \in SUBSET Roles, s \in SUBSET Roles :
                 job'[j] = [job[j] EXCEPT !.todo = t, !.spoiled = s, !.pc = p]
      <3>1. CASE RestoreLocks(j)
        <4>1. job'[j] = Idle \/ job'[j] = [job[j] EXCEPT !.pc = "replace"]
          BY <1>1, <3>1 DEF RestoreLocks, OnlyJob, TypeOK
        <4>2. \/ job'[j] = Idle
              \/ job'[j] = [job[j] EXCEPT !.todo = job[j].todo,
                                          !.spoiled = job[j].spoiled, !.pc = "replace"]
          BY <1>2, <4>1 DEF RestoreJobs
        <4> QED BY <1>2, <4>2
      <3>2. CASE SidecarsUnlinked(j) \/ SidecarsLeft(j)
        <4> DEFINE t == job[j].todo \ {Replaced(j)}
                   p == IF job[j].todo = {Replaced(j)} THEN "check" ELSE "replace"
        <4>1. PICK s \in SUBSET Roles :
                  job'[j] = [job[j] EXCEPT !.todo = t, !.spoiled = s, !.pc = p]
          <5>1. \/ RestoreGoesOn(j, job[j].spoiled)
                \/ RestoreGoesOn(j, job[j].spoiled \cup {Replaced(j)}) /\ job[j].pc = "unlink"
            BY <3>2 DEF SidecarsUnlinked, SidecarsLeft
          <5>2. job[j].pc = "unlink" => Replaced(j) \in Roles
            BY <1>1, <1>2 DEF RestoreTrue
          <5>3. \E s \in SUBSET Roles : RestoreGoesOn(j, s)
            BY <1>2, <5>1, <5>2
          <5> QED
            BY <1>1, <5>3 DEF RestoreGoesOn, OnlyJob, TypeOK
        <4>2. t \in SUBSET Roles /\ p \in {"check", "replace"}
          BY <1>2
        <4> QED
          BY <4>1, <4>2
      <3>3. CASE RestoreChecked(j)
        <4>1. job'[j] = [job[j] EXCEPT !.pc = "restored"]
          BY <1>1, <3>3 DEF RestoreChecked, OnlyJob, TypeOK
        <4>2. job'[j] = [job[j] EXCEPT !.todo = job[j].todo,
                                       !.spoiled = job[j].spoiled, !.pc = "restored"]
          BY <1>2, <4>1 DEF RestoreJobs
        <4> QED BY <1>2, <4>2
      <3>4. CASE RestoreReturns(j)
        BY <1>1, <3>4 DEF RestoreReturns, OnlyJob, TypeOK
      <3>5. CASE \E r \in Roles : DatabaseReplaced(j, r)
        <4>1. PICK r \in Roles : DatabaseReplaced(j, r)
          BY <3>5
        <4>2. PICK s \in SUBSET Roles :
                  job'[j] = [job[j] EXCEPT !.spoiled = s, !.pc = "unlink"]
          <5>1. PICK file : OnlyJob(j, [job[j] EXCEPT !.pc = "unlink",
                              !.spoiled = IF file = Damaged THEN @ \cup {r} ELSE @])
            BY <4>1 DEF DatabaseReplaced
          <5>2. PICK s : s = IF file = Damaged THEN job[j].spoiled \cup {r}
                                               ELSE job[j].spoiled
            OBVIOUS
          <5>3. s \in SUBSET Roles
            <6>1. job[j].spoiled \in SUBSET Roles
              BY <1>2
            <6> QED
              BY ONLY <5>2, <6>1, r \in Roles
          <5>4. job'[j] = [job[j] EXCEPT !.pc = "unlink", !.spoiled = s]
            BY <1>1, <5>1, <5>2 DEF OnlyJob, TypeOK
          <5>5. job'[j] = [job[j] EXCEPT !.spoiled = s, !.pc = "unlink"]
            BY <1>2, <5>4 DEF RestoreJobs
          <5> QED
            BY <5>3, <5>5
        <4>3. job'[j] = [job[j] EXCEPT !.todo = job[j].todo, !.spoiled = s, !.pc = "unlink"]
          BY <1>2, <4>2 DEF RestoreJobs
        <4> QED
          BY <1>2, <4>3
      <3> QED
        BY <3>1, <3>2, <3>3, <3>4, <3>5
    <2>2. \/ job'[j] = Idle
          \/ /\ job'[j] \in RestoreJobs
              /\ job'[j].dir = job[j].dir
      BY <1>2, <2>1 DEF RestoreJobs
    <2>3. Idle \in JobRecords /\ Idle.op = "none"
      BY DEF Idle, JobRecords
    <2> QED
      BY <2>2, <2>3 DEF JobRecords, RestoreJobs
  <1>6. \A d : ~Creates(j, d)' /\ j \notin Working(d)'
    <2>1. \A d : ~Creates(j, d)'
      BY <1>5 DEF Creates
    <2>2. \A d : j \notin Working(d)'
      BY <1>5 DEF Working
    <2> QED
      BY <2>1, <2>2
  <1>7. WritersApart'
    BY <1>1, <1>3, <1>6, WritersKept DEF Creates
  <1>8. ArchivesKept
    BY <1>3, <1>6, ArchivesUntouched DEF Working
  <1>9. \A r \in Roles : snap[job[j].dir].files[r] \in
                             (SUBSET Subjects) \cup {Missing, Damaged}
    BY <1>1, <1>2 DEF TypeOK, Databases
  <1>10. TypeOK'
    <2>1. job' \in [Jobs -> JobRecords]
      BY <1>1, <1>3, <1>5 DEF TypeOK
    <2>2. live' \in Databases
      BY <1>1, <1>9 DEF RestoreLocks, SidecarsUnlinked, SidecarsLeft, RestoreChecked,
         RestoreReturns, DatabaseReplaced, TypeOK, Databases
    <2>3. wal' \subseteq Logged /\ stale' \subseteq Logged
      BY <1>1 DEF RestoreLocks, SidecarsUnlinked, SidecarsLeft, RestoreChecked,
         RestoreReturns, DatabaseReplaced, TypeOK
    <2> QED
      BY <1>1, <1>3, <2>1, <2>2, <2>3 DEF TypeOK
  <1>11. PrunedIsArchived'
    <2>1. undone \subseteq undone' /\ Events \subseteq Events' \cup undone'
      <3>1. CASE \E r \in Roles : DatabaseReplaced(j, r)
        <4>1. PICK r \in Roles : DatabaseReplaced(j, r)
          BY <3>1
        <4>2. undone' = IF r = "audit" THEN undone \cup (Events \ Events') ELSE undone
          BY <4>1 DEF DatabaseReplaced
        <4>3. r # "audit" => live'["audit"] = live["audit"]
          BY <1>1, <4>1, AuditEvents DEF DatabaseReplaced, TypeOK, Databases, AuditRead
        <4>4. r # "audit" => Events' = Events
          <5>1. Events' = IF live'["audit"] \in SUBSET Subjects THEN live'["audit"] ELSE {}
            BY <1>10, AuditEvents DEF AuditRead
          <5> QED
            BY <1>1, <4>3, <5>1, AuditEvents DEF AuditRead
        <4> QED
          BY <4>2, <4>4
      <3>2. CASE ~\E r \in Roles : DatabaseReplaced(j, r)
        <4>1. live' = live /\ undone' = undone
          BY <3>2 DEF RestoreLocks, SidecarsUnlinked, SidecarsLeft, RestoreChecked, RestoreReturns
        <4>2. Events' = IF live'["audit"] \in SUBSET Subjects THEN live'["audit"] ELSE {}
          BY <1>10, AuditEvents DEF AuditRead
        <4> QED
          BY <1>1, <4>1, <4>2, AuditEvents DEF AuditRead
      <3> QED
        BY <3>1, <3>2
    <2>2. {} \subseteq Events' /\ appended' \subseteq appended \cup {}
      BY <1>3
    <2> QED
      BY <1>1, <1>8, <2>1, <2>2, PrunedKept
  <1>12. CASE RestoreReturns(j) \/ (RestoreLocks(j) /\ Restoring)
    <2>1. job'[j] = Idle /\ UNCHANGED <<live, stale>>
      BY <1>1, <1>12 DEF RestoreReturns, RestoreLocks, OnlyJob, TypeOK
    <2>2. ASSUME NEW k \in Jobs, Restores(k)' PROVE RestoreTrue(k)'
      <3>1. k # j /\ job'[k] = job[k]
        BY <1>1, <1>3, <2>1, <2>2, JobFields DEF Restores
      <3>2. Restores(k) /\ RestoreTrue(k) /\ job[k].todo \in SUBSET Roles
        BY <1>1, <2>2, <3>1, JobFields DEF Inv, Restores
      <3>3. \A i \in Jobs \ {k} : Restores(i)' /\ job'[i].pc # "begun" =>
                Restores(i) /\ job[i].pc # "begun"
        BY <1>1, <1>3, <2>1, JobFields DEF Restores
      <3>4. AuditShrinks
        BY <1>8, <2>1, AuditStays
      <3> QED
        BY <1>3, <2>1, <3>1, <3>2, <3>3, <3>4, RestoreKept
    <2> QED
      BY <1>7, <1>10, <1>11, <2>2 DEF Inv
  <1>13. ASSUME \A k \in Jobs \ {j} : Restores(k) => job[k].pc = "begun",
                RestoreTrue(j)'
         PROVE  Inv'
    <2>1. ASSUME NEW k \in Jobs, Restores(k)', k # j PROVE RestoreTrue(k)'
      <3>1. /\ job'[k] = job[k] /\ Restores(k) /\ RestoreTrue(k)
            /\ job[k].todo \in SUBSET Roles /\ job[k].pc = "begun"
        BY <1>1, <1>3, <1>13, <2>1, JobFields DEF Inv, Restores
      <3> QED
        BY <1>3, <3>1, RestoreKept
    <2> QED
      BY <1>7, <1>10, <1>11, <1>13, <2>1 DEF Inv
  <1>14. CASE RestoreLocks(j) /\ ~Restoring
    <2>1. /\ job'[j] = [job[j] EXCEPT !.pc = "replace"] /\ UNCHANGED <<live, stale>>
          /\ job[j].pc = "begun" /\ ~up
      BY <1>1, <1>14 DEF RestoreLocks, OnlyJob, TypeOK
    <2>2. \A k \in Jobs \ {j} : Restores(k) => job[k].pc = "begun"
      BY <1>14 DEF Restoring, Restores
    <2>3. job'[j].pc = "replace" /\ job'[j].dir = job[j].dir
          /\ job'[j].todo = job[j].todo /\ job[j].todo = RolesOf(job[j].dir)
      BY <1>1, <1>2, <2>1 DEF RestoreTrue, RestoreJobs
    <2>4. RestoreTrue(j)'
      BY <1>1, <1>3, <1>4, <2>1, <2>2, <2>3 DEF RestoreTrue, Restores
    <2> QED
      BY <1>13, <2>2, <2>4
  <1>15. CASE RestoreChecked(j)
    <2>1. /\ job'[j] = [job[j] EXCEPT !.pc = "restored"] /\ UNCHANGED <<live, stale>>
          /\ job[j].pc = "check"
      BY <1>1, <1>15 DEF RestoreChecked, OnlyJob, TypeOK
    <2>2. \A k \in Jobs \ {j} : Restores(k) => job[k].pc = "begun"
      BY <1>1, <2>1 DEF RestoreTrue
    <2>3. job'[j].pc = "restored" /\ job'[j].dir = job[j].dir
          /\ job'[j].todo = job[j].todo /\ job'[j].spoiled = job[j].spoiled
      BY <1>2, <2>1 DEF RestoreJobs
    <2>4. \A r \in Roles : Copied(r, live[r], snap[job[j].dir].files[r], Archived) =>
                               Copied(r, live'[r], snap[job[j].dir].files[r], Archived')
      BY <1>3, <1>8, <2>1, <2>3, ArchivedStays DEF Copied
    <2>5. RestoreTrue(j)'
      BY <1>1, <1>3, <1>4, <2>1, <2>2, <2>3, <2>4 DEF RestoreTrue, Restores
    <2> QED
      BY <1>13, <2>2, <2>5
  <1>16. ASSUME NEW r \in Roles, DatabaseReplaced(j, r) PROVE Inv'
    <2>1. /\ job[j].pc = "replace" /\ r \in job[j].todo
          /\ \A q \in job[j].todo : RestoreOrder[r] <= RestoreOrder[q]
          /\ stale' = stale \cup ({r} \cap wal)
      BY <1>16 DEF DatabaseReplaced
    <2>2. PICK file \in {snap[job[j].dir].files[r], Damaged} :
              /\ live' = [live EXCEPT ![r] = file]
              /\ job'[j] = [job[j] EXCEPT !.pc = "unlink",
                              !.spoiled = IF file = Damaged THEN @ \cup {r} ELSE @]
      BY <1>1, <1>16 DEF DatabaseReplaced, OnlyJob, TypeOK
    <2>3. \A k \in Jobs \ {j} : Restores(k) => job[k].pc = "begun"
      BY <1>1, <2>1 DEF RestoreTrue
    <2>4. /\ job'[j].pc = "unlink" /\ job'[j].dir = job[j].dir
          /\ job'[j].todo = job[j].todo /\ job[j].spoiled \subseteq job'[j].spoiled
          /\ file = Damaged => r \in job'[j].spoiled
      BY <1>2, <2>2 DEF RestoreJobs
    <2>5. Replaced(j)' = r
      <3>1. Replaced(j) = r
        BY <1>2, <2>1, ReplacedIsFirst
      <3>2. Replaced(j)' = Replaced(j)
        BY <2>4 DEF Replaced
      <3> QED
        BY <3>1, <3>2
    <2>6. live'[r] = file
          /\ \A q \in Roles \ {r} : live'[q] = live[q] /\ (q \in stale' => q \in stale)
      BY <1>1, <2>1, <2>2 DEF TypeOK, Databases
    <2>7. snap'[job'[j].dir].files = snap[job[j].dir].files /\ Archived \subseteq Archived'
      BY <1>3, <1>8, <2>4, ArchivedStays
    <2>8. \A q \in Roles \ {r} : Copied(q, live[q], snap[job[j].dir].files[q], Archived) =>
                                     Copied(q, live'[q], snap[job[j].dir].files[q], Archived')
      BY <2>6, <2>7 DEF Copied
    <2>9. r \notin job'[j].spoiled =>
              Copied(r, live'[r], snap[job[j].dir].files[r], Archived')
      BY <2>2, <2>4, <2>6, <2>7 DEF Copied
    <2>10. \A q \in RolesOf(job[j].dir) \ (job[j].todo \cup job'[j].spoiled) :
               Copied(q, live'[q], snap[job[j].dir].files[q], Archived') /\ q \notin stale'
      BY <1>1, <1>4, <2>1, <2>4, <2>6, <2>8 DEF RestoreTrue
    <2>11. RestoreTrue(j)'
      BY <1>1, <1>3, <1>4, <2>1, <2>3, <2>4, <2>5, <2>9, <2>10 DEF RestoreTrue, Restores
    <2> QED
      BY <1>13, <2>3, <2>11
  <1>17. CASE SidecarsUnlinked(j) \/ SidecarsLeft(j)
    <2>0. job[j].pc = "unlink"
      BY <1>17 DEF SidecarsUnlinked, SidecarsLeft
    <2>1. PICK r \in Roles : r = Replaced(j) /\ r \in job[j].todo
      BY <1>1, <1>2, <2>0 DEF RestoreTrue
    <2>2. PICK spoiled \in SUBSET Roles :
              /\ RestoreGoesOn(j, spoiled) /\ live' = live
              /\ job[j].spoiled \subseteq spoiled
              /\ \/ stale' = stale \ {r}
                 \/ stale' = stale /\ r \in spoiled
      BY <1>2, <1>17, <2>1 DEF SidecarsUnlinked, SidecarsLeft
    <2>3. \A k \in Jobs \ {j} : Restores(k) => job[k].pc = "begun"
      BY <1>1, <2>0 DEF RestoreTrue
    <2>4. /\ job'[j].pc = IF job[j].todo = {r} THEN "check" ELSE "replace"
          /\ job'[j].dir = job[j].dir /\ job'[j].todo = job[j].todo \ {r}
          /\ job'[j].spoiled = spoiled
      <3>1. job'[j] = [job[j] EXCEPT !.todo = @ \ {r}, !.spoiled = spoiled,
                                     !.pc = IF job[j].todo = {r} THEN "check" ELSE "replace"]
        BY <1>1, <2>1, <2>2 DEF RestoreGoesOn, OnlyJob, TypeOK
      <3> QED
        BY <1>2, <3>1 DEF RestoreJobs
    <2>5. \A q \in Roles : Copied(q, live[q], snap[job[j].dir].files[q], Archived) =>
                               Copied(q, live'[q], snap[job[j].dir].files[q], Archived')
      BY <1>3, <1>8, <2>2, <2>4, ArchivedStays DEF Copied
    <2>6. r \notin spoiled =>
              Copied(r, live[r], snap[job[j].dir].files[r], Archived) /\ r \notin stale'
      BY <1>1, <2>0, <2>1, <2>2 DEF RestoreTrue
    <2>7. \A q \in RolesOf(job[j].dir) \ (job'[j].todo \cup job'[j].spoiled) :
               Copied(q, live'[q], snap[job[j].dir].files[q], Archived') /\ q \notin stale'
      BY <1>1, <1>4, <2>2, <2>4, <2>5, <2>6 DEF RestoreTrue
    <2>8. RestoreTrue(j)'
      BY <1>1, <1>3, <1>4, <2>0, <2>3, <2>4, <2>7 DEF RestoreTrue, Restores
    <2> QED
      BY <1>13, <2>3, <2>8
  <1> QED
    BY <1>12, <1>14, <1>15, <1>16, <1>17

(* A pruning removes what its archive holds. *)
LEMMA PruneStep == ASSUME Inv, NEW d \in ArchDirs, Prune(d) PROVE Inv'
  <1>1. TypeOK /\ WritersApart /\ PrunedIsArchived /\ "audit" \in Roles
    BY DEF Inv, Roles
  <1>2. /\ UNCHANGED <<up, wal, stale, snap, arch, job, crashes, appended, undone>>
        /\ ArchiveVerified(d) /\ begun' = begun + 1
    BY DEF Prune
  <1>3. /\ live' = [live EXCEPT !["audit"] = live["audit"] \ arch[d].events]
        /\ Readable("audit")
    BY DEF Prune
  <1>4. live["audit"] \in SUBSET Subjects
    BY <1>1, <1>3, AuditEvents DEF AuditRead
  <1>5. TypeOK'
    BY <1>1, <1>2, <1>3, <1>4 DEF TypeOK, Databases
  <1>6. WritersApart'
    BY <1>1, <1>2, WritersKept DEF Creates
  <1>7. /\ ArchivesKept /\ arch[d].events \subseteq Archived
        /\ live'["audit"] = live["audit"] \ arch[d].events
    <2>1. ArchivesKept
      BY <1>2, ArchivesUntouched DEF Working
    <2> QED
      BY <1>1, <1>2, <1>3, <2>1 DEF TypeOK, Databases, Archived
  <1>9. PrunedIsArchived'
    <2>1. Events = live["audit"] /\ Events' = live'["audit"]
      <3>1. live'["audit"] \in SUBSET Subjects
        BY <1>4, <1>7
      <3>2. Events' = IF live'["audit"] \in SUBSET Subjects THEN live'["audit"] ELSE {}
        BY <1>5, AuditEvents DEF AuditRead
      <3> QED
        BY <1>1, <1>4, <3>1, <3>2, AuditEvents DEF AuditRead
    <2>2. Events \subseteq Events' \cup undone' \cup Archived
      BY <1>7, <2>1
    <2>3. {} \subseteq Events' /\ appended' \subseteq appended \cup {}
      BY <1>2
    <2> QED
      BY <1>1, <1>2, <1>7, <2>2, <2>3, PrunedKept
  <1>8. ASSUME NEW j \in Jobs, Restores(j)' PROVE RestoreTrue(j)'
    <2>1. Restores(j) /\ RestoreTrue(j) /\ job[j].todo \in SUBSET Roles
      BY <1>1, <1>2, <1>8, JobFields DEF Inv, Restores
    <2>2. \A r \in Roles \ {"audit"} : live'[r] = live[r]
      BY <1>1, <1>3 DEF TypeOK, Databases
    <2>3. AuditShrinks
      <3>1. Archived \subseteq Archived'
        BY <1>7, ArchivedStays
      <3> QED
        BY <1>7, <3>1 DEF AuditShrinks
    <2> QED
      BY <1>2, <2>1, <2>2, <2>3, RestoreKept DEF Restores
  <1> QED
    BY <1>5, <1>6, <1>8, <1>9 DEF Inv

-----------------------------------------------------------------------------
(* The invariant holds before the first command. *)
LEMMA InvInit == Init => Inv
  <1> SUFFICES ASSUME Init PROVE Inv
    OBVIOUS
  <1>1. Idle.op = "none" /\ Idle \in JobRecords /\ \A j \in Jobs : job[j] = Idle
    BY DEF Init, Idle, JobRecords
  <1>2. TypeOK
    BY <1>1 DEF Init, TypeOK, NoFiles, Databases, Logged
  <1>3. WritersApart
    BY <1>1 DEF Init, WritersApart, Creates
  <1>4. PrunedIsArchived
    BY DEF Init, PrunedIsArchived
  <1> QED
    BY <1>1, <1>2, <1>3, <1>4 DEF Inv, Restores

(* Every step keeps it. *)
LEMMA InvStep == Inv /\ [Next]_storageVars => Inv'
  <1> SUFFICES ASSUME Inv, [Next]_storageVars PROVE Inv'
    OBVIOUS
  <1>1. CASE UNCHANGED storageVars
    <2>1. TypeOK'
      BY <1>1 DEF Inv, TypeOK, storageVars
    <2>2. WritersApart'
      BY <1>1 DEF Inv, WritersApart, Creates, Consistent, storageVars
    <2>3. PrunedIsArchived'
      BY <1>1 DEF Inv, PrunedIsArchived, Archived, ArchiveVerified, Working, Events, Readable,
                  Content, storageVars
    <2>4. ASSUME NEW j \in Jobs, Restores(j)' PROVE RestoreTrue(j)'
      <3>1. Restores(j) /\ RestoreTrue(j)
        BY <1>1, <2>4 DEF Inv, Restores, storageVars
      <3>2. UNCHANGED <<job, snap, live, stale, up, arch>>
        BY <1>1 DEF storageVars
      <3>3. /\ Archived' = Archived /\ \A d : RolesOf(d)' = RolesOf(d)
            /\ Replaced(j)' = Replaced(j)
        BY <3>2 DEF Archived, ArchiveVerified, Working, RolesOf, Replaced
      <3> QED
        BY <3>1, <3>2, <3>3 DEF RestoreTrue, Restores
    <2> QED
      BY <2>1, <2>2, <2>3, <2>4 DEF Inv
  <1>2. ASSUME NEW j \in Jobs, JobStep(j) PROVE Inv'
    BY <1>2, CreateStep, RestoreStep, ExportStep DEF JobStep
  <1> QED
    BY <1>1, <1>2, ServiceStep, ServiceEnds, CommandBegins, DeathStep, PruneStep
       DEF Next

(* The files, the records of the commands and the logs have their shape,    *)
(* finished snapshots have no writer, and a restore works alone, offline.   *)
THEOREM InvHolds == Spec => []Inv
  BY InvInit, InvStep, PTL DEF Spec

(* A restore that returned left every database it put back as the snapshot  *)
(* holds it and without the log of the file it replaced, the audit but for  *)
(* what was archived and pruned, unless that very database met a short      *)
(* write or a failed unlink.                                                *)
THEOREM RestoreIsExact == Spec => []RestoreExact
  <1>1. Inv => RestoreExact
    <2> SUFFICES ASSUME Inv, NEW j \in Jobs, job[j].op = "restore",
                        job[j].pc = "restored",
                        NEW r \in RolesOf(job[j].dir) \ job[j].spoiled
                 PROVE  PutBack(r, snap[job[j].dir].files[r])
      BY DEF RestoreExact
    <2>1. RestoreTrue(j)
      BY DEF Inv, Restores
    <2>2. Copied(r, live[r], snap[job[j].dir].files[r], Archived) /\ r \notin stale
      BY <2>1 DEF RestoreTrue
    <2> QED
      BY <2>2 DEF Copied, PutBack, Content
  <1> QED
    BY <1>1, InvHolds, PTL

(* No audit event that append acknowledged is lost to pruning: it is in the *)
(* database, in an archive that verifies, or was taken back by a restore,   *)
(* whatever export, restore and pruning overlap or die.                     *)
THEOREM PrunedAreArchived == Spec => []PrunedIsArchived
  <1>1. Inv => PrunedIsArchived
    BY DEF Inv
  <1> QED
    BY <1>1, InvHolds, PTL

(* A snapshot with a manifest holds databases that fit together, and no     *)
(* later step of any command changes it.                                    *)
THEOREM SnapshotsAreSound == Spec => SnapshotsSound
  <1>1. Inv => SnapshotConsistent
    BY DEF Inv, WritersApart, SnapshotConsistent
  <1>2. Inv /\ [Next]_storageVars =>
            \A d \in SnapDirs : snap[d].manifest # Missing => snap'[d] = snap[d]
    <2> SUFFICES ASSUME Inv, [Next]_storageVars, NEW d \in SnapDirs,
                        snap[d].manifest # Missing
                 PROVE  snap'[d] = snap[d]
      OBVIOUS
    <2>1. TypeOK /\ \A j \in Jobs : ~Creates(j, d)
      BY DEF Inv, WritersApart
    <2>2. ASSUME NEW j \in Jobs, JobStep(j) \/ JobDies(j) PROVE snap'[d] = snap[d]
      <3>1. snap' = snap \/ job[j].op = "create"
        BY <2>2 DEF JobStep, JobDies, Torn, DatabaseCopied, DatabaseReplaced,
           CreateEnds, RestoreLocks, SidecarsUnlinked, SidecarsLeft, RestoreChecked,
           RestoreReturns, EventsWritten, ManifestWritten
      <3>2. CASE job[j].op = "create"
        <4>1. job[j].dir \in SnapDirs /\ job[j].dir # d
          BY <2>1, <3>2, JobFields DEF Creates
        <4>2. \/ snap' = snap
              \/ \E r \in Roles : \E c : snap' = [snap EXCEPT ![job[j].dir].files[r] = c]
              \/ \E c : snap' = [snap EXCEPT ![job[j].dir].manifest = c]
          BY <2>2, <3>2 DEF JobStep, JobDies, Torn, DatabaseCopied,
             DatabaseReplaced, CreateEnds, RestoreLocks, SidecarsUnlinked,
             SidecarsLeft, RestoreChecked, RestoreReturns, EventsWritten, ManifestWritten
        <4> QED
          BY <2>1, <4>1, <4>2 DEF TypeOK
      <3> QED
        BY <3>1, <3>2
    <2> QED
      BY <2>2 DEF Next, storageVars, AlertInserted, StateChanged, IncidentStored,
         EventAppended, Write, ServiceStops, ServiceCrashes, ServiceStarts,
         CreateBegins, RestoreBegins, ExportBegins, Begin, Prune
  <1>3. Inv' => SnapshotConsistent'
    BY <1>1, PTL
  <1> QED
    BY <1>2, <1>3, InvHolds, PTL DEF Spec, SnapshotsSound

-----------------------------------------------------------------------------
(* The policy's files, and the write its lock's holder still owes. *)
CredentialTypes ==
    /\ policy \in Seq(PolicyRecord) \cup {NoFile}
    /\ journal \in Seq(JournalEntry)
    /\ archive \in [Archives -> [entries : Seq(JournalEntry) \cup {NoFile},
                                 manifest : BOOLEAN]]
    /\ policyOp \in {NoOp} \cup [todo : {"append"}, entry : JournalEntry]
                    \cup [todo : {"manifest", "checkpoint"}, dir : Archives]

(* The entry owed is the next one and tells of a change the policy holds. *)
OwedEntry ==
    policyOp.todo = "append" =>
        /\ policyOp.entry.seq = NextSeq
        /\ policyOp.entry.previous = NoFile /\ policyOp.entry.cert \in Certs
        /\ Fact(policyOp.entry) \in PolicyFacts

(* A rotation at work has copied the journal as it still is. *)
RotationTrue ==
    policyOp.todo \in {"manifest", "checkpoint"} =>
        /\ archive[policyOp.dir].entries = journal /\ journal # <<>>
        /\ policyOp.todo = "checkpoint" => archive[policyOp.dir].manifest

(* What any archive holds, named by a checkpoint or left by a rotation that  *)
(* died, is part of the one numbered history.                                *)
ArchivesTrue ==
    /\ \A a \in Archives :
          /\ archive[a].entries # NoFile => EntriesOf(archive[a].entries) \subseteq History
          /\ archive[a].manifest => VerifyJournalArchive(a)
    /\ \A e \in History : e.seq \in 1..(NextSeq - 1)

CredentialInv ==
    /\ CredentialTypes /\ OwedEntry /\ RotationTrue /\ ArchivesTrue
    /\ NoHistoryLost /\ JournalTrailsPolicy

(* The last n steps of a plan. *)
Rest(plan, n) == [i \in 1..n |-> plan[Len(plan) - n + i]]
InitSteps == Steps("ca", <<"key", "cert", "manifest", "journal">>)

InitOps == [todo : {Rest(InitSteps, n) : n \in 1..4}]
IssueOps == [todo : {Rest(IssueSteps, n) : n \in 1..5}, dir : Deliveries,
             cert : Certs, serial : Nat]
ProfileOps == [todo : {Rest(ProfileSteps, n) : n \in 1..5}, dir : Profiles,
               cert : Certs, serial : Nat]

(* A directory that holds some of the files. *)
Directory(files) == [files : SUBSET files, doubled : SUBSET files,
                     cert : Certs \cup {NoFile}, serial : Nat]
Bundle == {"cert", "bundle", "manifest"}
Profile == {"nss", "root_ca", "client_key", "user_js", "manifest"}
Line == [serial : Nat, cert : Certs \cup {NoFile}]

(* The CA's files, and how far the holder of its lock has come. *)
CaTypes ==
    /\ caFiles \subseteq {"key", "cert", "manifest", "journal"}
    /\ caDoubled \subseteq caFiles
    /\ caManifest \in [next : Nat, count : Nat]
    /\ issuance \in Seq(Line)
    /\ delivered \in [Deliveries -> Directory(Bundle)]
    /\ profile \in [Profiles -> Directory(Profile)]
    /\ caOp \in {CaIdle} \cup InitOps \cup IssueOps \cup ProfileOps
    /\ \A d \in Deliveries : /\ delivered[d].files # {} => delivered[d].cert \in Certs
                             /\ delivered[d].doubled \subseteq delivered[d].files
    /\ \A p \in Profiles : profile[p].doubled \subseteq profile[p].files

Delivered(c, s) ==
    \E d \in Deliveries : /\ VerifyClientBundle(d)
                          /\ delivered[d].cert = c /\ delivered[d].serial = s

(* The files of an initialisation with n steps to go. *)
InitTrue(n) ==
    /\ caDoubled \cap CaIdentity = {}
    /\ n <= 3 => "key" \in caFiles
    /\ n <= 2 => "cert" \in caFiles
    /\ n >= 2 => "manifest" \notin caFiles

(* The bundle and the counters of an issue with n steps to go. *)
IssueTrue(n) ==
    /\ delivered[caOp.dir].files =
          {f \in Bundle : (f = "cert" /\ n <= 4) \/ (f = "bundle" /\ n <= 3) \/ n <= 2}
    /\ delivered[caOp.dir].doubled = {}
    /\ n <= 4 => /\ delivered[caOp.dir].cert = caOp.cert
                 /\ delivered[caOp.dir].serial = caOp.serial
    /\ n >= 2 => caManifest.next = caOp.serial
    /\ n = 1 => /\ caManifest.next = caOp.serial + 1
                /\ Len(issuance) < caManifest.count
    /\ \A i \in ReadableLines : issuance[i].serial < caOp.serial

(* The profile of a provisioning with n steps to go, and its bundle. *)
ProfileBefore(n) ==
    {f \in Profile : \/ (f = "nss" /\ n <= 4) \/ (f = "root_ca" /\ n <= 3)
                     \/ (f = "client_key" /\ n <= 2) \/ (f = "user_js" /\ n <= 1)}
ProfileTrue(n) ==
    /\ profile[caOp.dir].files = ProfileBefore(n)
    /\ profile[caOp.dir].doubled = {}
    /\ Delivered(caOp.cert, caOp.serial)

ManifestsTrue ==
    /\ "manifest" \in caFiles \ caDoubled => CaIdentity \subseteq caFiles \ caDoubled
    /\ \A d \in Deliveries :
          "manifest" \in Legible(delivered[d]) => VerifyClientBundle(d)
    /\ \A p \in Profiles : "manifest" \in Legible(profile[p]) =>
          \E d \in Deliveries : VerifyProfile(p, d)

(* The plan under way has come as far as its steps to go say. *)
PlanTrue ==
    /\ caOp \in InitOps => InitTrue(Len(caOp.todo))
    /\ caOp \in IssueOps => IssueTrue(Len(caOp.todo))
    /\ caOp \in ProfileOps => ProfileTrue(Len(caOp.todo))

CaInv == CaTypes /\ IssuanceSound /\ ManifestsTrue /\ PlanTrue
-----------------------------------------------------------------------------
(* The entries of a longer journal. *)
LEMMA EntriesAppended ==
    ASSUME NEW S, NEW s \in Seq(S), NEW e \in S
    PROVE  EntriesOf(Append(s, e)) = EntriesOf(s) \cup {e}
  <1>1. DOMAIN s = 1..Len(s) /\ DOMAIN Append(s, e) = 1..(Len(s) + 1) /\ Len(s) \in Nat
    OBVIOUS
  <1>2. \A i \in 1..Len(s) : Append(s, e)[i] = s[i]
    OBVIOUS
  <1>3. Append(s, e)[Len(s) + 1] = e
    OBVIOUS
  <1>4. 1..(Len(s) + 1) = (1..Len(s)) \cup {Len(s) + 1}
    BY <1>1
  <1> QED
    BY <1>1, <1>2, <1>3, <1>4 DEF EntriesOf

(* The entries of a journal are entries. *)
LEMMA EntriesTyped ==
    ASSUME NEW S, NEW s \in Seq(S)
    PROVE  EntriesOf(s) \subseteq S
  BY DEF EntriesOf

(* The next number, and how one more entry moves it. *)
LEMMA NextSeqTyped ==
    ASSUME CredentialTypes
    PROVE  NextSeq \in Nat /\ NextSeq >= 1
  <1>1. CASE journal = <<>>
    BY <1>1 DEF NextSeq
  <1>2. CASE journal # <<>>
    <2>1. Len(journal) \in DOMAIN journal
      BY <1>2 DEF CredentialTypes
    <2>2. journal[Len(journal)] \in JournalEntry
      BY <2>1 DEF CredentialTypes
    <2> QED
      BY <1>2, <2>2 DEF NextSeq, JournalEntry
  <1> QED
    BY <1>1, <1>2

(* The checkpoints and the history are read from the journal and archives. *)
LEMMA SameFiles ==
    ASSUME journal' = journal, archive' = archive
    PROVE  Chain' = Chain /\ History' = History /\ NextSeq' = NextSeq
  <1>1. Chain' = Chain
    BY DEF Chain, VerifyJournalArchive, EntriesOf
  <1>2. NextSeq' = NextSeq
    BY DEF NextSeq
  <1>3. History' = History
    BY <1>1 DEF History, EntriesOf
  <1> QED
    BY <1>1, <1>2, <1>3

(* So are those of the whole history. *)
LEMMA HistoryTyped ==
    ASSUME CredentialTypes, \A a \in Chain : VerifyJournalArchive(a)
    PROVE  History \subseteq JournalEntry
  <1>1. EntriesOf(journal) \subseteq JournalEntry
    BY EntriesTyped DEF CredentialTypes
  <1>2. ASSUME NEW a \in Chain
        PROVE  EntriesOf(archive[a].entries) \subseteq JournalEntry
    <2>1. a \in Archives /\ archive[a].entries # NoFile
      BY DEF Chain, VerifyJournalArchive
    <2>2. archive[a].entries \in Seq(JournalEntry)
      BY <2>1 DEF CredentialTypes
    <2> QED
      BY <2>2, EntriesTyped
  <1> QED
    BY <1>1, <1>2 DEF History

-----------------------------------------------------------------------------
(* One more entry, numbered next, leaves the history whole. *)
LEMMA HistoryGrows ==
    ASSUME NextSeq \in Nat, NextSeq >= 1, NEW e, History' = History \cup {e},
           e.seq = NextSeq, NextSeq' = NextSeq + 1,
           \A h \in History : h.seq \in 1..(NextSeq - 1),
           \A n \in 1..(NextSeq - 1) : \E h \in History : h.seq = n,
           \A h, f \in History : h.seq = f.seq => h = f
    PROVE  /\ \A h \in History' : h.seq \in 1..(NextSeq' - 1)
           /\ \A n \in 1..(NextSeq' - 1) : \E h \in History' : h.seq = n
           /\ \A h, f \in History' : h.seq = f.seq => h = f
  <1>1. \A h \in History' : h.seq \in 1..(NextSeq' - 1)
    OBVIOUS
  <1>2. ASSUME NEW n \in 1..(NextSeq' - 1) PROVE \E h \in History' : h.seq = n
    <2>1. CASE n = NextSeq
      BY <2>1
    <2>2. CASE n # NextSeq
      <3>1. n \in 1..(NextSeq - 1)
        BY <2>2
      <3> QED
        BY <3>1
    <2> QED
      BY <2>1, <2>2
  <1>3. ASSUME NEW h \in History', NEW f \in History', h.seq = f.seq PROVE h = f
    <2>1. \A g \in History : g.seq # NextSeq
      OBVIOUS
    <2> QED
      BY <1>3, <2>1
  <1> QED
    BY <1>1, <1>2, <1>3

(* Facts the journal tells, whatever the policy. *)
Told == {Fact(e) : e \in {h \in History : h.cert # NoFile}}

(* The facts are read from the policy alone. *)
LEMMA PolicyFactsRead ==
    ASSUME policy' = policy
    PROVE  PolicyFacts' = PolicyFacts /\ Records' = Records /\ Enrolled' = Enrolled
  BY DEF PolicyFacts, Records, Enrolled

(* The journal trails the policy, in terms of what it tells. *)
LEMMA TrailsDefined ==
    JournalTrailsPolicy <=> Told \subseteq PolicyFacts
                              /\ PolicyFacts \subseteq Told \cup lost \cup Pending
  BY DEF JournalTrailsPolicy, Told

(* The fields of what the lock's holder has yet to write. *)
LEMMA OpFields ==
    ASSUME CredentialTypes
    PROVE  /\ NoOp.todo = "none"
           /\ policyOp.todo = "append" => policyOp.entry \in JournalEntry
           /\ policyOp.todo \in {"manifest", "checkpoint"} => policyOp.dir \in Archives
           /\ policyOp.todo \in {"none", "append", "manifest", "checkpoint"}
           /\ policyOp.todo = "none" => policyOp = NoOp
  BY DEF CredentialTypes, NoOp

(* Nothing is owed once the directory's lock is free. *)
LEMMA NothingOwed ==
    ASSUME policyOp' = NoOp
    PROVE  OwedEntry' /\ RotationTrue' /\ Pending' = {} /\ policyOp'.todo = "none"
  BY DEF OwedEntry, RotationTrue, Pending, NoOp

(* A change of the policy is told by the entry that it owes. *)
LEMMA ChangeStep ==
    ASSUME CredentialInv, PolicyLockFree, NEW records \in Seq(PolicyRecord),
           NEW action \in {"init", "enroll", "disable", "revoke"}, NEW c \in Certs,
           PolicyWritten(records, action, c),
           PolicyFacts' = PolicyFacts \cup {Fact(Entry(action, c))}
    PROVE  CredentialInv'
  <1> DEFINE e == Entry(action, c)
  <1>1. /\ policy' = records /\ policyOp' = [todo |-> "append", entry |-> e]
        /\ journal' = journal /\ archive' = archive /\ lost' = lost
    BY DEF PolicyWritten
  <1>2. Chain' = Chain /\ History' = History /\ NextSeq' = NextSeq
    BY <1>1, SameFiles
  <1>3. NextSeq \in Nat /\ NextSeq >= 1
    BY NextSeqTyped DEF CredentialInv
  <1>4. /\ e \in JournalEntry /\ e.seq = NextSeq /\ e.previous = NoFile /\ e.cert = c
    BY <1>3 DEF Entry, JournalEntry
  <1>5. CredentialTypes'
    <2> HIDE DEF e
    <2> QED BY <1>1, <1>4 DEF CredentialInv, CredentialTypes
  <1>6. Pending = {} /\ Pending' = {Fact(e)}
    <2>1. policyOp.todo = "none"
      BY DEF PolicyLockFree, NoOp
    <2> HIDE DEF e
    <2> QED BY <1>1, <2>1 DEF Pending, Fact
  <1>7. OwedEntry'
    <2>1. policyOp'.entry = e
      BY <1>1
    <2>2. Fact(policyOp.entry)' = Fact(e)
      BY <2>1 DEF Fact
    <2> HIDE DEF e
    <2> QED BY <1>2, <1>4, <2>1, <2>2 DEF OwedEntry, e
  <1>8. RotationTrue'
    <2> HIDE DEF e
    <2> QED BY <1>1 DEF RotationTrue
  <1>9. ArchivesTrue' /\ NoHistoryLost'
    BY <1>1, <1>2 DEF CredentialInv, ArchivesTrue, NoHistoryLost, VerifyJournalArchive, EntriesOf
  <1>10. JournalTrailsPolicy'
    <2>1. Told' = Told
      BY <1>2 DEF Told, Fact
    <2>2. JournalTrailsPolicy' <=> Told' \subseteq PolicyFacts'
                              /\ PolicyFacts' \subseteq Told' \cup lost' \cup Pending'
      BY DEF JournalTrailsPolicy, Told
    <2> HIDE DEF e
    <2> QED
      BY <1>1, <1>6, <2>1, <2>2, TrailsDefined DEF CredentialInv, e
  <1> QED
    BY <1>5, <1>7, <1>8, <1>9, <1>10 DEF CredentialInv

(* The records are records. *)
LEMMA RecordsTyped ==
    ASSUME CredentialTypes
    PROVE  Records \in Seq(PolicyRecord)
  BY DEF CredentialTypes, Records

(* A record more is a fact more. *)
LEMMA EnrollFacts ==
    ASSUME CredentialTypes, NEW c \in Certs, policy' = Append(Records, Record(c))
    PROVE  /\ Append(Records, Record(c)) \in Seq(PolicyRecord)
           /\ PolicyFacts' = PolicyFacts \cup {<<"enroll", c>>}
  <1> DEFINE records == Append(Records, Record(c))
  <1>1. Record(c) \in PolicyRecord /\ Record(c).cert = c /\ Record(c).enabled
          /\ ~Record(c).revoked
    BY DEF Record, PolicyRecord
  <1>2. Records \in Seq(PolicyRecord) /\ records \in Seq(PolicyRecord)
    BY <1>1, RecordsTyped
  <1>4. Records' = records
    <2>1. policy' = records
      OBVIOUS
    <2> HIDE DEF records
    <2> QED BY <1>2, <2>1, CredentialConfiguration DEF Records
  <1>5. /\ DOMAIN records = DOMAIN Records \cup {Len(Records) + 1}
        /\ \A i \in DOMAIN Records : records[i] = Records[i]
        /\ records[Len(Records) + 1] = Record(c)
    <2>1. DOMAIN Records = 1..Len(Records) /\ Len(Records) \in Nat
      BY <1>2
    <2>2. DOMAIN records = 1..(Len(Records) + 1)
      BY <1>1, <1>2
    <2>3. \A i \in 1..Len(Records) : records[i] = Records[i]
      BY <1>1, <1>2
    <2>4. records[Len(Records) + 1] = Record(c)
      BY <1>1, <1>2
    <2>5. 1..(Len(Records) + 1) = (1..Len(Records)) \cup {Len(Records) + 1}
      BY <2>1
    <2> QED
      BY <2>1, <2>2, <2>3, <2>4, <2>5
  <1> HIDE DEF records
  <1>6. Enrolled' = Enrolled \cup {c}
    BY <1>1, <1>4, <1>5 DEF Enrolled
  <1>8. PolicyFacts' = PolicyFacts \cup {<<"enroll", c>>}
    <2>1. {<<"disable", Records'[i].cert>> :
               i \in {j \in DOMAIN Records' : ~Records'[j].enabled}}
            = {<<"disable", Records[i].cert>> :
                 i \in {j \in DOMAIN Records : ~Records[j].enabled}}
      BY <1>1, <1>4, <1>5
    <2>2. {<<"revoke", Records'[i].cert>> :
               i \in {j \in DOMAIN Records' : Records'[j].revoked}}
            = {<<"revoke", Records[i].cert>> :
                 i \in {j \in DOMAIN Records : Records[j].revoked}}
      BY <1>1, <1>4, <1>5
    <2>3. {<<"enroll", x>> : x \in Enrolled'}
            = {<<"enroll", x>> : x \in Enrolled} \cup {<<"enroll", c>>}
      BY <1>6
    <2> QED
      BY <2>1, <2>2, <2>3 DEF PolicyFacts
  <1> QED
    BY <1>2, <1>8 DEF records

(* An enrolment adds its fact. *)
LEMMA EnrollStep ==
    ASSUME CredentialInv, NEW c \in Certs, NEW create \in BOOLEAN, Enroll(c, create)
    PROVE  CredentialInv'
  <1> DEFINE action == IF create THEN "init" ELSE "enroll"
             records == Append(Records, Record(c))
  <1>1. PolicyWritten(records, action, c) /\ PolicyLockFree
    BY DEF Enroll, MayEnroll, JournalHasRoom
  <1>2. policy' = records
    BY <1>1 DEF PolicyWritten
  <1>3. records \in Seq(PolicyRecord) /\ PolicyFacts' = PolicyFacts \cup {<<"enroll", c>>}
    BY <1>2, EnrollFacts DEF CredentialInv
  <1>4. Fact(Entry(action, c)) = <<"enroll", c>>
    BY DEF Fact, Entry
  <1> HIDE DEF records
  <1> QED
    BY <1>1, <1>3, <1>4, ChangeStep

(* A first policy that nobody can read is lost to the journal as well. *)
LEMMA InitLinkLeftStep ==
    ASSUME CredentialInv, NEW c \in Certs, InitLinkLeft(c)
    PROVE  CredentialInv'
  <1>1. /\ policy' = Append(Records, Record(c)) /\ lost' = lost \cup {<<"enroll", c>>}
        /\ journal' = journal /\ archive' = archive
        /\ policyOp = NoOp /\ policyOp' = NoOp
    BY DEF InitLinkLeft, MayEnroll, JournalHasRoom, PolicyLockFree
  <1>2. /\ policy' \in Seq(PolicyRecord)
        /\ PolicyFacts' = PolicyFacts \cup {<<"enroll", c>>}
    BY <1>1, EnrollFacts DEF CredentialInv
  <1>3. Chain' = Chain /\ History' = History /\ NextSeq' = NextSeq
    BY <1>1, SameFiles
  <1>4. Pending = {} /\ Pending' = {} /\ Told' = Told
    BY <1>1, <1>3 DEF Pending, NoOp, Told, Fact
  <1>5. JournalTrailsPolicy'
    <2>1. JournalTrailsPolicy' <=> Told' \subseteq PolicyFacts'
                              /\ PolicyFacts' \subseteq Told' \cup lost' \cup Pending'
      BY DEF JournalTrailsPolicy, Told
    <2> QED
      BY <1>1, <1>2, <1>4, <2>1, TrailsDefined DEF CredentialInv
  <1>6. ArchivesTrue' /\ NoHistoryLost'
    BY <1>1, <1>3 DEF CredentialInv, ArchivesTrue, NoHistoryLost, VerifyJournalArchive,
                      EntriesOf
  <1>7. CredentialTypes'
    BY <1>1, <1>2 DEF CredentialInv, CredentialTypes
  <1> QED
    BY <1>1, <1>5, <1>6, <1>7, NothingOwed DEF CredentialInv

(* A restriction adds its fact and takes none away. *)
LEMMA RestrictStep ==
    ASSUME CredentialInv, NEW c \in Certs, NEW revoke \in BOOLEAN,
           RestrictCredential(c, revoke)
    PROVE  CredentialInv'
  <1> DEFINE action == IF revoke THEN "revoke" ELSE "disable"
             changed(i) == IF Records[i].cert # c THEN Records[i]
                           ELSE IF revoke THEN [Records[i] EXCEPT !.revoked = TRUE]
                           ELSE [Records[i] EXCEPT !.enabled = FALSE]
             records == [i \in DOMAIN Records |-> changed(i)]
  <1>1. Records \in Seq(PolicyRecord)
    BY RecordsTyped DEF CredentialInv
  <1>2. \A i \in DOMAIN Records : Records[i] \in PolicyRecord
    BY <1>1
  <1>3. \A i \in DOMAIN Records :
            /\ records[i] \in PolicyRecord /\ records[i].cert = Records[i].cert
            /\ records[i].enabled = (Records[i].enabled /\ (Records[i].cert = c => revoke))
            /\ records[i].revoked = (Records[i].revoked \/ (Records[i].cert = c /\ revoke))
    BY <1>2 DEF PolicyRecord
  <1>4. records \in Seq(PolicyRecord) /\ DOMAIN records = DOMAIN Records
    <2>1. DOMAIN records = DOMAIN Records
      OBVIOUS
    <2>2. PICK n \in Nat : DOMAIN Records = 1..n
      BY <1>1
    <2>3. records \in [1..n -> PolicyRecord]
      <3>1. records = [i \in 1..n |-> changed(i)]
        BY <2>2
      <3>2. \A i \in 1..n : changed(i) \in PolicyRecord
        BY <1>3, <2>2
      <3> HIDE DEF changed
      <3> QED BY <3>1, <3>2
    <2> HIDE DEF records
    <2> QED BY <2>1, <2>3
  <1>5. PolicyWritten(records, action, c) /\ PolicyLockFree /\ c \in Enrolled
    BY DEF RestrictCredential, JournalHasRoom
  <1>6. Records' = records
    <2>1. policy' = records
      BY <1>5 DEF PolicyWritten
    <2> HIDE DEF records
    <2> QED BY <1>4, <2>1, CredentialConfiguration DEF Records
  <1> HIDE DEF records
  <1>7. Enrolled' = Enrolled
    BY <1>3, <1>4, <1>6 DEF Enrolled
  <1>8. Fact(Entry(action, c)) = <<action, c>>
    BY DEF Fact, Entry
  <1>9. PICK k \in DOMAIN Records : Records[k].cert = c
    BY <1>5 DEF Enrolled
  <1>10. {<<"disable", Records'[i].cert>> :
              i \in {j \in DOMAIN Records' : ~Records'[j].enabled}}
            = {<<"disable", Records[i].cert>> :
                 i \in {j \in DOMAIN Records : ~Records[j].enabled}}
              \cup (IF revoke THEN {} ELSE {<<"disable", c>>})
    BY <1>3, <1>4, <1>6, <1>9
  <1>11. {<<"revoke", Records'[i].cert>> :
              i \in {j \in DOMAIN Records' : Records'[j].revoked}}
            = {<<"revoke", Records[i].cert>> :
                 i \in {j \in DOMAIN Records : Records[j].revoked}}
              \cup (IF revoke THEN {<<"revoke", c>>} ELSE {})
    <2>1. CASE revoke
      <3>1. \A j \in DOMAIN Records :
                records[j].revoked <=> (Records[j].revoked \/ Records[j].cert = c)
        BY <2>1, <1>3
      <3>2. \A j \in DOMAIN Records : records[j].cert = Records[j].cert
        BY <1>3
      <3> QED BY <2>1, <3>1, <3>2, <1>4, <1>6, <1>9
    <2>2. CASE ~revoke
      <3>1. \A j \in DOMAIN Records : records[j].revoked <=> Records[j].revoked
        BY <2>2, <1>3
      <3>2. \A j \in DOMAIN Records : records[j].cert = Records[j].cert
        BY <1>3
      <3> QED BY <2>2, <3>1, <3>2, <1>4, <1>6
    <2> QED BY <2>1, <2>2
  <1>12. PolicyFacts' = PolicyFacts \cup {Fact(Entry(action, c))}
    <2>1. CASE revoke
      BY <2>1, <1>7, <1>8, <1>10, <1>11 DEF PolicyFacts
    <2>2. CASE ~revoke
      BY <2>2, <1>7, <1>8, <1>10, <1>11 DEF PolicyFacts
    <2> QED BY <2>1, <2>2
  <1> QED
    BY <1>4, <1>5, <1>12, ChangeStep

(* The owed entry joins the history. *)
LEMMA EntryJoins ==
    ASSUME CredentialInv, policyOp.todo = "append",
           journal' = Append(journal, policyOp.entry), policyOp' = NoOp,
           policy' = policy, archive' = archive, lost' = lost
    PROVE  CredentialInv'
  <1> DEFINE e == policyOp.entry
  <1>1. /\ policyOp.todo = "append" /\ journal' = Append(journal, e) /\ policyOp' = NoOp
        /\ policy' = policy /\ archive' = archive /\ lost' = lost
    OBVIOUS
  <1>2. e \in JournalEntry /\ journal \in Seq(JournalEntry)
    BY <1>1, OpFields DEF CredentialInv, CredentialTypes
  <1>3. e.seq = NextSeq /\ e.previous = NoFile /\ e.cert \in Certs /\ Fact(e) \in PolicyFacts
    BY <1>1 DEF CredentialInv, OwedEntry
  <1>4. Pending = {Fact(e)}
    BY <1>1 DEF Pending
  <1> HIDE DEF e
  <1>5. EntriesOf(journal') = EntriesOf(journal) \cup {e}
    BY <1>1, <1>2, EntriesAppended
  <1>6. Chain' = Chain
    BY <1>1, <1>3, <1>5, CredentialConfiguration DEF Chain, VerifyJournalArchive, EntriesOf
  <1>7. History' = History \cup {e}
    BY <1>1, <1>5, <1>6 DEF History
  <1>8. NextSeq' = NextSeq + 1
    <2>1. journal' # <<>> /\ Len(journal') = Len(journal) + 1
          /\ journal'[Len(journal) + 1] = e
      BY <1>1, <1>2
    <2> QED
      BY <1>3, <2>1 DEF NextSeq
  <1>9. NextSeq \in Nat /\ NextSeq >= 1
    BY NextSeqTyped DEF CredentialInv
  <1>10. /\ \A h \in History' : h.seq \in 1..(NextSeq' - 1)
         /\ \A n \in 1..(NextSeq' - 1) : \E h \in History' : h.seq = n
         /\ \A h, f \in History' : h.seq = f.seq => h = f
    BY <1>3, <1>7, <1>8, <1>9, HistoryGrows DEF CredentialInv, ArchivesTrue, NoHistoryLost
  <1>11. ArchivesTrue' /\ NoHistoryLost'
    BY <1>1, <1>6, <1>7, <1>10
       DEF CredentialInv, ArchivesTrue, NoHistoryLost, VerifyJournalArchive
  <1>12. Told' = Told \cup {Fact(e)}
    <2>1. e.cert # NoFile
      BY <1>3, CredentialConfiguration
    <2> QED
      BY <2>1, <1>7 DEF Told, Fact
  <1>13. PolicyFacts' = PolicyFacts
    BY <1>1, PolicyFactsRead
  <1>14. JournalTrailsPolicy'
    <2>1. JournalTrailsPolicy' <=> Told' \subseteq PolicyFacts'
                              /\ PolicyFacts' \subseteq Told' \cup lost' \cup Pending'
      BY DEF JournalTrailsPolicy, Told
    <2> QED
      BY <1>1, <1>3, <1>4, <1>12, <1>13, <2>1, TrailsDefined DEF CredentialInv
  <1>15. CredentialTypes'
    BY <1>1, <1>2 DEF CredentialInv, CredentialTypes
  <1>16. OwedEntry' /\ RotationTrue'
    BY <1>1, NothingOwed
  <1> QED
    BY <1>11, <1>14, <1>15, <1>16 DEF CredentialInv

(* The entry owed is appended. *)
LEMMA AppendStep == ASSUME CredentialInv, JournalAppended PROVE CredentialInv'
  BY EntryJoins DEF JournalAppended

(* The first entry is in a journal that nobody can read. *)
LEMMA JournalLinkLeftStep == ASSUME CredentialInv, JournalLinkLeft PROVE CredentialInv'
  <1>1. policyOp.entry \in JournalEntry
    BY OpFields DEF JournalLinkLeft, CredentialInv
  <1>2. Append(<<>>, policyOp.entry) = <<policyOp.entry>>
    OBVIOUS
  <1> QED
    BY <1>2, EntryJoins DEF JournalLinkLeft

(* A writer cut short: its change is among the lost, and no file changes. *)
LEMMA LockLost ==
    ASSUME CredentialInv, policyOp' = NoOp, lost' = lost \cup Pending,
           policy' = policy, journal' = journal, archive' = archive
    PROVE  CredentialInv'
  <1>1. Chain' = Chain /\ History' = History /\ NextSeq' = NextSeq
    BY SameFiles
  <1>2. PolicyFacts' = PolicyFacts /\ Told' = Told /\ Pending' = {}
    BY <1>1, PolicyFactsRead, NothingOwed DEF Told, Fact
  <1>3. JournalTrailsPolicy'
    <2>1. JournalTrailsPolicy' <=> Told' \subseteq PolicyFacts'
                              /\ PolicyFacts' \subseteq Told' \cup lost' \cup Pending'
      BY DEF JournalTrailsPolicy, Told
    <2> QED
      BY <1>2, <2>1, TrailsDefined DEF CredentialInv
  <1>4. ArchivesTrue' /\ NoHistoryLost'
    BY <1>1 DEF CredentialInv, ArchivesTrue, NoHistoryLost, VerifyJournalArchive, EntriesOf
  <1>5. CredentialTypes'
    BY DEF CredentialInv, CredentialTypes
  <1> QED
    BY <1>3, <1>4, <1>5, NothingOwed DEF CredentialInv

(* A line cut short. *)
LEMMA TornStep == ASSUME CredentialInv, JournalTorn PROVE CredentialInv'
  <1>1. Pending = {Fact(policyOp.entry)}
    BY DEF JournalTorn, Pending
  <1> QED
    BY <1>1, LockLost DEF JournalTorn

(* A process that dies with the lock. *)
LEMMA PolicyCrashStep == ASSUME CredentialInv, PolicyCrash PROVE CredentialInv'
  BY LockLost DEF PolicyCrash

(* Nothing but a date, a death or a file of the CA changes. *)
LEMMA SameCredentials ==
    ASSUME CredentialInv,
           UNCHANGED <<policy, journal, archive, policyOp, lost>>
    PROVE  CredentialInv'
  <1>1. Chain' = Chain /\ History' = History /\ NextSeq' = NextSeq
    BY SameFiles
  <1>2. PolicyFacts' = PolicyFacts
    BY PolicyFactsRead
  <1>3. ArchivesTrue' /\ NoHistoryLost'
    BY <1>1 DEF CredentialInv, ArchivesTrue, NoHistoryLost, VerifyJournalArchive, EntriesOf
  <1>4. CredentialTypes' /\ OwedEntry' /\ RotationTrue'
    BY <1>1, <1>2 DEF CredentialInv, CredentialTypes, OwedEntry, RotationTrue, Fact
  <1>5. JournalTrailsPolicy'
    BY <1>1, <1>2 DEF CredentialInv, JournalTrailsPolicy, Pending, Fact
  <1> QED
    BY <1>3, <1>4, <1>5 DEF CredentialInv

(* The files of a rotation change and the history does not. *)
LEMMA RotationKeepsHistory ==
    ASSUME CredentialInv, CredentialTypes', policyOp.todo # "append",
           journal' = journal, policy' = policy, lost' = lost,
           Chain' = Chain, History' = History,
           OwedEntry', RotationTrue', Pending' = {},
           \A a \in Archives :
               /\ archive'[a].entries # NoFile => EntriesOf(archive'[a].entries) \subseteq History
               /\ archive'[a].manifest => VerifyJournalArchive(a)'
               /\ VerifyJournalArchive(a) => VerifyJournalArchive(a)'
    PROVE  CredentialInv'
  <1>1. NextSeq' = NextSeq
    BY DEF NextSeq
  <1>2. PolicyFacts' = PolicyFacts
    BY PolicyFactsRead
  <1>3. Pending = {} /\ Told' = Told
    BY DEF Pending, Told, Fact
  <1>4. JournalTrailsPolicy'
    <2>1. JournalTrailsPolicy' <=> Told' \subseteq PolicyFacts'
                              /\ PolicyFacts' \subseteq Told' \cup lost' \cup Pending'
      BY DEF JournalTrailsPolicy, Told
    <2> QED
      BY <1>2, <1>3, <2>1, TrailsDefined DEF CredentialInv
  <1>5. ArchivesTrue'
    BY <1>1 DEF CredentialInv, ArchivesTrue
  <1>6. NoHistoryLost'
    BY <1>1 DEF CredentialInv, NoHistoryLost, Chain
  <1> QED
    BY <1>4, <1>5, <1>6 DEF CredentialInv

(* The journal is copied into an archive that no checkpoint names. *)
LEMMA CopyStep ==
    ASSUME CredentialInv, NEW a \in Archives, RotateCopies(a)
    PROVE  CredentialInv'
  <1>1. /\ policyOp = NoOp /\ journal # <<>> /\ archive[a] = EmptyArchive
        /\ archive' = [archive EXCEPT ![a].entries = journal]
        /\ policyOp' = [todo |-> "manifest", dir |-> a]
        /\ policy' = policy /\ journal' = journal /\ lost' = lost
    BY DEF RotateCopies, PolicyLockFree
  <1>2. /\ archive'[a].entries = journal /\ ~archive'[a].manifest /\ ~archive[a].manifest
        /\ \A b \in Archives \ {a} : archive'[b] = archive[b]
    BY <1>1 DEF CredentialInv, CredentialTypes, EmptyArchive
  <1>3. CredentialTypes'
    BY <1>1 DEF CredentialInv, CredentialTypes
  <1>4. \A b \in Archives : VerifyJournalArchive(b) <=> (b # a /\ VerifyJournalArchive(b)')
    BY <1>2 DEF VerifyJournalArchive
  <1>5. ~VerifyJournalArchive(a)'
    BY <1>2 DEF VerifyJournalArchive
  <1>6. {b \in Archives : VerifyJournalArchive(b)'} = {b \in Archives : VerifyJournalArchive(b)}
    BY <1>4, <1>5
  <1>7. Chain' = Chain
    <2>1. UNION {EntriesOf(archive'[b].entries) :
                    b \in {b \in Archives : VerifyJournalArchive(b)'}}
          = UNION {EntriesOf(archive[b].entries) :
                    b \in {b \in Archives : VerifyJournalArchive(b)}}
      BY <1>2, <1>4, <1>6
    <2> QED
      BY <1>1, <2>1 DEF Chain, EntriesOf
  <1>8. History' = History
    <2>1. \A b \in Chain : b \in Archives \ {a}
      BY <1>4 DEF CredentialInv, NoHistoryLost, Chain
    <2>2. UNION {EntriesOf(archive'[b].entries) : b \in Chain}
          = UNION {EntriesOf(archive[b].entries) : b \in Chain}
      BY <1>2, <2>1
    <2> QED
      BY <1>1, <1>7, <2>2 DEF History, EntriesOf
  <1>9. OwedEntry' /\ RotationTrue' /\ Pending' = {} /\ policyOp.todo # "append"
    BY <1>1, <1>2 DEF OwedEntry, RotationTrue, Pending, NoOp
  <1>10. \A b \in Archives :
             /\ archive'[b].entries # NoFile => EntriesOf(archive'[b].entries) \subseteq History
             /\ archive'[b].manifest => VerifyJournalArchive(b)'
             /\ VerifyJournalArchive(b) => VerifyJournalArchive(b)'
    <2>1. EntriesOf(journal) \subseteq History
      BY DEF History
    <2> QED
      BY <1>2, <1>4, <2>1 DEF CredentialInv, ArchivesTrue
  <1> QED
    BY <1>1, <1>3, <1>7, <1>8, <1>9, <1>10, RotationKeepsHistory

(* The manifest vouches for a copy of the journal. *)
LEMMA ManifestStep == ASSUME CredentialInv, RotateManifest PROVE CredentialInv'
  <1>0. PICK a \in Archives : a = policyOp.dir
    BY OpFields DEF RotateManifest, CredentialInv
  <1>1. /\ policyOp.todo = "manifest"
        /\ archive' = [archive EXCEPT ![a].manifest = TRUE]
        /\ policyOp' = [policyOp EXCEPT !.todo = "checkpoint"]
        /\ policy' = policy /\ journal' = journal /\ lost' = lost
    BY <1>0 DEF RotateManifest
  <1>2. /\ policyOp'.todo = "checkpoint" /\ policyOp'.dir = a
        /\ policyOp' \in [todo : {"manifest", "checkpoint"}, dir : Archives]
    BY <1>0, <1>1 DEF CredentialInv, CredentialTypes, NoOp
  <1>3. archive[a].entries = journal /\ journal # <<>>
    BY <1>0, <1>1 DEF CredentialInv, RotationTrue
  <1>4. /\ archive'[a].entries = journal /\ archive'[a].manifest
        /\ \A b \in Archives : archive'[b].entries = archive[b].entries
        /\ \A b \in Archives \ {a} : archive'[b] = archive[b]
    BY <1>1, <1>2, <1>3 DEF CredentialInv, CredentialTypes
  <1>5. CredentialTypes'
    <2>1. archive' \in [Archives -> [entries : Seq(JournalEntry) \cup {NoFile},
                                     manifest : BOOLEAN]]
      BY <1>1 DEF CredentialInv, CredentialTypes
    <2> QED
      BY <1>1, <1>2, <2>1 DEF CredentialInv, CredentialTypes
  <1>6. journal # NoFile
    BY CredentialConfiguration DEF CredentialInv, CredentialTypes
  <1>7. /\ VerifyJournalArchive(a)'
        /\ \A b \in Archives \ {a} : VerifyJournalArchive(b)' <=> VerifyJournalArchive(b)
    BY <1>4, <1>6 DEF VerifyJournalArchive
  <1>8. Chain' = Chain
    <2>1. EntriesOf(journal) \cup UNION {EntriesOf(archive'[b].entries) :
                    b \in {b \in Archives : VerifyJournalArchive(b)'}}
          = EntriesOf(journal) \cup UNION {EntriesOf(archive[b].entries) :
                    b \in {b \in Archives : VerifyJournalArchive(b)}}
      <3>1. \A b \in Archives \ {a} : archive'[b].entries = archive[b].entries
        BY <1>4
      <3>2. archive'[a].entries = journal /\ archive[a].entries = journal
        BY <1>3, <1>4
      <3> QED BY <1>2, <1>7, <3>1, <3>2
    <2>2. EntriesOf(journal)' = EntriesOf(journal)
      BY <1>1 DEF EntriesOf
    <2>3. (UNION {EntriesOf(archive[b].entries) :
                    b \in {b \in Archives : VerifyJournalArchive(b)}})'
          = UNION {EntriesOf(archive'[b].entries) :
                    b \in {b \in Archives : VerifyJournalArchive(b)'}}
      BY DEF EntriesOf
    <2> QED
      BY <2>1, <2>2, <2>3 DEF Chain
  <1>9. History' = History
    <2>1. UNION {EntriesOf(archive'[b].entries) : b \in Chain}
          = UNION {EntriesOf(archive[b].entries) : b \in Chain}
      BY <1>4 DEF Chain
    <2> QED
      BY <1>1, <1>8, <2>1 DEF History, EntriesOf
  <1>10. OwedEntry' /\ RotationTrue' /\ Pending' = {} /\ policyOp.todo # "append"
    BY <1>1, <1>2, <1>3, <1>4 DEF OwedEntry, RotationTrue, Pending
  <1>11. \A b \in Archives :
             /\ archive'[b].entries # NoFile => EntriesOf(archive'[b].entries) \subseteq History
             /\ archive'[b].manifest => VerifyJournalArchive(b)'
             /\ VerifyJournalArchive(b) => VerifyJournalArchive(b)'
    BY <1>4, <1>7 DEF CredentialInv, ArchivesTrue
  <1> QED
    BY <1>1, <1>5, <1>8, <1>9, <1>10, <1>11, RotationKeepsHistory

(* The checkpoint takes the journal's place and names its archive. *)
LEMMA CheckpointStep == ASSUME CredentialInv, RotateCheckpoint PROVE CredentialInv'
  <1>0. PICK a \in Archives : a = policyOp.dir
    BY OpFields DEF RotateCheckpoint, CredentialInv
  <1>1. /\ policyOp.todo = "checkpoint" /\ policyOp' = NoOp
        /\ journal' = IF PolicyReadable THEN <<Checkpoint>> ELSE journal
        /\ policy' = policy /\ archive' = archive /\ lost' = lost
    BY DEF RotateCheckpoint
  <1>2. Pending = {}
    BY <1>1 DEF Pending
  <1>3. CASE ~PolicyReadable
    <2>1. journal' = journal /\ lost' = lost \cup Pending
      BY <1>1, <1>2, <1>3
    <2> QED
      BY <1>1, <2>1, LockLost
  <1>4. CASE PolicyReadable
    <2>2. archive[a].entries = journal /\ journal # <<>> /\ archive[a].manifest
      BY <1>0, <1>1 DEF CredentialInv, RotationTrue
    <2>3. NextSeq \in Nat /\ NextSeq >= 1
      BY NextSeqTyped DEF CredentialInv
    <2>1. PICK ck : ck = Checkpoint
      OBVIOUS
    <2>4. ck \in JournalEntry /\ ck.seq = NextSeq /\ ck.previous = a /\ ck.cert = NoFile
      BY <1>0, <2>1, <2>3 DEF Checkpoint, Entry, JournalEntry
    <2>5. journal' = <<ck>>
      BY <1>1, <1>4, <2>1
    <2>6. EntriesOf(journal') = {ck}
      BY <2>5 DEF EntriesOf
    <2>7. /\ \A b \in Archives : VerifyJournalArchive(b)' <=> VerifyJournalArchive(b)
          /\ VerifyJournalArchive(a)
      <3>1. journal # NoFile
        BY CredentialConfiguration DEF CredentialInv, CredentialTypes
      <3> QED
        BY <1>1, <2>2, <3>1 DEF VerifyJournalArchive
    <2> DEFINE Filed == UNION {EntriesOf(archive[b].entries) :
                                 b \in {b \in Archives : VerifyJournalArchive(b)}}
    <2>8. Filed' = Filed
      BY <1>1, <2>7
    <2>9. EntriesOf(journal) \subseteq Filed
      BY <2>2, <2>7
    <2> HIDE DEF Filed
    <2>10. Chain' = Chain \cup {a}
      <3>1. Chain = {b \in Archives : \E e \in EntriesOf(journal) \cup Filed : e.previous = b}
        BY DEF Chain, Filed
      <3>2. Chain' = {b \in Archives : \E e \in EntriesOf(journal') \cup Filed' : e.previous = b}
        BY DEF Chain, Filed
      <3> QED
        BY <2>4, <2>6, <2>8, <2>9, <3>1, <3>2
    <2>11. History' = History \cup {ck}
      <3>1. History' = EntriesOf(journal') \cup UNION {EntriesOf(archive[b].entries) : b \in Chain'}
        BY <1>1 DEF History, EntriesOf
      <3>2. UNION {EntriesOf(archive[b].entries) : b \in Chain'}
              = (UNION {EntriesOf(archive[b].entries) : b \in Chain}) \cup EntriesOf(journal)
        BY <2>2, <2>10
      <3> QED
        BY <2>6, <3>1, <3>2 DEF History
    <2>12. NextSeq' = NextSeq + 1
      <3>1. journal' # <<>> /\ Len(journal') = 1 /\ journal'[1] = ck
        BY <2>5
      <3> QED
        BY <2>4, <3>1 DEF NextSeq
    <2>13. /\ \A h \in History' : h.seq \in 1..(NextSeq' - 1)
           /\ \A n \in 1..(NextSeq' - 1) : \E h \in History' : h.seq = n
           /\ \A h, f \in History' : h.seq = f.seq => h = f
      BY <2>3, <2>4, <2>11, <2>12, HistoryGrows DEF CredentialInv, ArchivesTrue, NoHistoryLost
    <2>14. ArchivesTrue'
      BY <1>1, <2>7, <2>11, <2>13 DEF CredentialInv, ArchivesTrue
    <2>15. NoHistoryLost'
      <3>1. \A b \in Chain' : VerifyJournalArchive(b)'
        BY <2>7, <2>10 DEF CredentialInv, NoHistoryLost, Chain
      <3> QED
        BY <2>13, <3>1 DEF NoHistoryLost
    <2>16. JournalTrailsPolicy'
      <3>1. Told' = Told
        BY <2>4, <2>11 DEF Told, Fact
      <3>2. JournalTrailsPolicy' <=> Told' \subseteq PolicyFacts'
                              /\ PolicyFacts' \subseteq Told' \cup lost' \cup Pending'
        BY DEF JournalTrailsPolicy, Told
      <3> QED
        BY <1>1, <1>2, <3>1, <3>2, TrailsDefined, PolicyFactsRead, NothingOwed DEF CredentialInv
    <2>17. CredentialTypes'
      BY <1>1, <2>4, <2>5 DEF CredentialInv, CredentialTypes
    <2> QED
      BY <1>1, <2>14, <2>15, <2>16, <2>17, NothingOwed DEF CredentialInv
  <1> QED
    BY <1>3, <1>4

(* No file is there at first. *)
LEMMA CredentialInvInit == CredentialInit => CredentialInv
  <1> SUFFICES ASSUME CredentialInit PROVE CredentialInv
    OBVIOUS
  <1>1. /\ policy = NoFile /\ journal = <<>> /\ policyOp = NoOp /\ lost = {}
        /\ archive = [a \in Archives |-> EmptyArchive]
    BY DEF CredentialInit
  <1>2. \A a \in Archives : archive[a].entries = NoFile /\ ~archive[a].manifest
    BY <1>1 DEF EmptyArchive
  <1>3. EntriesOf(journal) = {} /\ Chain = {} /\ History = {}
    BY <1>1, <1>2 DEF EntriesOf, Chain, History, VerifyJournalArchive
  <1>4. CredentialTypes
    BY <1>1 DEF CredentialTypes, EmptyArchive
  <1>5. NextSeq = 1 /\ policyOp.todo = "none"
    BY <1>1 DEF NextSeq, NoOp
  <1>6. ArchivesTrue /\ NoHistoryLost
    BY <1>2, <1>3, <1>5 DEF ArchivesTrue, NoHistoryLost
  <1>7. Records = <<>> /\ Enrolled = {} /\ PolicyFacts = {}
    BY <1>1 DEF Records, Enrolled, PolicyFacts
  <1>8. JournalTrailsPolicy
    BY <1>3, <1>7, TrailsDefined DEF Told
  <1>9. OwedEntry /\ RotationTrue
    BY <1>5 DEF OwedEntry, RotationTrue
  <1> QED
    BY <1>4, <1>6, <1>8, <1>9 DEF CredentialInv

-----------------------------------------------------------------------------
(* An enrolment is of another certificate and restores none. *)
LEMMA EnrollRestores ==
    ASSUME CredentialTypes, NEW c \in Certs, NEW x \in Certs, x \notin Enrolled,
           policy' = Append(Records, Record(x)), Restricted(c)
    PROVE  Restricted(c)'
  <1> DEFINE records == Append(Records, Record(x))
  <1>1. Record(x) \in PolicyRecord /\ Record(x).cert = x
    BY DEF Record, PolicyRecord
  <1>2. Records \in Seq(PolicyRecord) /\ records \in Seq(PolicyRecord)
    BY <1>1, RecordsTyped
  <1>3. c \in Enrolled /\ c \notin ActiveIn(Records) /\ x # c
    BY DEF Restricted
  <1>4. Records' = records
    <2>1. policy' = records
      OBVIOUS
    <2> HIDE DEF records
    <2> QED BY <1>2, <2>1, CredentialConfiguration DEF Records
  <1>5. /\ DOMAIN Records \subseteq DOMAIN records
        /\ \A i \in DOMAIN Records : records[i] = Records[i]
        /\ \A i \in DOMAIN records \ DOMAIN Records : records[i] = Record(x)
    <2>1. DOMAIN Records = 1..Len(Records) /\ Len(Records) \in Nat
      BY <1>2
    <2>2. DOMAIN records = 1..(Len(Records) + 1)
      BY <1>1, <1>2
    <2>3. \A i \in 1..Len(Records) : records[i] = Records[i]
      BY <1>1, <1>2
    <2>4. records[Len(Records) + 1] = Record(x)
      BY <1>1, <1>2
    <2>5. 1..(Len(Records) + 1) = (1..Len(Records)) \cup {Len(Records) + 1}
      BY <2>1
    <2> QED
      BY <2>1, <2>2, <2>3, <2>4, <2>5
  <1> HIDE DEF records
  <1>6. c \in Enrolled'
    BY <1>3, <1>4, <1>5 DEF Enrolled
  <1>7. c \notin ActiveIn(Records')
    BY <1>1, <1>3, <1>4, <1>5 DEF ActiveIn
  <1> QED
    BY <1>6, <1>7 DEF Restricted, ActiveIn

(* A restriction restores none either. *)
LEMMA RestrictRestores ==
    ASSUME CredentialTypes, NEW c \in Certs, NEW x \in Certs, NEW revoke \in BOOLEAN,
           RestrictCredential(x, revoke), Restricted(c)
    PROVE  Restricted(c)'
  <1> DEFINE changed(i) == IF Records[i].cert # x THEN Records[i]
                           ELSE IF revoke THEN [Records[i] EXCEPT !.revoked = TRUE]
                           ELSE [Records[i] EXCEPT !.enabled = FALSE]
             records == [i \in DOMAIN Records |-> changed(i)]
  <1>1. Records \in Seq(PolicyRecord)
    BY RecordsTyped
  <1>2. \A i \in DOMAIN Records : Records[i] \in PolicyRecord
    BY <1>1
  <1>3. \A i \in DOMAIN Records :
            /\ records[i] \in PolicyRecord /\ records[i].cert = Records[i].cert
            /\ records[i].enabled => Records[i].enabled
            /\ Records[i].revoked => records[i].revoked
    BY <1>2 DEF PolicyRecord
  <1>4. records \in Seq(PolicyRecord) /\ DOMAIN records = DOMAIN Records
    <2>1. DOMAIN records = DOMAIN Records
      OBVIOUS
    <2>2. PICK n \in Nat : DOMAIN Records = 1..n
      BY <1>1
    <2>3. records \in [1..n -> PolicyRecord]
      <3>1. records = [i \in 1..n |-> changed(i)]
        BY <2>2
      <3>2. \A i \in 1..n : changed(i) \in PolicyRecord
        BY <1>3, <2>2
      <3> HIDE DEF changed
      <3> QED BY <3>1, <3>2
    <2> HIDE DEF records
    <2> QED BY <2>1, <2>3
  <1>5. Records' = records
    <2>1. policy' = records
      BY DEF RestrictCredential, PolicyWritten
    <2> HIDE DEF records
    <2> QED BY <1>4, <2>1, CredentialConfiguration DEF Records
  <1> HIDE DEF records
  <1>6. c \in Enrolled'
    BY <1>3, <1>4, <1>5 DEF Enrolled, Restricted
  <1>7. c \notin ActiveIn(Records')
    BY <1>3, <1>4, <1>5 DEF ActiveIn, Restricted
  <1> QED
    BY <1>6, <1>7 DEF Restricted, ActiveIn

-----------------------------------------------------------------------------
(* What is left of a plan after its first step. *)
LEMMA RestOfPlan ==
    ASSUME NEW S, NEW plan \in Seq(S), NEW n \in 1..Len(plan)
    PROVE  /\ Rest(plan, n) \in Seq(S) /\ Len(Rest(plan, n)) = n
           /\ Rest(plan, n) # <<>>
           /\ Rest(plan, n)[1] = plan[Len(plan) - n + 1]
           /\ n > 1 => Tail(Rest(plan, n)) = Rest(plan, n - 1)
  <1>1. Len(plan) \in Nat /\ n \in Nat
    OBVIOUS
  <1>2. \A i \in 1..n : Len(plan) - n + i \in 1..Len(plan)
    BY <1>1
  <1>3. Rest(plan, n) \in [1..n -> S]
    BY <1>2 DEF Rest
  <1>4. Rest(plan, n) \in Seq(S) /\ Len(Rest(plan, n)) = n
    <2> HIDE DEF Rest
    <2> QED BY <1>1, <1>3
  <1>5. Rest(plan, n)[1] = plan[Len(plan) - n + 1]
    BY <1>1 DEF Rest
  <1>6. ASSUME n > 1 PROVE Tail(Rest(plan, n)) = Rest(plan, n - 1)
    <2>1. Len(Tail(Rest(plan, n))) = n - 1
      BY <1>1, <1>4, <1>6
    <2>2. \A i \in 1..(n - 1) : Tail(Rest(plan, n))[i] = Rest(plan, n)[i + 1]
      BY <1>1, <1>4, <1>6
    <2>3. \A i \in 1..(n - 1) : Rest(plan, n)[i + 1] = Rest(plan, n - 1)[i]
      BY <1>1 DEF Rest
    <2>4. Tail(Rest(plan, n)) \in Seq(S)
      BY <1>4, <1>6
    <2>5. Rest(plan, n - 1) \in Seq(S) /\ Len(Rest(plan, n - 1)) = n - 1
      <3>1. \A i \in 1..(n - 1) : Len(plan) - (n - 1) + i \in 1..Len(plan)
        BY <1>1
      <3>2. n - 1 \in Nat /\ Rest(plan, n - 1) \in [1..(n - 1) -> S]
        BY <1>6, <3>1 DEF Rest
      <3> HIDE DEF Rest
      <3> QED BY <3>2
    <2> QED
      BY <1>1, <1>6, <2>1, <2>2, <2>3, <2>4, <2>5
  <1> QED
    BY <1>4, <1>5, <1>6

(* The three plans, step by step. *)
AnyStep == [kind : {"ca", "deliver", "issue", "profile"},
            file : {"key", "cert", "manifest", "journal", "bundle", "counters",
                    "nss", "root_ca", "client_key", "user_js"}]

(* The elements of a sequence. *)
LEMMA Elements ==
    ASSUME NEW S, NEW s \in Seq(S)
    PROVE  \A i \in DOMAIN s : s[i] \in S
  OBVIOUS

(* A function on 1..n is a sequence. *)
LEMMA SequenceOf ==
    ASSUME NEW S, NEW n \in Nat, NEW f \in [1..n -> S]
    PROVE  f \in Seq(S) /\ Len(f) = n
  OBVIOUS

(* Which write comes when. *)
LEMMA Plans ==
    /\ InitSteps \in Seq(AnyStep) /\ Len(InitSteps) = 4
    /\ InitSteps[1] = Step("ca", "key") /\ InitSteps[2] = Step("ca", "cert")
    /\ InitSteps[3] = Step("ca", "manifest") /\ InitSteps[4] = Step("ca", "journal")
    /\ IssueSteps \in Seq(AnyStep) /\ Len(IssueSteps) = 5
    /\ IssueSteps[1] = Step("deliver", "cert") /\ IssueSteps[2] = Step("deliver", "bundle")
    /\ IssueSteps[3] = Step("deliver", "manifest")
    /\ IssueSteps[4] = Step("issue", "counters") /\ IssueSteps[5] = Step("issue", "journal")
    /\ ProfileSteps \in Seq(AnyStep) /\ Len(ProfileSteps) = 5
    /\ ProfileSteps[1] = Step("profile", "nss") /\ ProfileSteps[2] = Step("profile", "root_ca")
    /\ ProfileSteps[3] = Step("profile", "client_key")
    /\ ProfileSteps[4] = Step("profile", "user_js")
    /\ ProfileSteps[5] = Step("profile", "manifest")
  <1>1. /\ InitSteps \in Seq(AnyStep) /\ Len(InitSteps) = 4
        /\ InitSteps[1] = Step("ca", "key") /\ InitSteps[2] = Step("ca", "cert")
        /\ InitSteps[3] = Step("ca", "manifest") /\ InitSteps[4] = Step("ca", "journal")
    <2> DEFINE f == <<"key", "cert", "manifest", "journal">>
    <2>1. DOMAIN f = 1..4 /\ f[1] = "key" /\ f[2] = "cert" /\ f[3] = "manifest" /\ f[4] = "journal"
      OBVIOUS
    <2>2. InitSteps = [i \in 1..4 |-> Step("ca", f[i])]
      BY <2>1 DEF InitSteps, Steps
    <2>3. \A i \in 1..4 : Step("ca", f[i]) \in AnyStep
      BY DEF AnyStep, Step
    <2>4. InitSteps \in [1..4 -> AnyStep]
      BY <2>2, <2>3
    <2>5. Len(InitSteps) = 4 /\ InitSteps \in Seq(AnyStep)
      BY <2>4, SequenceOf
    <2> QED BY <2>1, <2>2, <2>5
  <1>2. /\ IssueSteps \in Seq(AnyStep) /\ Len(IssueSteps) = 5
        /\ IssueSteps[1] = Step("deliver", "cert") /\ IssueSteps[2] = Step("deliver", "bundle")
        /\ IssueSteps[3] = Step("deliver", "manifest")
        /\ IssueSteps[4] = Step("issue", "counters") /\ IssueSteps[5] = Step("issue", "journal")
    <2> DEFINE s == Steps("deliver", BundleFiles)
               u == <<Step("issue", "counters"), Step("issue", "journal")>>
    <2>1. /\ DOMAIN BundleFiles = 1..3 /\ BundleFiles[1] = "cert"
          /\ BundleFiles[2] = "bundle" /\ BundleFiles[3] = "manifest"
      BY DEF BundleFiles
    <2>2. s = [i \in 1..3 |-> Step("deliver", BundleFiles[i])]
      BY <2>1 DEF Steps
    <2>3. \A i \in 1..3 : Step("deliver", BundleFiles[i]) \in AnyStep
      BY <2>1 DEF AnyStep, Step
    <2>4. s \in [1..3 -> AnyStep]
      BY <2>2, <2>3
    <2>5. Len(s) = 3 /\ s \in Seq(AnyStep)
      BY <2>4, SequenceOf
    <2>6. u \in Seq(AnyStep) /\ Len(u) = 2
          /\ u[1] = Step("issue", "counters") /\ u[2] = Step("issue", "journal")
      <3>1. Step("issue", "counters") \in AnyStep /\ Step("issue", "journal") \in AnyStep
        BY DEF AnyStep, Step
      <3> QED BY <3>1
    <2>7. s[1] = Step("deliver", "cert") /\ s[2] = Step("deliver", "bundle")
          /\ s[3] = Step("deliver", "manifest")
      BY <2>1, <2>2
    <2>8. IssueSteps = s \o u
      BY DEF IssueSteps
    <2> HIDE DEF s, u
    <2>9. /\ IssueSteps \in Seq(AnyStep) /\ Len(IssueSteps) = Len(s) + Len(u)
          /\ \A i \in 1..Len(s) : IssueSteps[i] = s[i]
          /\ \A i \in 1..Len(u) : IssueSteps[Len(s) + i] = u[i]
      <3>1. s \in Seq(AnyStep) /\ u \in Seq(AnyStep)
        BY <2>5, <2>6
      <3>2. /\ s \o u \in Seq(AnyStep) /\ Len(s \o u) = Len(s) + Len(u)
            /\ \A i \in 1..Len(s) : (s \o u)[i] = s[i]
            /\ \A i \in 1..Len(u) : (s \o u)[Len(s) + i] = u[i]
        BY <3>1
      <3> QED BY <3>2, <2>8, Zenon
    <2>10. IssueSteps[1] = s[1] /\ IssueSteps[2] = s[2] /\ IssueSteps[3] = s[3]
      BY <2>5, <2>9
    <2>11. Len(IssueSteps) = 5 /\ IssueSteps[4] = u[1] /\ IssueSteps[5] = u[2]
      <3>1. IssueSteps[3 + 1] = u[1] /\ IssueSteps[3 + 2] = u[2]
        BY <2>5, <2>6, <2>9
      <3> QED BY <2>5, <2>6, <2>9, <3>1
    <2> QED BY <2>6, <2>7, <2>9, <2>10, <2>11
  <1>3. /\ ProfileSteps \in Seq(AnyStep) /\ Len(ProfileSteps) = 5
        /\ ProfileSteps[1] = Step("profile", "nss") /\ ProfileSteps[2] = Step("profile", "root_ca")
        /\ ProfileSteps[3] = Step("profile", "client_key")
        /\ ProfileSteps[4] = Step("profile", "user_js")
        /\ ProfileSteps[5] = Step("profile", "manifest")
    <2>1. /\ DOMAIN ProfileFiles = 1..5 /\ ProfileFiles[1] = "nss"
          /\ ProfileFiles[2] = "root_ca" /\ ProfileFiles[3] = "client_key"
          /\ ProfileFiles[4] = "user_js" /\ ProfileFiles[5] = "manifest"
      BY DEF ProfileFiles
    <2>2. ProfileSteps = [i \in 1..5 |-> Step("profile", ProfileFiles[i])]
      BY <2>1 DEF ProfileSteps, Steps
    <2>3. \A i \in 1..5 : Step("profile", ProfileFiles[i]) \in AnyStep
      BY <2>1 DEF AnyStep, Step
    <2>4. ProfileSteps \in [1..5 -> AnyStep]
      BY <2>2, <2>3
    <2>5. Len(ProfileSteps) = 5 /\ ProfileSteps \in Seq(AnyStep)
      BY <2>4, SequenceOf
    <2> QED BY <2>1, <2>2, <2>5
  <1> QED
    BY <1>1, <1>2, <1>3

(* What is left of an initialisation. *)
LEMMA RestOfInit ==
    ASSUME NEW n \in 1..4
    PROVE  /\ Rest(InitSteps, n) \in Seq(AnyStep) /\ Len(Rest(InitSteps, n)) = n
           /\ Rest(InitSteps, n) # <<>> /\ Rest(InitSteps, n)[1] = InitSteps[5 - n]
           /\ n > 1 => Tail(Rest(InitSteps, n)) = Rest(InitSteps, n - 1)
  <1>1. InitSteps \in Seq(AnyStep) /\ Len(InitSteps) = 4
    BY Plans
  <1>2. n \in 1..Len(InitSteps)
    BY <1>1
  <1>3. /\ Rest(InitSteps, n) \in Seq(AnyStep) /\ Len(Rest(InitSteps, n)) = n
        /\ Rest(InitSteps, n) # <<>>
        /\ Rest(InitSteps, n)[1] = InitSteps[Len(InitSteps) - n + 1]
        /\ n > 1 => Tail(Rest(InitSteps, n)) = Rest(InitSteps, n - 1)
    BY ONLY <1>1, <1>2, RestOfPlan, Zenon
  <1>4. Len(InitSteps) - n + 1 = 5 - n
    BY <1>1
  <1> QED
    BY <1>3, <1>4

(* What is left of an issue. *)
LEMMA RestOfIssue ==
    ASSUME NEW n \in 1..5
    PROVE  /\ Rest(IssueSteps, n) \in Seq(AnyStep) /\ Len(Rest(IssueSteps, n)) = n
           /\ Rest(IssueSteps, n) # <<>> /\ Rest(IssueSteps, n)[1] = IssueSteps[6 - n]
           /\ n > 1 => Tail(Rest(IssueSteps, n)) = Rest(IssueSteps, n - 1)
  <1>1. IssueSteps \in Seq(AnyStep) /\ Len(IssueSteps) = 5
    BY Plans
  <1>2. n \in 1..Len(IssueSteps)
    BY <1>1
  <1>3. /\ Rest(IssueSteps, n) \in Seq(AnyStep) /\ Len(Rest(IssueSteps, n)) = n
        /\ Rest(IssueSteps, n) # <<>>
        /\ Rest(IssueSteps, n)[1] = IssueSteps[Len(IssueSteps) - n + 1]
        /\ n > 1 => Tail(Rest(IssueSteps, n)) = Rest(IssueSteps, n - 1)
    BY ONLY <1>1, <1>2, RestOfPlan, Zenon
  <1>4. Len(IssueSteps) - n + 1 = 6 - n
    BY <1>1
  <1> QED
    BY <1>3, <1>4

(* What is left of a provisioning. *)
LEMMA RestOfProfile ==
    ASSUME NEW n \in 1..5
    PROVE  /\ Rest(ProfileSteps, n) \in Seq(AnyStep) /\ Len(Rest(ProfileSteps, n)) = n
           /\ Rest(ProfileSteps, n) # <<>> /\ Rest(ProfileSteps, n)[1] = ProfileSteps[6 - n]
           /\ n > 1 => Tail(Rest(ProfileSteps, n)) = Rest(ProfileSteps, n - 1)
  <1>1. ProfileSteps \in Seq(AnyStep) /\ Len(ProfileSteps) = 5
    BY Plans
  <1>2. n \in 1..Len(ProfileSteps)
    BY <1>1
  <1>3. /\ Rest(ProfileSteps, n) \in Seq(AnyStep) /\ Len(Rest(ProfileSteps, n)) = n
        /\ Rest(ProfileSteps, n) # <<>>
        /\ Rest(ProfileSteps, n)[1] = ProfileSteps[Len(ProfileSteps) - n + 1]
        /\ n > 1 => Tail(Rest(ProfileSteps, n)) = Rest(ProfileSteps, n - 1)
    BY ONLY <1>1, <1>2, RestOfPlan, Zenon
  <1>4. Len(ProfileSteps) - n + 1 = 6 - n
    BY <1>1
  <1> QED
    BY <1>3, <1>4

(* The next step tells whose plan it is and how far it has come. *)
LEMMA InitAt ==
    ASSUME NEW op \in InitOps
    PROVE  \E n \in 1..4 :
              /\ op = [todo |-> Rest(InitSteps, n)] /\ Len(op.todo) = n
              /\ op.todo \in Seq(AnyStep) /\ op.todo # <<>>
              /\ op.todo[1] = InitSteps[5 - n] /\ op.todo[1].kind = "ca"
              /\ n > 1 => Tail(op.todo) = Rest(InitSteps, n - 1)
  <1>1. PICK n \in 1..4 : op = [todo |-> Rest(InitSteps, n)]
    BY DEF InitOps
  <1>2. op.todo = Rest(InitSteps, n)
    BY <1>1
  <1>3. /\ Len(op.todo) = n /\ op.todo \in Seq(AnyStep) /\ op.todo # <<>>
        /\ op.todo[1] = InitSteps[5 - n]
        /\ n > 1 => Tail(op.todo) = Rest(InitSteps, n - 1)
    BY <1>2, RestOfInit
  <1>4. InitSteps[5 - n].kind = "ca"
    BY Plans DEF Step
  <1> QED
    BY <1>1, <1>3, <1>4

(* The same of an issue. *)
LEMMA IssueAt ==
    ASSUME NEW op \in IssueOps
    PROVE  \E n \in 1..5 :
              /\ op = [todo |-> Rest(IssueSteps, n), dir |-> op.dir, cert |-> op.cert,
                       serial |-> op.serial] /\ Len(op.todo) = n
              /\ op.todo \in Seq(AnyStep) /\ op.todo # <<>>
              /\ op.dir \in Deliveries /\ op.cert \in Certs /\ op.serial \in Nat
              /\ op.todo[1] = IssueSteps[6 - n] /\ op.todo[1].kind \in {"deliver", "issue"}
              /\ n > 1 => Tail(op.todo) = Rest(IssueSteps, n - 1)
  <1>1. PICK n \in 1..5 : op.todo = Rest(IssueSteps, n)
    BY DEF IssueOps
  <1>2. /\ op = [todo |-> Rest(IssueSteps, n), dir |-> op.dir, cert |-> op.cert,
                 serial |-> op.serial]
        /\ op.dir \in Deliveries /\ op.cert \in Certs /\ op.serial \in Nat
    BY <1>1 DEF IssueOps
  <1>3. /\ Len(op.todo) = n /\ op.todo \in Seq(AnyStep) /\ op.todo # <<>>
        /\ op.todo[1] = IssueSteps[6 - n]
        /\ n > 1 => Tail(op.todo) = Rest(IssueSteps, n - 1)
    BY <1>1, RestOfIssue
  <1>4. IssueSteps[6 - n].kind \in {"deliver", "issue"}
    BY Plans DEF Step
  <1> QED
    BY <1>2, <1>3, <1>4

(* The same of a provisioning. *)
LEMMA ProfileAt ==
    ASSUME NEW op \in ProfileOps
    PROVE  \E n \in 1..5 :
              /\ op = [todo |-> Rest(ProfileSteps, n), dir |-> op.dir, cert |-> op.cert,
                       serial |-> op.serial] /\ Len(op.todo) = n
              /\ op.todo \in Seq(AnyStep) /\ op.todo # <<>>
              /\ op.dir \in Profiles /\ op.cert \in Certs /\ op.serial \in Nat
              /\ op.todo[1] = ProfileSteps[6 - n] /\ op.todo[1].kind = "profile"
              /\ n > 1 => Tail(op.todo) = Rest(ProfileSteps, n - 1)
  <1>1. PICK n \in 1..5 : op.todo = Rest(ProfileSteps, n)
    BY DEF ProfileOps
  <1>2. /\ op = [todo |-> Rest(ProfileSteps, n), dir |-> op.dir, cert |-> op.cert,
                 serial |-> op.serial]
        /\ op.dir \in Profiles /\ op.cert \in Certs /\ op.serial \in Nat
    BY <1>1 DEF ProfileOps
  <1>3. /\ Len(op.todo) = n /\ op.todo \in Seq(AnyStep) /\ op.todo # <<>>
        /\ op.todo[1] = ProfileSteps[6 - n]
        /\ n > 1 => Tail(op.todo) = Rest(ProfileSteps, n - 1)
    BY <1>1, RestOfProfile
  <1>4. ProfileSteps[6 - n].kind = "profile"
    BY Plans DEF Step
  <1> QED
    BY <1>2, <1>3, <1>4

(* The plans are told apart, and an idle CA has none. *)
LEMMA PlansApart ==
    /\ CaIdle \notin InitOps \cup IssueOps \cup ProfileOps
    /\ InitOps \cap (IssueOps \cup ProfileOps) = {} /\ IssueOps \cap ProfileOps = {}
  <1>1. \A op \in InitOps : op.todo # <<>> /\ op.todo[1].kind = "ca"
    BY InitAt
  <1>2. \A op \in IssueOps : op.todo # <<>> /\ op.todo[1].kind \in {"deliver", "issue"}
    BY IssueAt
  <1>3. \A op \in ProfileOps : op.todo # <<>> /\ op.todo[1].kind = "profile"
    BY ProfileAt
  <1>4. CaIdle.todo = <<>>
    BY DEF CaIdle
  <1> QED
    BY <1>1, <1>2, <1>3, <1>4

(* A write takes its plan one step on. *)
LEMMA InitAdvances ==
    ASSUME CaTypes, NEW f, ComesNext("ca", f)
    PROVE  \E n \in 1..4 :
              /\ caOp \in InitOps /\ Len(caOp.todo) = n
              /\ f = <<"journal", "manifest", "cert", "key">>[n]
              /\ Writes("ca", f) /\ n = 1 => caOp' = CaIdle
              /\ Writes("ca", f) /\ n > 1 =>
                    caOp' \in InitOps /\ Len(caOp'.todo) = n - 1
  <1>1. caOp.todo # <<>> /\ caOp.todo[1].kind = "ca" /\ caOp.todo[1].file = f
    BY DEF ComesNext, Step
  <1>2. caOp \in InitOps
    <2>1. caOp # CaIdle
      BY <1>1 DEF CaIdle
    <2> QED
      BY <1>1, <2>1, IssueAt, ProfileAt DEF CaTypes
  <1>3. PICK n \in 1..4 :
              /\ caOp = [todo |-> Rest(InitSteps, n)] /\ Len(caOp.todo) = n
              /\ caOp.todo[1] = InitSteps[5 - n]
              /\ n > 1 => Tail(caOp.todo) = Rest(InitSteps, n - 1)
    BY <1>2, InitAt
  <1>4. f = <<"journal", "manifest", "cert", "key">>[n]
    <2>1. InitSteps[5 - n].file = f
      BY <1>1, <1>3
    <2>2. n = 1 \/ n = 2 \/ n = 3 \/ n = 4
      OBVIOUS
    <2> QED
      BY <2>1, <2>2, Plans DEF Step
  <1>5. Writes("ca", f) /\ n = 1 => caOp' = CaIdle
    BY <1>3 DEF Writes
  <1>6. ASSUME n > 1, Writes("ca", f) PROVE caOp' \in InitOps /\ Len(caOp'.todo) = n - 1
    <2>1. caOp' = [todo |-> Rest(InitSteps, n - 1)]
      <3>1. Len(caOp.todo) # 1 /\ Tail(caOp.todo) = Rest(InitSteps, n - 1)
        BY <1>3, <1>6
      <3>2. caOp' = [caOp EXCEPT !.todo = Rest(InitSteps, n - 1)]
        BY <1>6, <3>1 DEF Writes
      <3> QED BY <1>3, <3>2
    <2>2. n - 1 \in 1..4
      BY <1>6
    <2>3. Len(Rest(InitSteps, n - 1)) = n - 1
      BY <2>2, RestOfInit
    <2> QED
      BY <2>1, <2>2, <2>3 DEF InitOps
  <1> QED
    BY <1>2, <1>3, <1>4, <1>5, <1>6

(* The same of an issue. *)
LEMMA IssueAdvances ==
    ASSUME CaTypes, NEW kind \in {"deliver", "issue"}, NEW f, ComesNext(kind, f)
    PROVE  \E n \in 1..5 :
              /\ caOp \in IssueOps /\ Len(caOp.todo) = n
              /\ f = <<"journal", "counters", "manifest", "bundle", "cert">>[n]
              /\ kind = "deliver" <=> n >= 3
              /\ Writes(kind, f) /\ n = 1 => caOp' = CaIdle
              /\ Writes(kind, f) /\ n > 1 =>
                          /\ caOp' \in IssueOps /\ Len(caOp'.todo) = n - 1
                          /\ caOp'.dir = caOp.dir /\ caOp'.cert = caOp.cert
                          /\ caOp'.serial = caOp.serial
  <1>1. caOp.todo # <<>> /\ caOp.todo[1].kind = kind /\ caOp.todo[1].file = f
    BY DEF ComesNext, Step
  <1>2. caOp \in IssueOps
    <2>1. caOp # CaIdle
      BY <1>1 DEF CaIdle
    <2> QED
      BY <1>1, <2>1, InitAt, ProfileAt DEF CaTypes
  <1>3. PICK n \in 1..5 :
              /\ caOp = [todo |-> Rest(IssueSteps, n), dir |-> caOp.dir, cert |-> caOp.cert,
                         serial |-> caOp.serial]
              /\ Len(caOp.todo) = n
              /\ caOp.dir \in Deliveries /\ caOp.cert \in Certs /\ caOp.serial \in Nat
              /\ caOp.todo[1] = IssueSteps[6 - n]
              /\ n > 1 => Tail(caOp.todo) = Rest(IssueSteps, n - 1)
    BY <1>2, IssueAt
  <1>4. /\ f = <<"journal", "counters", "manifest", "bundle", "cert">>[n]
        /\ kind = "deliver" <=> n >= 3
    <2>1. IssueSteps[6 - n].file = f /\ IssueSteps[6 - n].kind = kind
      BY <1>1, <1>3
    <2>2. n = 1 \/ n = 2 \/ n = 3 \/ n = 4 \/ n = 5
      OBVIOUS
    <2> QED
      BY <2>1, <2>2, Plans DEF Step
  <1>5. Writes(kind, f) /\ n = 1 => caOp' = CaIdle
    BY <1>3 DEF Writes
  <1>6. ASSUME n > 1, Writes(kind, f)
        PROVE  /\ caOp' \in IssueOps /\ Len(caOp'.todo) = n - 1
               /\ caOp'.dir = caOp.dir /\ caOp'.cert = caOp.cert
               /\ caOp'.serial = caOp.serial
    <2>1. caOp' = [caOp EXCEPT !.todo = Rest(IssueSteps, n - 1)]
      <3>1. Len(caOp.todo) # 1 /\ Tail(caOp.todo) = Rest(IssueSteps, n - 1)
        BY <1>3, <1>6
      <3> QED BY <1>6, <3>1 DEF Writes
    <2>2. n - 1 \in 1..5
      BY <1>6
    <2>3. Len(Rest(IssueSteps, n - 1)) = n - 1
      BY <2>2, RestOfIssue
    <2>4. caOp' = [todo |-> Rest(IssueSteps, n - 1), dir |-> caOp.dir, cert |-> caOp.cert,
                   serial |-> caOp.serial]
      BY <1>3, <2>1
    <2> QED
      BY <1>3, <2>2, <2>3, <2>4 DEF IssueOps
  <1> QED
    BY <1>2, <1>3, <1>4, <1>5, <1>6

(* The same of a provisioning. *)
LEMMA ProfileAdvances ==
    ASSUME CaTypes, NEW f, ComesNext("profile", f)
    PROVE  \E n \in 1..5 :
              /\ caOp \in ProfileOps /\ Len(caOp.todo) = n
              /\ f = <<"manifest", "user_js", "client_key", "root_ca", "nss">>[n]
              /\ Writes("profile", f) /\ n = 1 => caOp' = CaIdle
              /\ Writes("profile", f) /\ n > 1 =>
                          /\ caOp' \in ProfileOps /\ Len(caOp'.todo) = n - 1
                          /\ caOp'.dir = caOp.dir /\ caOp'.cert = caOp.cert
                          /\ caOp'.serial = caOp.serial
  <1>1. caOp.todo # <<>> /\ caOp.todo[1].kind = "profile" /\ caOp.todo[1].file = f
    BY DEF ComesNext, Step
  <1>2. caOp \in ProfileOps
    <2>1. caOp # CaIdle
      BY <1>1 DEF CaIdle
    <2> QED
      BY <1>1, <2>1, InitAt, IssueAt DEF CaTypes
  <1>3. PICK n \in 1..5 :
              /\ caOp = [todo |-> Rest(ProfileSteps, n), dir |-> caOp.dir, cert |-> caOp.cert,
                         serial |-> caOp.serial]
              /\ Len(caOp.todo) = n
              /\ caOp.dir \in Profiles /\ caOp.cert \in Certs /\ caOp.serial \in Nat
              /\ caOp.todo[1] = ProfileSteps[6 - n]
              /\ n > 1 => Tail(caOp.todo) = Rest(ProfileSteps, n - 1)
    BY <1>2, ProfileAt
  <1>4. f = <<"manifest", "user_js", "client_key", "root_ca", "nss">>[n]
    <2>1. ProfileSteps[6 - n].file = f
      BY <1>1, <1>3
    <2>2. n = 1 \/ n = 2 \/ n = 3 \/ n = 4 \/ n = 5
      OBVIOUS
    <2> QED
      BY <2>1, <2>2, Plans DEF Step
  <1>5. Writes("profile", f) /\ n = 1 => caOp' = CaIdle
    BY <1>3 DEF Writes
  <1>6. ASSUME n > 1, Writes("profile", f)
        PROVE  /\ caOp' \in ProfileOps /\ Len(caOp'.todo) = n - 1
               /\ caOp'.dir = caOp.dir /\ caOp'.cert = caOp.cert
               /\ caOp'.serial = caOp.serial
    <2>1. caOp' = [caOp EXCEPT !.todo = Rest(ProfileSteps, n - 1)]
      <3>1. Len(caOp.todo) # 1 /\ Tail(caOp.todo) = Rest(ProfileSteps, n - 1)
        BY <1>3, <1>6
      <3> QED BY <1>6, <3>1 DEF Writes
    <2>2. n - 1 \in 1..5
      BY <1>6
    <2>3. Len(Rest(ProfileSteps, n - 1)) = n - 1
      BY <2>2, RestOfProfile
    <2>4. caOp' = [todo |-> Rest(ProfileSteps, n - 1), dir |-> caOp.dir, cert |-> caOp.cert,
                   serial |-> caOp.serial]
      BY <1>3, <2>1
    <2> QED
      BY <1>3, <2>2, <2>3, <2>4 DEF ProfileOps
  <1> QED
    BY <1>2, <1>3, <1>4, <1>5, <1>6

(* All of a plan is left before its first step. *)
LEMMA WholePlan ==
    ASSUME NEW S, NEW plan \in Seq(S)
    PROVE  plan = Rest(plan, Len(plan))
  <1>1. Len(plan) \in Nat /\ \A i \in 1..Len(plan) : Len(plan) - Len(plan) + i = i
    OBVIOUS
  <1>2. Rest(plan, Len(plan)) = [i \in 1..Len(plan) |-> plan[i]]
    BY <1>1 DEF Rest
  <1> QED
    BY <1>1, <1>2

(* The files of a bundle and of a profile. *)
LEMMA FileSets ==
    /\ Range(BundleFiles) = {"cert", "bundle", "manifest"}
    /\ Range(ProfileFiles) = {"nss", "root_ca", "client_key", "user_js", "manifest"}
  <1>1. DOMAIN BundleFiles = {1, 2, 3} /\ DOMAIN ProfileFiles = {1, 2, 3, 4, 5}
    BY DEF BundleFiles, ProfileFiles
  <1>2. Range(BundleFiles) = {"cert", "bundle", "manifest"}
    BY <1>1 DEF Range, BundleFiles
  <1>3. Range(ProfileFiles) = {"nss", "root_ca", "client_key", "user_js", "manifest"}
    BY <1>1 DEF Range, ProfileFiles
  <1> QED
    BY <1>2, <1>3

(* What the journal and the manifests vouch for, as long as it stays. *)
LEMMA VouchedStays ==
    ASSUME IssuanceSound, ManifestsTrue, UNCHANGED <<caFileVars, delivered, profile>>
    PROVE  IssuanceSound' /\ ManifestsTrue'
  BY DEF caFileVars, IssuanceSound, ReadableLines, ManifestsTrue, VerifyClientBundle,
         VerifyProfile, Legible

(* The CA's lock is free again: no plan is under way. *)
LEMMA NoPlan ==
    ASSUME caOp' = CaIdle
    PROVE  PlanTrue'
  BY PlansApart DEF PlanTrue, InitTrue, IssueTrue, ProfileTrue

(* An initialisation begins. *)
LEMMA InitHumanCaStep == ASSUME CaInv, InitHumanCa PROVE CaInv'
  <1>1. /\ caOp' = [todo |-> InitSteps] /\ caFiles \cap CaIdentity = {}
        /\ UNCHANGED <<caFileVars, delivered, profile>>
    BY DEF InitHumanCa, InitSteps
  <1>2. caOp' \in InitOps /\ Len(caOp'.todo) = 4
    <2>1. InitSteps = Rest(InitSteps, 4)
      BY Plans, WholePlan
    <2> QED
      BY <1>1, <2>1, Plans DEF InitOps
  <1>3. InitTrue(4)'
    <2>1. caDoubled \cap CaIdentity = {} /\ "manifest" \notin caFiles
      BY <1>1 DEF CaInv, CaTypes, CaIdentity
    <2> QED
      BY <1>1, <2>1 DEF InitTrue, caFileVars
  <1>4. PlanTrue'
    BY <1>2, <1>3, PlansApart DEF PlanTrue
  <1>5. CaTypes'
    BY <1>1, <1>2 DEF CaInv, CaTypes, caFileVars
  <1> QED
    BY <1>1, <1>4, <1>5, VouchedStays DEF CaInv

(* The journal and the bundles stay while a file of the CA is written. *)
LEMMA IssuedStays ==
    ASSUME IssuanceSound, UNCHANGED <<caManifest, issuance, delivered>>
    PROVE  IssuanceSound'
  BY DEF IssuanceSound, ReadableLines, VerifyClientBundle, Legible

(* The bundles and the profiles stay likewise. *)
LEMMA CopiesStay ==
    ASSUME ManifestsTrue, UNCHANGED <<delivered, profile>>,
           "manifest" \in caFiles' \ caDoubled' => CaIdentity \subseteq caFiles' \ caDoubled'
    PROVE  ManifestsTrue'
  BY DEF ManifestsTrue, VerifyClientBundle, VerifyProfile, Legible

(* One of the CA's files is written. *)
LEMMA CaFileStep ==
    ASSUME CaInv, NEW f \in CaIdentity \cup {"journal"}, CaFileWritten(f)
    PROVE  CaInv'
  <1>1. /\ Writes("ca", f) /\ caFiles' = caFiles \cup {f}
        /\ UNCHANGED <<caDoubled, caManifest, issuance, cut, delivered, profile>>
    BY DEF CaFileWritten
  <1>2. PICK n \in 1..4 :
              /\ caOp \in InitOps /\ Len(caOp.todo) = n
              /\ f = <<"journal", "manifest", "cert", "key">>[n]
              /\ n = 1 => caOp' = CaIdle
              /\ n > 1 => caOp' \in InitOps /\ Len(caOp'.todo) = n - 1
    <2>1. ComesNext("ca", f) /\ CaTypes
      BY <1>1 DEF Writes, CaInv
    <2> QED
      BY <1>1, <2>1, InitAdvances
  <1>3. InitTrue(n)
    BY <1>2 DEF CaInv, PlanTrue
  <1>4. n = 1 \/ n = 2 \/ n = 3 \/ n = 4
    OBVIOUS
  <1>5. CaTypes'
    <2>1. caFiles' \subseteq {"key", "cert", "manifest", "journal"} /\ caDoubled' \subseteq caFiles'
      BY <1>1 DEF CaInv, CaTypes, CaIdentity
    <2>2. caOp' \in {CaIdle} \cup InitOps
      BY <1>2, <1>4
    <2> QED
      BY <1>1, <2>1, <2>2 DEF CaInv, CaTypes
  <1>6. IssuanceSound'
    BY <1>1, IssuedStays DEF CaInv
  <1>7. ManifestsTrue'
    <2>1. "manifest" \in caFiles' \ caDoubled' => CaIdentity \subseteq caFiles' \ caDoubled'
      BY <1>1, <1>2, <1>3, <1>4 DEF CaInv, ManifestsTrue, InitTrue, CaIdentity
    <2> QED
      BY <1>1, <2>1, CopiesStay DEF CaInv
  <1>8. PlanTrue'
    <2>1. CASE n = 1
      BY <1>2, <2>1, NoPlan
    <2>2. CASE n > 1
      <3>1. caOp' \in InitOps /\ Len(caOp'.todo) = n - 1
        BY <1>2, <2>2
      <3>2. /\ caDoubled' \cap CaIdentity = {}
            /\ n - 1 <= 3 => "key" \in caFiles'
            /\ n - 1 <= 2 => "cert" \in caFiles'
            /\ n - 1 >= 2 => "manifest" \notin caFiles'
        BY <1>1, <1>2, <1>3, <1>4, <2>2 DEF InitTrue
      <3>3. InitTrue(n - 1)'
        BY <3>2 DEF InitTrue
      <3> QED
        BY <3>1, <3>3, PlansApart DEF PlanTrue
    <2> QED BY <2>1, <2>2
  <1> QED
    BY <1>5, <1>6, <1>7, <1>8 DEF CaInv

(* A file of the CA that nobody can read was the last of its plan. *)
LEMMA CaFileDoubledStep ==
    ASSUME CaInv, NEW f \in CaIdentity \cup {"journal"}, CaFileDoubled(f)
    PROVE  CaInv'
  <1>1. /\ ComesNext("ca", f) /\ caOp' = CaIdle
        /\ caFiles' = caFiles \cup {f} /\ caDoubled' = caDoubled \cup {f}
        /\ UNCHANGED <<caManifest, issuance, cut, delivered, profile>>
    BY DEF CaFileDoubled, EndsEarly
  <1>2. PICK n \in 1..4 :
              /\ caOp \in InitOps /\ Len(caOp.todo) = n
              /\ f = <<"journal", "manifest", "cert", "key">>[n]
    BY <1>1, InitAdvances DEF CaInv
  <1>3. InitTrue(n)
    BY <1>2 DEF CaInv, PlanTrue
  <1>4. n = 1 \/ n = 2 \/ n = 3 \/ n = 4
    OBVIOUS
  <1>5. CaTypes'
    <2>1. caFiles' \subseteq {"key", "cert", "manifest", "journal"} /\ caDoubled' \subseteq caFiles'
      BY <1>1 DEF CaInv, CaTypes, CaIdentity
    <2> QED
      BY <1>1, <2>1 DEF CaInv, CaTypes
  <1>6. ManifestsTrue'
    <2>1. "manifest" \in caFiles' \ caDoubled' => CaIdentity \subseteq caFiles' \ caDoubled'
      BY <1>1, <1>2, <1>3, <1>4 DEF CaInv, ManifestsTrue, InitTrue, CaIdentity
    <2> QED
      BY <1>1, <2>1, CopiesStay DEF CaInv
  <1> QED
    BY <1>1, <1>5, <1>6, IssuedStays, NoPlan DEF CaInv

(* An issue takes the manifest's next serial. *)
LEMMA IssueStep ==
    ASSUME CaInv, NEW d \in Deliveries, NEW c \in Certs, IssueClientBundle(d, c)
    PROVE  CaInv'
  <1>1. /\ delivered[d].files = {}
        /\ caOp' = [todo |-> IssueSteps, dir |-> d, cert |-> c, serial |-> caManifest.next]
        /\ UNCHANGED <<caFileVars, delivered, profile>>
    BY DEF IssueClientBundle
  <1>2. /\ caOp' \in IssueOps /\ Len(caOp'.todo) = 5
        /\ caOp'.dir = d /\ caOp'.serial = caManifest.next
    <2>1. IssueSteps = Rest(IssueSteps, 5)
      BY Plans, WholePlan
    <2>2. IssueSteps \in {Rest(IssueSteps, n) : n \in 1..5}
      BY <2>1
    <2>3. caManifest.next \in Nat
      BY DEF CaInv, CaTypes
    <2> QED
      BY <1>1, <2>2, <2>3, Plans DEF IssueOps
  <1>3. IssueTrue(5)'
    <2>1. delivered[d].doubled = {}
      BY <1>1 DEF CaInv, CaTypes
    <2>2. \A i \in ReadableLines : issuance[i].serial < caManifest.next
      BY DEF CaInv, IssuanceSound
    <2> QED
      BY <1>1, <1>2, <2>1, <2>2 DEF IssueTrue, ReadableLines, caFileVars
  <1>4. PlanTrue'
    BY <1>2, <1>3, PlansApart DEF PlanTrue
  <1>5. CaTypes'
    BY <1>1, <1>2 DEF CaInv, CaTypes, caFileVars
  <1> QED
    BY <1>1, <1>4, <1>5, VouchedStays DEF CaInv

(* A provisioning begins from a whole bundle. *)
LEMMA ProvisionStep ==
    ASSUME CaInv, NEW p \in Profiles, NEW d \in Deliveries, ProvisionProfile(p, d)
    PROVE  CaInv'
  <1>1. /\ profile[p].files = {} /\ VerifyClientBundle(d)
        /\ caOp' = [todo |-> ProfileSteps, dir |-> p, cert |-> delivered[d].cert,
                    serial |-> delivered[d].serial]
        /\ UNCHANGED <<caFileVars, delivered, profile>>
    BY DEF ProvisionProfile
  <1>2. delivered[d].cert \in Certs /\ delivered[d].serial \in Nat
    <2>1. delivered[d].files # {}
      BY <1>1, FileSets DEF VerifyClientBundle, Legible
    <2>2. delivered[d] \in Directory(Bundle)
      BY DEF CaInv, CaTypes
    <2> QED
      BY <2>1, <2>2 DEF CaInv, CaTypes, Directory
  <1>3. /\ caOp' \in ProfileOps /\ Len(caOp'.todo) = 5 /\ caOp'.dir = p
        /\ caOp'.cert = delivered[d].cert /\ caOp'.serial = delivered[d].serial
    <2>1. ProfileSteps = Rest(ProfileSteps, 5)
      BY Plans, WholePlan
    <2>2. ProfileSteps \in {Rest(ProfileSteps, n) : n \in 1..5}
      BY <2>1
    <2> QED
      BY <1>1, <1>2, <2>2, Plans DEF ProfileOps
  <1>4. ProfileTrue(5)'
    <2>1. profile[p].doubled = {}
      BY <1>1 DEF CaInv, CaTypes
    <2>2. ProfileBefore(5) = {}
      BY DEF ProfileBefore, Profile
    <2>3. Delivered(caOp.cert, caOp.serial)'
      BY <1>1, <1>3 DEF Delivered, VerifyClientBundle, Legible
    <2> QED
      BY <1>1, <1>3, <2>1, <2>2, <2>3 DEF ProfileTrue, ProfileBefore
  <1>5. PlanTrue'
    BY <1>3, <1>4, PlansApart DEF PlanTrue
  <1>6. CaTypes'
    BY <1>1, <1>3 DEF CaInv, CaTypes, caFileVars
  <1> QED
    BY <1>1, <1>5, <1>6, VouchedStays DEF CaInv

(* A bundle grows by one file, readable or not, and no whole bundle changes. *)
LEMMA BundleGrows ==
    ASSUME CaInv, NEW f \in Range(BundleFiles), ComesNext("deliver", f), NEW doubled \in {{}, {f}},
           delivered' = [delivered EXCEPT ![caOp.dir] = With(@, f, doubled)],
           UNCHANGED <<caFileVars, profile>>
    PROVE  /\ caOp \in IssueOps /\ caOp.dir \in Deliveries
           /\ \E n \in 3..5 :
                 /\ Len(caOp.todo) = n
                 /\ delivered'[caOp.dir].files =
                       IF n = 3 THEN Bundle ELSE IF n = 4 THEN {"cert", "bundle"} ELSE {"cert"}
           /\ delivered'[caOp.dir].doubled = doubled
           /\ delivered'[caOp.dir].cert = caOp.cert /\ delivered'[caOp.dir].serial = caOp.serial
           /\ delivered' \in [Deliveries -> Directory(Bundle)]
           /\ \A x \in Deliveries :
                 /\ delivered'[x].files # {} => delivered'[x].cert \in Certs
                 /\ delivered'[x].doubled \subseteq delivered'[x].files
           /\ IssuanceSound' /\ ManifestsTrue'
  <1>1. PICK n \in 1..5 :
              /\ caOp \in IssueOps /\ Len(caOp.todo) = n /\ n >= 3
              /\ f = <<"journal", "counters", "manifest", "bundle", "cert">>[n]
    BY IssueAdvances DEF CaInv
  <1>2. n = 3 \/ n = 4 \/ n = 5
    BY <1>1
  <1>3. PICK d \in Deliveries : d = caOp.dir
    BY <1>1 DEF IssueOps
  <1>4. PICK c \in Certs : c = caOp.cert
    BY <1>1 DEF IssueOps
  <1>5. PICK s \in Nat : s = caOp.serial
    BY <1>1 DEF IssueOps
  <1>6. f = IF n = 3 THEN "manifest" ELSE IF n = 4 THEN "bundle" ELSE "cert"
    BY <1>1, <1>2
  <1>7. /\ delivered[d].files =
              IF n = 3 THEN {"cert", "bundle"} ELSE IF n = 4 THEN {"cert"} ELSE {}
        /\ delivered[d].doubled = {}
    <2>1. IssueTrue(n)
      BY <1>1 DEF CaInv, PlanTrue
    <2> QED
      BY <1>2, <1>3, <2>1 DEF IssueTrue, Bundle
  <1>8. delivered \in [Deliveries -> Directory(Bundle)]
    BY DEF CaInv, CaTypes
  <1>9. /\ delivered'[d] = [files |-> delivered[d].files \cup {f}, doubled |-> doubled,
                            cert |-> c, serial |-> s]
        /\ \A x \in Deliveries \ {d} : delivered'[x] = delivered[x]
        /\ DOMAIN delivered' = Deliveries
    <2>1. delivered'[d] = With(delivered[d], f, doubled)
      BY <1>3, <1>8
    <2>2. delivered[d].doubled \cup doubled = doubled
      BY <1>7
    <2>3. delivered'[d] = [files |-> delivered[d].files \cup {f},
                           doubled |-> delivered[d].doubled \cup doubled,
                           cert |-> c, serial |-> s]
      BY <1>4, <1>5, <2>1 DEF With
    <2> QED
      BY <1>3, <1>8, <2>2, <2>3
  <1>10. delivered[d].files \cup {f} =
             IF n = 3 THEN Bundle ELSE IF n = 4 THEN {"cert", "bundle"} ELSE {"cert"}
    BY <1>2, <1>6, <1>7 DEF Bundle
  <1>11. /\ delivered'[d].files =
              IF n = 3 THEN Bundle ELSE IF n = 4 THEN {"cert", "bundle"} ELSE {"cert"}
         /\ delivered'[d].doubled = doubled
         /\ delivered'[d].cert = c /\ delivered'[d].serial = s
    BY <1>9, <1>10
  <1>12. doubled \subseteq delivered'[d].files
    BY <1>9
  <1>13. delivered'[d] \in Directory(Bundle)
    <2>1. delivered'[d].files \subseteq Bundle
      BY <1>11 DEF Bundle
    <2>2. doubled \subseteq Bundle
      BY <1>12, <2>1
    <2>3. delivered'[d] = [files |-> delivered'[d].files, doubled |-> doubled,
                           cert |-> c, serial |-> s]
      BY <1>9
    <2> QED
      BY <2>1, <2>2, <2>3 DEF Directory
  <1>14. delivered' \in [Deliveries -> Directory(Bundle)]
    <2>1. \A x \in Deliveries : delivered'[x] \in Directory(Bundle)
      BY <1>8, <1>9, <1>13
    <2>2. delivered' = [x \in Deliveries |-> delivered'[x]]
      BY <1>8
    <2> QED
      BY <2>1, <2>2
  <1>15. ~VerifyClientBundle(d)
    BY <1>2, <1>7, FileSets DEF VerifyClientBundle, Legible
  <1>16. \A x \in Deliveries : VerifyClientBundle(x) =>
             VerifyClientBundle(x)' /\ delivered'[x] = delivered[x]
    <2>1. \A x \in Deliveries \ {d} : VerifyClientBundle(x) => VerifyClientBundle(x)'
      BY <1>9 DEF VerifyClientBundle
    <2> QED
      BY <1>9, <1>15, <2>1
  <1>17. IssuanceSound'
    <2>1. UNCHANGED <<caManifest, issuance>> /\ ReadableLines' = ReadableLines
      BY DEF caFileVars, ReadableLines
    <2>2. ASSUME NEW i \in ReadableLines
          PROVE  \E x \in Deliveries : /\ VerifyClientBundle(x)'
                                       /\ delivered'[x].cert = issuance[i].cert
                                       /\ delivered'[x].serial = issuance[i].serial
      BY <1>16 DEF CaInv, IssuanceSound
    <2> QED
      BY <2>1, <2>2 DEF CaInv, IssuanceSound
  <1>18. ManifestsTrue'
    <2>1. "manifest" \in Legible(delivered'[d]) => VerifyClientBundle(d)'
      <3>1. CASE doubled = {}
        <4>1. "manifest" \in delivered'[d].files => n = 3
          BY <1>2, <1>11
        <4>2. n = 3 => Legible(delivered'[d]) = Bundle
          BY <1>11, <3>1 DEF Legible
        <4>3. Range(BundleFiles) = Bundle
          BY FileSets DEF Bundle
        <4>4. VerifyClientBundle(d)' <=> Legible(delivered'[d]) = Range(BundleFiles)
          BY DEF VerifyClientBundle, Legible
        <4> QED
          BY <4>1, <4>2, <4>3, <4>4 DEF Legible
      <3>2. CASE doubled = {f}
        BY <1>2, <1>6, <1>11, <3>2 DEF Legible, Bundle
      <3> QED BY <3>1, <3>2
    <2>2. \A x \in Deliveries : "manifest" \in Legible(delivered'[x]) => VerifyClientBundle(x)'
      BY <1>9, <1>16, <2>1 DEF CaInv, ManifestsTrue
    <2>3. \A p \in Profiles, x \in Deliveries : VerifyProfile(p, x) => VerifyProfile(p, x)'
      BY <1>16 DEF VerifyProfile
    <2>4. UNCHANGED <<caFiles, caDoubled, profile>>
      BY DEF caFileVars
    <2> QED
      BY <2>2, <2>3, <2>4 DEF CaInv, ManifestsTrue, Legible
  <1>19. \A x \in Deliveries :
             /\ delivered'[x].files # {} => delivered'[x].cert \in Certs
             /\ delivered'[x].doubled \subseteq delivered'[x].files
    BY <1>9, <1>11, <1>12 DEF CaInv, CaTypes
  <1> QED
    BY <1>1, <1>2, <1>3, <1>4, <1>5, <1>11, <1>14, <1>17, <1>18, <1>19

(* The bundle's next file is there. *)
LEMMA BundleFileStep ==
    ASSUME CaInv, NEW f \in Range(BundleFiles), BundleFileWritten(f)
    PROVE  CaInv'
  <1>1. /\ Writes("deliver", f) /\ UNCHANGED <<caFileVars, profile>>
        /\ delivered' = [delivered EXCEPT ![caOp.dir] = With(@, f, {})]
    BY DEF BundleFileWritten
  <1>2. PICK n \in 3..5 :
              /\ Len(caOp.todo) = n
              /\ delivered'[caOp.dir].files =
                    IF n = 3 THEN Bundle ELSE IF n = 4 THEN {"cert", "bundle"} ELSE {"cert"}
              /\ delivered'[caOp.dir].doubled = {}
              /\ delivered'[caOp.dir].cert = caOp.cert
              /\ delivered'[caOp.dir].serial = caOp.serial
    BY <1>1, BundleGrows DEF Writes
  <1>3. /\ caOp \in IssueOps /\ caOp' \in IssueOps /\ Len(caOp'.todo) = n - 1
        /\ caOp'.dir = caOp.dir /\ caOp'.cert = caOp.cert /\ caOp'.serial = caOp.serial
    <2>1. ComesNext("deliver", f) /\ CaTypes
      BY <1>1 DEF Writes, CaInv
    <2>2. PICK m \in 1..5 :
              /\ caOp \in IssueOps /\ Len(caOp.todo) = m
              /\ m > 1 => /\ caOp' \in IssueOps /\ Len(caOp'.todo) = m - 1
                          /\ caOp'.dir = caOp.dir /\ caOp'.cert = caOp.cert
                          /\ caOp'.serial = caOp.serial
      BY <1>1, <2>1, IssueAdvances
    <2>3. m = n /\ n > 1
      BY <1>2, <2>2
    <2> QED
      BY <2>2, <2>3
  <1>4. IssueTrue(n) /\ UNCHANGED <<caManifest, issuance>> /\ ReadableLines' = ReadableLines
    BY <1>1, <1>2, <1>3 DEF CaInv, PlanTrue, caFileVars, ReadableLines
  <1>5. IssueTrue(n - 1)'
    <2>1. n = 3 \/ n = 4 \/ n = 5
      OBVIOUS
    <2>2. delivered'[caOp'.dir].files =
            {g \in Bundle : \/ (g = "cert" /\ n - 1 <= 4) \/ (g = "bundle" /\ n - 1 <= 3)
                            \/ n - 1 <= 2}
      BY <1>2, <1>3, <2>1 DEF Bundle
    <2>3. caManifest'.next = caOp'.serial /\ n - 1 # 1
      BY <1>3, <1>4, <2>1 DEF IssueTrue
    <2>4. \A i \in ReadableLines' : issuance'[i].serial < caOp'.serial
      BY <1>3, <1>4 DEF IssueTrue
    <2> QED
      BY <1>2, <1>3, <2>2, <2>3, <2>4 DEF IssueTrue
  <1>6. PlanTrue'
    BY <1>3, <1>5, PlansApart DEF PlanTrue
  <1>7. CaTypes'
    <2>1. /\ delivered' \in [Deliveries -> Directory(Bundle)]
          /\ \A x \in Deliveries :
                /\ delivered'[x].files # {} => delivered'[x].cert \in Certs
                /\ delivered'[x].doubled \subseteq delivered'[x].files
      BY <1>1, BundleGrows DEF Writes
    <2> QED
      BY <1>1, <1>3, <2>1 DEF CaInv, CaTypes, caFileVars
  <1> QED
    BY <1>1, <1>6, <1>7, BundleGrows DEF CaInv, Writes

(* A bundle whose last file nobody can read. *)
LEMMA BundleDoubledStep ==
    ASSUME CaInv, NEW f \in Range(BundleFiles), BundleFileDoubled(f)
    PROVE  CaInv'
  <1>1. /\ ComesNext("deliver", f) /\ caOp' = CaIdle /\ UNCHANGED <<caFileVars, profile>>
        /\ delivered' = [delivered EXCEPT ![caOp.dir] = With(@, f, {f})]
    BY DEF BundleFileDoubled, EndsEarly
  <1>2. /\ delivered' \in [Deliveries -> Directory(Bundle)]
        /\ \A x \in Deliveries :
              /\ delivered'[x].files # {} => delivered'[x].cert \in Certs
              /\ delivered'[x].doubled \subseteq delivered'[x].files
        /\ IssuanceSound' /\ ManifestsTrue'
    BY <1>1, BundleGrows
  <1>3. CaTypes'
    BY <1>1, <1>2 DEF CaInv, CaTypes, caFileVars
  <1> QED
    BY <1>1, <1>2, <1>3, NoPlan DEF CaInv

(* The counters move past the serial before the journal has it. *)
LEMMA CountersStep == ASSUME CaInv, CountersWritten PROVE CaInv'
  <1>1. /\ caOp \in IssueOps /\ Len(caOp.todo) = 2 /\ caOp.serial \in Nat
        /\ caOp' \in IssueOps /\ Len(caOp'.todo) = 1
        /\ caOp'.dir = caOp.dir /\ caOp'.cert = caOp.cert /\ caOp'.serial = caOp.serial
    <2>1. Writes("issue", "counters") /\ ComesNext("issue", "counters")
      BY DEF CountersWritten, Writes
    <2>2. PICK n \in 1..5 :
              /\ caOp \in IssueOps /\ Len(caOp.todo) = n
              /\ "counters" = <<"journal", "counters", "manifest", "bundle", "cert">>[n]
              /\ n > 1 => /\ caOp' \in IssueOps /\ Len(caOp'.todo) = n - 1
                          /\ caOp'.dir = caOp.dir /\ caOp'.cert = caOp.cert
                          /\ caOp'.serial = caOp.serial
      BY <2>1, IssueAdvances DEF CaInv
    <2>3. n = 2
      <3>1. n = 1 \/ n = 2 \/ n = 3 \/ n = 4 \/ n = 5
        OBVIOUS
      <3> QED BY <2>2, <3>1
    <2> QED
      BY <2>2, <2>3 DEF IssueOps
  <1>2. /\ caManifest' = [next |-> caOp.serial + 1, count |-> caManifest.count + 1]
        /\ UNCHANGED <<caFiles, caDoubled, issuance, cut, delivered, profile>>
    BY DEF CountersWritten
  <1>3. IssueTrue(2)
    BY <1>1 DEF CaInv, PlanTrue
  <1>4. /\ caManifest \in [next : Nat, count : Nat] /\ Len(issuance) \in Nat
        /\ \A i \in ReadableLines : issuance[i].serial \in Nat
    <2>1. issuance \in Seq(Line)
      BY DEF CaInv, CaTypes
    <2>2. \A i \in DOMAIN issuance : issuance[i] \in Line
      BY <2>1, Elements
    <2> QED
      BY <2>1, <2>2 DEF CaInv, CaTypes, ReadableLines, Line
  <1>5. CaTypes'
    BY <1>1, <1>2, <1>4 DEF CaInv, CaTypes
  <1>6. caManifest'.next = caManifest.next + 1 /\ caManifest'.count = caManifest.count + 1
          /\ caManifest.next = caOp.serial
    BY <1>2, <1>3 DEF IssueTrue
  <1>7. IssuanceSound'
    <2>1. \A i \in ReadableLines : issuance[i].serial < caManifest'.next
      BY <1>4, <1>6 DEF CaInv, IssuanceSound
    <2>2. Len(issuance) <= caManifest'.count /\ Len(issuance) < caManifest'.count
      BY <1>4, <1>6 DEF CaInv, IssuanceSound
    <2>3. ReadableLines' = ReadableLines
      BY <1>2 DEF ReadableLines
    <2> QED
      BY <1>2, <2>1, <2>2, <2>3 DEF CaInv, IssuanceSound, VerifyClientBundle, Legible
  <1>8. ManifestsTrue'
    BY <1>2, CopiesStay DEF CaInv, ManifestsTrue
  <1>9. IssueTrue(1)'
    <2>1. Len(issuance) < caManifest'.count
      BY <1>4, <1>6 DEF CaInv, IssuanceSound
    <2>2. ReadableLines' = ReadableLines
      BY <1>2 DEF ReadableLines
    <2> QED
      BY <1>1, <1>2, <1>3, <1>6, <2>1, <2>2 DEF IssueTrue
  <1>10. PlanTrue'
    BY <1>1, <1>9, PlansApart DEF PlanTrue
  <1> QED
    BY <1>5, <1>7, <1>8, <1>10 DEF CaInv

(* The bytes of a line: a line of their own, or the end of the cut one. *)
LEMMA LineAppended ==
    ASSUME CaTypes, NEW line \in Line, issuance' = Appended(line)
    PROVE  /\ issuance' \in Seq(Line) /\ Len(issuance') <= Len(issuance) + 1
           /\ \A i \in ReadableLines' :
                 \/ i \in ReadableLines /\ issuance'[i] = issuance[i]
                 \/ ~cut /\ i = Len(issuance) + 1 /\ issuance'[i] = line
           /\ \A i \in ReadableLines : i \in 1..Len(issuance)
  <1>1. /\ issuance \in Seq(Line) /\ Len(issuance) \in Nat
        /\ DOMAIN issuance = 1..Len(issuance)
    BY DEF CaTypes
  <1>2. Garbled \in Line
    BY DEF Garbled, Line
  <1>3. \A i \in ReadableLines : i \in 1..Len(issuance)
    BY <1>1 DEF ReadableLines
  <1>4. ASSUME cut
        PROVE  /\ issuance' \in Seq(Line) /\ Len(issuance') = Len(issuance)
               /\ \A i \in ReadableLines' : i \in ReadableLines /\ issuance'[i] = issuance[i]
    <2>1. issuance' = [issuance EXCEPT ![Len(issuance)] = Garbled]
      BY <1>4 DEF Appended
    <2>2. PICK g \in Line : g = Garbled
      BY <1>2
    <2>3. issuance' = [issuance EXCEPT ![Len(issuance)] = g]
      BY <2>1, <2>2
    <2>4. \A i \in DOMAIN issuance : issuance[i] \in Line
      BY <1>1, Elements
    <2>5. PICK n \in Nat : n = Len(issuance)
      BY <1>1
    <2>6. /\ DOMAIN issuance' = 1..n
          /\ \A i \in 1..n : issuance'[i] = IF i = n THEN g ELSE issuance[i]
      BY <1>1, <2>3, <2>5
    <2>7. issuance' = [i \in 1..n |-> issuance'[i]] /\ \A i \in 1..n : issuance'[i] \in Line
      <3>1. issuance' = [i \in 1..n |-> issuance'[i]]
        BY <1>1, <2>3, <2>5
      <3>2. \A i \in 1..n : issuance'[i] \in Line
        BY <1>1, <2>4, <2>5, <2>6
      <3> QED BY <3>1, <3>2
    <2>8. issuance' \in Seq(Line) /\ Len(issuance') = n
      <3>1. issuance' \in [1..n -> Line]
        BY <2>7
      <3> QED BY <3>1, SequenceOf
    <2>9. \A i \in ReadableLines' : i \in ReadableLines /\ issuance'[i] = issuance[i]
      <3>1. \A i \in ReadableLines' : i \in 1..n /\ issuance'[i] # g
        BY <2>2, <2>6 DEF ReadableLines, Garbled
      <3> QED
        BY <1>1, <2>2, <2>5, <2>6, <3>1 DEF ReadableLines
    <2> QED
      BY <2>5, <2>8, <2>9
  <1>5. ASSUME ~cut
        PROVE  /\ issuance' \in Seq(Line) /\ Len(issuance') = Len(issuance) + 1
               /\ \A i \in ReadableLines' :
                     \/ i \in ReadableLines /\ issuance'[i] = issuance[i]
                     \/ i = Len(issuance) + 1 /\ issuance'[i] = line
    <2>1. issuance' = Append(issuance, line)
      BY <1>5 DEF Appended
    <2>2. /\ issuance' \in Seq(Line) /\ Len(issuance') = Len(issuance) + 1
          /\ DOMAIN issuance' = 1..(Len(issuance) + 1)
          /\ \A i \in 1..Len(issuance) : issuance'[i] = issuance[i]
          /\ issuance'[Len(issuance) + 1] = line
      BY <1>1, <2>1
    <2>3. ASSUME NEW i \in ReadableLines', i # Len(issuance) + 1
          PROVE  i \in ReadableLines /\ issuance'[i] = issuance[i]
      <3>1. i \in 1..(Len(issuance) + 1) /\ issuance'[i] # Garbled
        BY <2>2 DEF ReadableLines, Garbled
      <3>2. i \in 1..Len(issuance)
        BY <1>1, <2>3, <3>1
      <3> QED
        BY <1>1, <2>2, <3>1, <3>2 DEF ReadableLines
    <2> QED
      BY <2>2, <2>3
  <1> QED
    BY <1>1, <1>3, <1>4, <1>5

(* The journal's turn in an issue: its bundle is whole and its serial new. *)
LEMMA JournalNext ==
    ASSUME CaInv, ComesNext("issue", "journal")
    PROVE  /\ caOp \in IssueOps /\ Len(caOp.todo) = 1
           /\ caOp.dir \in Deliveries /\ Issued \in Line /\ Issued # Garbled
           /\ VerifyClientBundle(caOp.dir)
           /\ delivered[caOp.dir].cert = Issued.cert
           /\ delivered[caOp.dir].serial = Issued.serial
           /\ caManifest.next = Issued.serial + 1 /\ Len(issuance) < caManifest.count
           /\ \A i \in ReadableLines : issuance[i].serial < Issued.serial
  <1>1. PICK n \in 1..5 :
            /\ caOp \in IssueOps /\ Len(caOp.todo) = n
            /\ "journal" = <<"journal", "counters", "manifest", "bundle", "cert">>[n]
    BY IssueAdvances DEF CaInv
  <1>2. n = 1
    <2>1. n = 1 \/ n = 2 \/ n = 3 \/ n = 4 \/ n = 5
      OBVIOUS
    <2> QED BY <1>1, <2>1
  <1>3. caOp.dir \in Deliveries /\ caOp.serial \in Nat /\ caOp.cert \in Certs
    BY <1>1 DEF IssueOps
  <1>4. IssueTrue(1)
    BY <1>1, <1>2 DEF CaInv, PlanTrue
  <1>5. Issued.serial = caOp.serial /\ Issued.cert = caOp.cert /\ Issued \in Line
    BY <1>3 DEF Issued, Line
  <1>6. Issued # Garbled
    BY <1>3, <1>5, CredentialConfiguration DEF Garbled
  <1>7. VerifyClientBundle(caOp.dir)
    <2>1. delivered[caOp.dir].files = Bundle /\ delivered[caOp.dir].doubled = {}
      BY <1>4 DEF IssueTrue, Bundle
    <2> QED
      BY <2>1, FileSets DEF VerifyClientBundle, Legible, Bundle
  <1> QED
    BY <1>1, <1>2, <1>3, <1>4, <1>5, <1>6, <1>7 DEF IssueTrue

(* One line more, whole, cut or garbled, keeps the journal sound. *)
LEMMA JournalGrows ==
    ASSUME CaInv, ComesNext("issue", "journal"), NEW line \in {Issued, Garbled},
           issuance' = Appended(line), caOp' = CaIdle, caFiles' = caFiles \cup {"journal"},
           UNCHANGED <<caDoubled, caManifest, delivered, profile>>
    PROVE  CaInv'
  <1>1. /\ caOp.dir \in Deliveries /\ Issued \in Line
        /\ VerifyClientBundle(caOp.dir)
        /\ delivered[caOp.dir].cert = Issued.cert
        /\ delivered[caOp.dir].serial = Issued.serial
        /\ caManifest.next = Issued.serial + 1 /\ Len(issuance) < caManifest.count
        /\ \A i \in ReadableLines : issuance[i].serial < Issued.serial
    BY JournalNext
  <1>2. line \in Line
    BY <1>1 DEF Garbled, Line
  <1>3. /\ issuance' \in Seq(Line) /\ Len(issuance') <= Len(issuance) + 1
        /\ \A i \in ReadableLines' :
              \/ i \in ReadableLines /\ issuance'[i] = issuance[i]
              \/ ~cut /\ i = Len(issuance) + 1 /\ issuance'[i] = line
        /\ \A i \in ReadableLines : i \in 1..Len(issuance)
    BY <1>2, LineAppended DEF CaInv
  <1>4. /\ Len(issuance) \in Nat /\ Len(issuance') \in Nat
        /\ caManifest \in [next : Nat, count : Nat]
    BY <1>3 DEF CaInv, CaTypes
  <1>5. ASSUME NEW i \in ReadableLines'
        PROVE  \/ i \in ReadableLines /\ issuance'[i] = issuance[i]
               \/ i = Len(issuance) + 1 /\ issuance'[i] = Issued
    <2>1. issuance'[i] # Garbled
      BY DEF ReadableLines, Garbled
    <2> QED
      BY <1>3, <2>1
  <1>6. CaTypes'
    <2>1. caFiles' \subseteq {"key", "cert", "manifest", "journal"} /\ caDoubled' \subseteq caFiles'
      BY DEF CaInv, CaTypes
    <2> QED
      BY <1>3, <2>1 DEF CaInv, CaTypes
  <1>7. ASSUME NEW i \in ReadableLines', NEW j \in ReadableLines', i < j
        PROVE  issuance'[i].serial < issuance'[j].serial
    <2>1. CASE j = Len(issuance) + 1 /\ issuance'[j] = Issued
      <3>1. i \in ReadableLines /\ issuance'[i] = issuance[i]
        BY <1>4, <1>5, <1>7, <2>1
      <3> QED BY <1>1, <2>1, <3>1
    <2>2. CASE j \in ReadableLines /\ issuance'[j] = issuance[j]
      <3>1. i # Len(issuance) + 1
        BY <1>3, <1>4, <1>7, <2>2
      <3>2. i \in ReadableLines /\ issuance'[i] = issuance[i]
        BY <1>5, <3>1
      <3> QED BY <1>7, <2>2, <3>2 DEF CaInv, IssuanceSound
    <2> QED BY <1>5, <2>1, <2>2
  <1>8. ASSUME NEW i \in ReadableLines'
        PROVE  /\ issuance'[i].serial < caManifest.next
               /\ \E d \in Deliveries : /\ VerifyClientBundle(d)
                                        /\ delivered[d].cert = issuance'[i].cert
                                        /\ delivered[d].serial = issuance'[i].serial
    <2>1. CASE issuance'[i] = Issued
      <3>1. Issued.serial < caManifest.next
        BY <1>1 DEF Line
      <3> QED BY <1>1, <2>1, <3>1
    <2>2. CASE i \in ReadableLines /\ issuance'[i] = issuance[i]
      BY <2>2 DEF CaInv, IssuanceSound
    <2> QED BY <1>5, <2>1, <2>2
  <1>9. IssuanceSound'
    <2>1. Len(issuance') <= caManifest.count
      BY <1>1, <1>3, <1>4
    <2>2. caManifest' = caManifest /\ \A d \in Deliveries : VerifyClientBundle(d)' <=> VerifyClientBundle(d)
      BY DEF VerifyClientBundle, Legible
    <2> QED
      BY <1>7, <1>8, <2>1, <2>2 DEF IssuanceSound
  <1>10. ManifestsTrue'
    <2>1. "manifest" \in caFiles' \ caDoubled' => CaIdentity \subseteq caFiles' \ caDoubled'
      BY DEF CaInv, ManifestsTrue
    <2> QED
      BY <2>1, CopiesStay DEF CaInv
  <1> QED
    BY <1>6, <1>9, <1>10, NoPlan DEF CaInv

(* The line is of the bundle just delivered. *)
LEMMA IssuanceAppendStep == ASSUME CaInv, IssuanceAppended PROVE CaInv'
  <1>1. ComesNext("issue", "journal") /\ Writes("issue", "journal")
    BY DEF IssuanceAppended, Writes
  <1>2. caOp' = CaIdle
    BY <1>1, JournalNext DEF Writes
  <1> QED
    BY <1>1, <1>2, JournalGrows DEF IssuanceAppended

(* The line was cut short. *)
LEMMA IssuanceCutStep == ASSUME CaInv, IssuanceCut PROVE CaInv'
  BY JournalGrows DEF IssuanceCut, EndsEarly

(* A profile grows by one file, readable or not. *)
LEMMA ProfileGrows ==
    ASSUME CaInv, NEW f \in Range(ProfileFiles), ComesNext("profile", f),
           NEW doubled \in {{}, {f}},
           profile' = [profile EXCEPT ![caOp.dir] = With(@, f, doubled)],
           UNCHANGED <<caFileVars, delivered>>
    PROVE  /\ caOp \in ProfileOps /\ caOp.dir \in Profiles
           /\ \E n \in 1..5 :
                 /\ Len(caOp.todo) = n
                 /\ n > 1 => profile'[caOp.dir].files = ProfileBefore(n - 1)
           /\ profile'[caOp.dir].doubled = doubled
           /\ Delivered(caOp.cert, caOp.serial)
           /\ profile' \in [Profiles -> Directory(Profile)]
           /\ \A x \in Profiles : profile'[x].doubled \subseteq profile'[x].files
           /\ IssuanceSound' /\ ManifestsTrue'
  <1>1. PICK n \in 1..5 :
              /\ caOp \in ProfileOps /\ Len(caOp.todo) = n
              /\ f = <<"manifest", "user_js", "client_key", "root_ca", "nss">>[n]
    BY ProfileAdvances DEF CaInv
  <1>2. n = 1 \/ n = 2 \/ n = 3 \/ n = 4 \/ n = 5
    OBVIOUS
  <1>3. PICK p \in Profiles : p = caOp.dir
    BY <1>1 DEF ProfileOps
  <1>4. PICK c \in Certs : c = caOp.cert
    BY <1>1 DEF ProfileOps
  <1>5. PICK s \in Nat : s = caOp.serial
    BY <1>1 DEF ProfileOps
  <1>6. f = IF n = 1 THEN "manifest" ELSE IF n = 2 THEN "user_js"
            ELSE IF n = 3 THEN "client_key" ELSE IF n = 4 THEN "root_ca" ELSE "nss"
    BY <1>1, <1>2
  <1>7. /\ profile[p].files = ProfileBefore(n) /\ profile[p].doubled = {}
        /\ Delivered(c, s)
    BY <1>1, <1>3, <1>4, <1>5 DEF CaInv, PlanTrue, ProfileTrue
  <1>8. profile \in [Profiles -> Directory(Profile)]
    BY DEF CaInv, CaTypes
  <1>9. /\ profile'[p] = [files |-> profile[p].files \cup {f}, doubled |-> doubled,
                          cert |-> c, serial |-> s]
        /\ \A x \in Profiles \ {p} : profile'[x] = profile[x]
    <2>1. profile'[p] = With(profile[p], f, doubled)
      BY <1>3, <1>8
    <2>2. profile[p].doubled \cup doubled = doubled
      BY <1>7
    <2>3. profile'[p] = [files |-> profile[p].files \cup {f},
                         doubled |-> profile[p].doubled \cup doubled,
                         cert |-> c, serial |-> s]
      BY <1>4, <1>5, <2>1 DEF With
    <2> QED
      BY <1>3, <1>8, <2>2, <2>3
  <1>10. profile'[p].files = IF n = 1 THEN Profile ELSE ProfileBefore(n - 1)
    <2>1. ProfileBefore(n) \cup {f} = IF n = 1 THEN Profile ELSE ProfileBefore(n - 1)
      BY <1>2, <1>6 DEF ProfileBefore, Profile
    <2>2. profile'[p].files = profile[p].files \cup {f}
      BY <1>9
    <2> QED
      BY <1>7, <2>1, <2>2
  <1>11. "manifest" \in profile[p].files \cup {f} => n = 1
    BY <1>2, <1>6, <1>7 DEF ProfileBefore
  <1>12. profile' \in [Profiles -> Directory(Profile)]
    <2>1. f \in Profile
      BY FileSets DEF Profile
    <2>2. profile[p].files \subseteq Profile
      BY <1>7 DEF ProfileBefore
    <2>3. profile'[p] \in Directory(Profile)
      BY <1>9, <2>1, <2>2 DEF Directory
    <2>4. \A x \in Profiles : profile'[x] \in Directory(Profile)
      BY <1>8, <1>9, <2>3
    <2>5. profile' = [x \in Profiles |-> profile'[x]]
      BY <1>8
    <2> QED
      BY <2>4, <2>5
  <1>13. \A x \in Profiles : profile'[x].doubled \subseteq profile'[x].files
    BY <1>9 DEF CaInv, CaTypes
  <1>14. IssuanceSound'
    BY IssuedStays DEF CaInv, caFileVars
  <1>15. \A d \in Deliveries : VerifyClientBundle(d)' <=> VerifyClientBundle(d)
    BY DEF VerifyClientBundle, Legible
  <1>16. ManifestsTrue'
    <2>1. ASSUME "manifest" \in Legible(profile'[p])
          PROVE  \E d \in Deliveries : VerifyProfile(p, d)'
      <3>1. n = 1 /\ f = "manifest" /\ doubled = {}
        BY <1>6, <1>9, <1>11, <2>1 DEF Legible
      <3>2. Legible(profile'[p]) = Range(ProfileFiles)
        BY <1>9, <1>10, <3>1, FileSets DEF Legible, Profile
      <3>3. PICK d \in Deliveries : /\ VerifyClientBundle(d)
                                    /\ delivered[d].cert = c /\ delivered[d].serial = s
        BY <1>7 DEF Delivered
      <3>4. VerifyClientBundle(d)' /\ delivered' = delivered
        BY <1>15, <3>3
      <3>5. VerifyProfile(p, d)' <=>
              /\ Legible(profile'[p]) = Range(ProfileFiles)
              /\ VerifyClientBundle(d)'
              /\ profile'[p].cert = delivered'[d].cert
              /\ profile'[p].serial = delivered'[d].serial
        BY DEF VerifyProfile, Legible
      <3> QED
        BY <1>9, <3>2, <3>3, <3>4, <3>5
    <2>2. \A x \in Profiles \ {p}, d \in Deliveries : VerifyProfile(x, d) => VerifyProfile(x, d)'
      BY <1>9, <1>15 DEF VerifyProfile
    <2>3. \A x \in Profiles : "manifest" \in Legible(profile'[x]) =>
              \E d \in Deliveries : VerifyProfile(x, d)'
      BY <1>9, <2>1, <2>2 DEF CaInv, ManifestsTrue
    <2>4. UNCHANGED <<caFiles, caDoubled, delivered>>
      BY DEF caFileVars
    <2> QED
      BY <1>15, <2>3, <2>4 DEF CaInv, ManifestsTrue, Legible
  <1> QED
    <2>1. profile'[caOp.dir].doubled = doubled
      BY <1>3, <1>9
    <2>2. n > 1 => profile'[caOp.dir].files = ProfileBefore(n - 1)
      BY <1>3, <1>10
    <2> QED
      BY <1>1, <1>3, <1>4, <1>5, <1>7, <1>12, <1>13, <1>14, <1>16, <2>1, <2>2

(* The profile's next file is there. *)
LEMMA ProfileFileStep ==
    ASSUME CaInv, NEW f \in Range(ProfileFiles), ProfileFileWritten(f)
    PROVE  CaInv'
  <1>1. /\ Writes("profile", f) /\ UNCHANGED <<caFileVars, delivered>>
        /\ profile' = [profile EXCEPT ![caOp.dir] = With(@, f, {})]
    BY DEF ProfileFileWritten
  <1>2. ComesNext("profile", f) /\ CaTypes
    BY <1>1 DEF Writes, CaInv
  <1>3. PICK n \in 1..5 :
              /\ Len(caOp.todo) = n
              /\ n > 1 => profile'[caOp.dir].files = ProfileBefore(n - 1)
    BY <1>1, <1>2, ProfileGrows
  <1>4. /\ profile'[caOp.dir].doubled = {}
        /\ Delivered(caOp.cert, caOp.serial)
        /\ profile' \in [Profiles -> Directory(Profile)]
        /\ \A x \in Profiles : profile'[x].doubled \subseteq profile'[x].files
        /\ IssuanceSound' /\ ManifestsTrue'
    BY <1>1, <1>2, ProfileGrows
  <1>5. /\ n = 1 => caOp' = CaIdle
        /\ n > 1 => /\ caOp' \in ProfileOps /\ Len(caOp'.todo) = n - 1
                    /\ caOp'.dir = caOp.dir /\ caOp'.cert = caOp.cert
                    /\ caOp'.serial = caOp.serial
    <2>1. PICK m \in 1..5 :
              /\ Len(caOp.todo) = m
              /\ m = 1 => caOp' = CaIdle
              /\ m > 1 => /\ caOp' \in ProfileOps /\ Len(caOp'.todo) = m - 1
                          /\ caOp'.dir = caOp.dir /\ caOp'.cert = caOp.cert
                          /\ caOp'.serial = caOp.serial
      BY <1>1, <1>2, ProfileAdvances
    <2>2. m = n
      BY <1>3, <2>1
    <2> QED BY <2>1, <2>2
  <1>6. CaTypes'
    <2>1. caOp' \in {CaIdle} \cup ProfileOps
      BY <1>5
    <2> QED
      BY <1>1, <1>4, <2>1 DEF CaInv, CaTypes, caFileVars
  <1>7. PlanTrue'
    <2>1. CASE n = 1
      BY <1>5, <2>1, NoPlan
    <2>2. CASE n > 1
      <3>1. /\ caOp' \in ProfileOps /\ Len(caOp'.todo) = n - 1 /\ caOp'.dir = caOp.dir
            /\ caOp'.cert = caOp.cert /\ caOp'.serial = caOp.serial
        BY <1>5, <2>2
      <3>2. profile'[caOp'.dir].files = ProfileBefore(n - 1) /\ profile'[caOp'.dir].doubled = {}
        BY <1>3, <1>4, <2>2, <3>1
      <3>3. Delivered(caOp.cert, caOp.serial)'
        BY <1>1, <1>4, <3>1 DEF Delivered, VerifyClientBundle, Legible
      <3>4. ProfileTrue(n - 1)'
        BY <3>1, <3>2, <3>3 DEF ProfileTrue, ProfileBefore
      <3> QED
        BY <3>1, <3>4, PlansApart DEF PlanTrue
    <2> QED BY <2>1, <2>2
  <1> QED
    BY <1>4, <1>6, <1>7 DEF CaInv

(* A profile whose last file nobody can read. *)
LEMMA ProfileDoubledStep ==
    ASSUME CaInv, NEW f \in Range(ProfileFiles), ProfileFileDoubled(f)
    PROVE  CaInv'
  <1>1. /\ ComesNext("profile", f) /\ caOp' = CaIdle /\ UNCHANGED <<caFileVars, delivered>>
        /\ profile' = [profile EXCEPT ![caOp.dir] = With(@, f, {f})]
    BY DEF ProfileFileDoubled, EndsEarly
  <1>2. /\ profile' \in [Profiles -> Directory(Profile)]
        /\ \A x \in Profiles : profile'[x].doubled \subseteq profile'[x].files
        /\ IssuanceSound' /\ ManifestsTrue'
    BY <1>1, ProfileGrows
  <1>3. CaTypes'
    BY <1>1, <1>2 DEF CaInv, CaTypes, caFileVars
  <1> QED
    BY <1>1, <1>2, <1>3, NoPlan DEF CaInv

(* The policy's steps leave the CA's files alone. *)
LEMMA CaStays == ASSUME CaInv, UNCHANGED caVars PROVE CaInv'
  <1>1. UNCHANGED <<caFileVars, delivered, profile>> /\ caOp' = caOp
    BY DEF caVars
  <1>2. CaTypes'
    BY <1>1 DEF CaInv, CaTypes, caFileVars
  <1>3. PlanTrue'
    BY <1>1 DEF CaInv, PlanTrue, InitTrue, IssueTrue, ProfileTrue, Delivered,
                VerifyClientBundle, Legible, ReadableLines, caFileVars
  <1> QED
    BY <1>1, <1>2, <1>3, VouchedStays DEF CaInv

(* Whatever was planned is left where it was. *)
LEMMA CaCrashStep == ASSUME CaInv, CaCrash PROVE CaInv'
  <1>1. UNCHANGED <<caFileVars, delivered, profile>> /\ caOp' = CaIdle
    BY DEF CaCrash, EndsEarly
  <1>2. CaTypes'
    BY <1>1 DEF CaInv, CaTypes, caFileVars
  <1> QED
    BY <1>1, <1>2, VouchedStays, NoPlan DEF CaInv

-----------------------------------------------------------------------------
(* The two planes together: a step of one leaves the other's files alone,    *)
(* but for the enrolment of a delivered certificate.                         *)
CredentialsInv == CredentialInv /\ CaInv

(* Nothing is there at first. *)
LEMMA CredentialsInit == CaInit => CredentialsInv
  <1> SUFFICES ASSUME CaInit PROVE CredentialsInv
    OBVIOUS
  <1>1. CredentialInv
    BY CredentialInvInit DEF CaInit
  <1>2. /\ caFiles = {} /\ caDoubled = {} /\ caManifest = [next |-> 1, count |-> 0]
        /\ issuance = <<>> /\ caOp = CaIdle
        /\ delivered = [d \in Deliveries |-> EmptyDirectory]
        /\ profile = [p \in Profiles |-> EmptyDirectory]
    BY DEF CaInit
  <1>3. /\ \A d \in Deliveries : delivered[d].files = {} /\ delivered[d].doubled = {}
        /\ \A p \in Profiles : profile[p].files = {} /\ profile[p].doubled = {}
    BY <1>2 DEF EmptyDirectory
  <1>4. CaTypes
    BY <1>2, <1>3 DEF CaTypes, EmptyDirectory, Directory
  <1>5. IssuanceSound /\ ManifestsTrue
    BY <1>2, <1>3 DEF IssuanceSound, ReadableLines, ManifestsTrue, Legible
  <1>6. PlanTrue
    BY <1>2, PlansApart DEF PlanTrue
  <1> QED
    BY <1>1, <1>4, <1>5, <1>6 DEF CredentialsInv, CaInv

(* The certificate of a delivered bundle is one. *)
LEMMA EnrolledIsIssued ==
    ASSUME CaInv, NEW d \in Deliveries, NEW create \in BOOLEAN, EnrollDelivered(d, create)
    PROVE  /\ delivered[d].cert \in Certs /\ UNCHANGED caVars
           /\ \/ Enroll(delivered[d].cert, create)
              \/ InitLinkLeft(delivered[d].cert)
  BY DEF CaInv, CaTypes, EnrollDelivered

(* Every step keeps the invariant. *)
LEMMA CredentialsStep == CredentialsInv /\ [CaNext]_vars => CredentialsInv'
  <1> SUFFICES ASSUME CredentialInv, CaInv, [CaNext]_vars
               PROVE  CredentialInv' /\ CaInv'
    BY DEF CredentialsInv
  <1>1. CASE InitHumanCa
    BY <1>1, InitHumanCaStep, SameCredentials DEF InitHumanCa, credentialVars
  <1>2. ASSUME NEW f \in CaIdentity \cup {"journal"}, CaFileWritten(f)
        PROVE  CredentialInv' /\ CaInv'
    BY <1>2, CaFileStep, SameCredentials DEF CaFileWritten, Writes, credentialVars
  <1>2a. ASSUME NEW f \in CaIdentity \cup {"journal"}, CaFileDoubled(f)
         PROVE  CredentialInv' /\ CaInv'
    BY <1>2a, CaFileDoubledStep, SameCredentials DEF CaFileDoubled, EndsEarly
  <1>3. ASSUME NEW d \in Deliveries, NEW c \in Certs, IssueClientBundle(d, c)
        PROVE  CredentialInv' /\ CaInv'
    BY <1>3, IssueStep, SameCredentials DEF IssueClientBundle, credentialVars
  <1>4. ASSUME NEW f \in Range(BundleFiles), BundleFileWritten(f)
        PROVE  CredentialInv' /\ CaInv'
    BY <1>4, BundleFileStep, SameCredentials DEF BundleFileWritten, Writes, credentialVars
  <1>4a. ASSUME NEW f \in Range(BundleFiles), BundleFileDoubled(f)
         PROVE  CredentialInv' /\ CaInv'
    BY <1>4a, BundleDoubledStep, SameCredentials DEF BundleFileDoubled, EndsEarly
  <1>5. CASE CountersWritten
    BY <1>5, CountersStep, SameCredentials DEF CountersWritten, Writes, credentialVars
  <1>6. CASE IssuanceAppended
    BY <1>6, IssuanceAppendStep, SameCredentials DEF IssuanceAppended, Writes, credentialVars
  <1>6a. CASE IssuanceCut
    BY <1>6a, IssuanceCutStep, SameCredentials DEF IssuanceCut, EndsEarly
  <1>7. ASSUME NEW p \in Profiles, NEW d \in Deliveries, ProvisionProfile(p, d)
        PROVE  CredentialInv' /\ CaInv'
    BY <1>7, ProvisionStep, SameCredentials DEF ProvisionProfile, credentialVars
  <1>8. ASSUME NEW f \in Range(ProfileFiles), ProfileFileWritten(f)
        PROVE  CredentialInv' /\ CaInv'
    BY <1>8, ProfileFileStep, SameCredentials DEF ProfileFileWritten, Writes, credentialVars
  <1>8a. ASSUME NEW f \in Range(ProfileFiles), ProfileFileDoubled(f)
         PROVE  CredentialInv' /\ CaInv'
    BY <1>8a, ProfileDoubledStep, SameCredentials DEF ProfileFileDoubled, EndsEarly
  <1>9. CASE CaCrash
    BY <1>9, CaCrashStep, SameCredentials DEF CaCrash, EndsEarly
  <1>10. ASSUME NEW d \in Deliveries, NEW create \in BOOLEAN, EnrollDelivered(d, create)
         PROVE  CredentialInv' /\ CaInv'
    BY <1>10, EnrolledIsIssued, EnrollStep, InitLinkLeftStep, CaStays
  <1>11. CASE PolicyStep
    <2>1. CaInv'
      BY <1>11, CaStays DEF PolicyStep
    <2>2. ASSUME NEW c \in Certs, NEW revoke \in BOOLEAN, RestrictCredential(c, revoke)
          PROVE  CredentialInv'
      BY <2>2, RestrictStep
    <2>3. ASSUME NEW c \in Certs, Expire(c) PROVE CredentialInv'
      BY <2>3, SameCredentials DEF Expire
    <2>4. ASSUME NEW a \in Archives, RotateCopies(a) PROVE CredentialInv'
      BY <2>4, CopyStep
    <2>5. CASE JournalAppended \/ JournalTorn \/ JournalLinkLeft
      BY <2>1, <2>5, AppendStep, TornStep, JournalLinkLeftStep
    <2>6. CASE RotateManifest \/ RotateCheckpoint \/ PolicyCrash
      BY <2>1, <2>6, ManifestStep, CheckpointStep, PolicyCrashStep
    <2> QED
      BY <1>11, <2>1, <2>2, <2>3, <2>4, <2>5, <2>6 DEF PolicyStep
  <1>12. CASE UNCHANGED vars
    BY <1>12, CaStays, SameCredentials DEF vars, credentialVars
  <1> QED
    BY <1>1, <1>2, <1>2a, <1>3, <1>4, <1>4a, <1>5, <1>6, <1>6a, <1>7, <1>8, <1>8a, <1>9,
       <1>10, <1>11, <1>12 DEF CaNext

(* A step in which nothing dies leaves no file with two names and no line    *)
(* that is cut or cannot be parsed.                                          *)
SpoilInv == deaths \in Nat /\ OnlyDeathsSpoil

LEMMA StaysUnspoiled ==
    ASSUME SpoilInv, UNCHANGED <<deaths, torn, linked, caDoubled>>,
           Unspoiled => ~cut' /\ Garbled \notin EntriesOf(issuance'),
           \A d \in Deliveries : delivered'[d].doubled = delivered[d].doubled,
           \A p \in Profiles : profile'[p].doubled = profile[p].doubled
    PROVE  SpoilInv'
  <1>1. ASSUME Unspoiled PROVE Unspoiled'
    BY <1>1 DEF Unspoiled, JournalReadable, EntriesOf
  <1> QED
    BY <1>1 DEF SpoilInv, OnlyDeathsSpoil

LEMMA DeathSpoils == ASSUME SpoilInv, Dies PROVE SpoilInv'
  BY DEF SpoilInv, OnlyDeathsSpoil, Dies

LEMMA SpoilStep == ASSUME CredentialsInv, SpoilInv, [CaNext]_vars PROVE SpoilInv'
  <1>1. CaInv /\ CaTypes
    BY DEF CredentialsInv, CaInv
  <1>2. Unspoiled => ~cut /\ Garbled \notin EntriesOf(issuance)
    BY DEF Unspoiled
  <1>3. ASSUME UNCHANGED <<caFileVars, delivered, profile, deaths, torn, linked>>
        PROVE  SpoilInv'
    BY <1>2, <1>3, StaysUnspoiled DEF caFileVars
  <1>4. ASSUME NEW f \in CaIdentity \cup {"journal"}, CaFileWritten(f) PROVE SpoilInv'
    BY <1>2, <1>4, StaysUnspoiled DEF CaFileWritten, Writes, credentialVars
  <1>5. ASSUME NEW f \in Range(BundleFiles), BundleFileWritten(f) PROVE SpoilInv'
    <2>1. /\ delivered' = [delivered EXCEPT ![caOp.dir] = With(@, f, {})]
          /\ UNCHANGED <<caFileVars, profile, credentialVars>>
      BY <1>5 DEF BundleFileWritten, Writes
    <2>2. \A d \in Deliveries : delivered'[d].doubled = delivered[d].doubled
      BY <1>1, <2>1 DEF CaTypes, With
    <2> QED
      BY <1>2, <2>1, <2>2, StaysUnspoiled DEF caFileVars, credentialVars
  <1>6. ASSUME NEW f \in Range(ProfileFiles), ProfileFileWritten(f) PROVE SpoilInv'
    <2>1. /\ profile' = [profile EXCEPT ![caOp.dir] = With(@, f, {})]
          /\ UNCHANGED <<caFileVars, delivered, credentialVars>>
      BY <1>6 DEF ProfileFileWritten, Writes
    <2>2. \A p \in Profiles : profile'[p].doubled = profile[p].doubled
      BY <1>1, <2>1 DEF CaTypes, With
    <2> QED
      BY <1>2, <2>1, <2>2, StaysUnspoiled DEF caFileVars, credentialVars
  <1>7. CASE CountersWritten
    BY <1>2, <1>7, StaysUnspoiled DEF CountersWritten, Writes, credentialVars
  <1>8. CASE IssuanceAppended
    <2>1. /\ ComesNext("issue", "journal") /\ issuance' = Appended(Issued) /\ ~cut'
          /\ UNCHANGED <<caDoubled, delivered, profile, credentialVars>>
      BY <1>8 DEF IssuanceAppended, Writes
    <2>2. Issued \in Line /\ Issued # Garbled
      BY <1>1, <2>1, JournalNext
    <2>3. ASSUME Unspoiled PROVE Garbled \notin EntriesOf(issuance')
      <3>1. issuance' = Append(issuance, Issued) /\ issuance \in Seq(Line)
        BY <1>1, <1>2, <2>1, <2>3 DEF Appended, CaTypes
      <3>2. EntriesOf(issuance') \subseteq EntriesOf(issuance) \cup {Issued}
        <4>1. DOMAIN issuance' = 1..(Len(issuance) + 1) /\ DOMAIN issuance = 1..Len(issuance)
          BY <2>2, <3>1
        <4>2. \A i \in DOMAIN issuance' : \/ i \in DOMAIN issuance /\ issuance'[i] = issuance[i]
                                         \/ issuance'[i] = Issued
          BY <2>2, <3>1, <4>1
        <4> QED
          BY <4>2 DEF EntriesOf
      <3> QED
        BY <1>2, <2>2, <2>3, <3>2
    <2> QED
      BY <2>1, <2>3, StaysUnspoiled DEF credentialVars
  <1>9. CASE \/ \E f \in CaIdentity \cup {"journal"} : CaFileDoubled(f)
             \/ \E f \in Range(BundleFiles) : BundleFileDoubled(f)
             \/ \E f \in Range(ProfileFiles) : ProfileFileDoubled(f)
             \/ IssuanceCut \/ CaCrash
    BY <1>9, DeathSpoils DEF CaFileDoubled, BundleFileDoubled, ProfileFileDoubled,
                             IssuanceCut, CaCrash, EndsEarly
  <1>10. CASE \/ InitHumanCa
              \/ \E d \in Deliveries, c \in Certs : IssueClientBundle(d, c)
              \/ \E p \in Profiles, d \in Deliveries : ProvisionProfile(p, d)
              \/ UNCHANGED vars
    <2>1. UNCHANGED <<caFileVars, delivered, profile, credentialVars>>
      BY <1>10 DEF InitHumanCa, IssueClientBundle, ProvisionProfile, vars, caVars
    <2> QED
      BY <1>3, <2>1 DEF credentialVars
  <1>11. ASSUME NEW d \in Deliveries, NEW create \in BOOLEAN, EnrollDelivered(d, create)
         PROVE  SpoilInv'
    <2>1. CASE InitLinkLeft(delivered[d].cert)
      BY <2>1, DeathSpoils DEF InitLinkLeft
    <2>2. CASE Enroll(delivered[d].cert, create)
      BY <1>3, <1>11, <2>2 DEF EnrollDelivered, caVars, Enroll, PolicyWritten
    <2> QED
      BY <1>11, <2>1, <2>2 DEF EnrollDelivered
  <1>12. CASE PolicyStep
    <2>1. UNCHANGED <<caFileVars, delivered, profile>>
      BY <1>12 DEF PolicyStep, caVars
    <2>2. CASE JournalTorn \/ JournalLinkLeft \/ PolicyCrash
      BY <2>2, DeathSpoils DEF JournalTorn, JournalLinkLeft, PolicyCrash
    <2>3. CASE ~(JournalTorn \/ JournalLinkLeft \/ PolicyCrash)
      <3>1. UNCHANGED <<deaths, torn, linked>>
        BY <1>12, <2>3 DEF PolicyStep, RestrictCredential, PolicyWritten, Expire, RotateCopies,
                           JournalAppended, RotateManifest, RotateCheckpoint
      <3> QED BY <1>3, <2>1, <3>1
    <2> QED BY <2>2, <2>3
  <1> QED
    BY <1>4, <1>5, <1>6, <1>7, <1>8, <1>9, <1>10, <1>11, <1>12 DEF CaNext

LEMMA NothingSpoiled == CaInit => SpoilInv
  BY DEF CaInit, CredentialInit, SpoilInv, OnlyDeathsSpoil, Unspoiled, JournalReadable,
         EntriesOf, EmptyDirectory

(* Whatever dies between two files of the policy, the CA, a bundle, a        *)
(* profile or a rotation, the invariant of both planes holds.                *)
THEOREM CredentialsInvHolds == CaSpec => []CredentialsInv
  <1> QED
    BY CredentialsInit, CredentialsStep, PTL DEF CaSpec

THEOREM SpoilInvHolds == CaSpec => []SpoilInv
  <1> QED
    BY CredentialsInvHolds, NothingSpoiled, SpoilStep, PTL DEF CaSpec

(* The policy's journal with its archives tells every change but the one a   *)
(* dead writer owed; the lines of the CA's journal that can be read name     *)
(* only bundles delivered whole; every manifest that can be read stands      *)
(* beside all it lists; and what cannot be read was left by a death.         *)
THEOREM JournalsAreTrue == CaSpec => []JournalsTrue
  <1>1. CredentialsInv /\ SpoilInv => JournalsTrue
    <2> SUFFICES ASSUME CredentialsInv, SpoilInv PROVE JournalsTrue
      OBVIOUS
    <2>1. HistoryKept
      BY DEF CredentialsInv, CredentialInv, HistoryKept
    <2>2. \A a \in Archives : archive[a].manifest => VerifyJournalArchive(a)
      BY DEF CredentialsInv, CredentialInv, ArchivesTrue
    <2>3. IssuanceKept
      BY <2>2 DEF CredentialsInv, CaInv, IssuanceKept, ManifestMeansComplete, ManifestsTrue
    <2> QED
      BY <2>1, <2>3 DEF JournalsTrue, SpoilInv
  <1> QED
    BY <1>1, CredentialsInvHolds, SpoilInvHolds, PTL

(* No step restores a restricted credential. *)
LEMMA RestrictedStep ==
    ASSUME CredentialsInv, [CaNext]_vars, NEW c \in Certs, Restricted(c)
    PROVE  Restricted(c)'
  <1>1. CredentialTypes /\ CaInv
    BY DEF CredentialsInv, CredentialInv
  <1>2. ASSUME policy' = policy PROVE Restricted(c)'
    BY <1>2 DEF Restricted, Enrolled, ActiveIn, Records
  <1>3. ASSUME NEW d \in Deliveries, NEW create \in BOOLEAN, EnrollDelivered(d, create)
        PROVE  Restricted(c)'
    <2>1. /\ delivered[d].cert \in Certs
          /\ \/ Enroll(delivered[d].cert, create)
             \/ InitLinkLeft(delivered[d].cert)
      BY <1>1, <1>3, EnrolledIsIssued
    <2>2. /\ delivered[d].cert \notin Enrolled
          /\ policy' = Append(Records, Record(delivered[d].cert))
      BY <2>1 DEF Enroll, InitLinkLeft, MayEnroll, PolicyWritten
    <2> QED
      BY <1>1, <2>1, <2>2, EnrollRestores
  <1>4. ASSUME NEW x \in Certs, NEW revoke \in BOOLEAN, RestrictCredential(x, revoke)
        PROVE  Restricted(c)'
    BY <1>1, <1>4, RestrictRestores
  <1>5. CASE PolicyStep
    <2>1. CASE \E x \in Certs, revoke \in BOOLEAN : RestrictCredential(x, revoke)
      BY <1>4, <2>1
    <2>2. CASE ~\E x \in Certs, revoke \in BOOLEAN : RestrictCredential(x, revoke)
      <3>1. policy' = policy
        BY <1>5, <2>2 DEF PolicyStep, Expire, RotateCopies, JournalAppended, JournalTorn,
                          JournalLinkLeft, RotateManifest, RotateCheckpoint, PolicyCrash
      <3> QED BY <1>2, <3>1
    <2> QED BY <2>1, <2>2
  <1>6. CASE /\ ~PolicyStep
             /\ ~\E d \in Deliveries, create \in BOOLEAN : EnrollDelivered(d, create)
    <2>1. policy' = policy
      BY <1>6 DEF CaNext, vars, InitHumanCa, CaFileWritten, CaFileDoubled, IssueClientBundle,
                  BundleFileWritten, BundleFileDoubled, CountersWritten, IssuanceAppended,
                  IssuanceCut, ProvisionProfile, ProfileFileWritten, ProfileFileDoubled,
                  CaCrash, Writes, EndsEarly, credentialVars
    <2> QED BY <1>2, <2>1
  <1> QED
    BY <1>3, <1>5, <1>6

(* A disabled or revoked credential stays so, by whatever step, and no actor *)
(* is verified with it.                                                      *)
THEOREM RestrictedIsFinal == CaSpec => RestrictedStaysOut
  <1>1. CredentialsInv /\ [CaNext]_vars =>
            [\A c \in Certs : Restricted(c) =>
                /\ Restricted(c)'
                /\ \A actor \in Actors : ~VerifyOperatorIdentity(actor, c)']_credentialVars
    <2> SUFFICES ASSUME CredentialsInv, [CaNext]_vars, NEW c \in Certs, Restricted(c)
                 PROVE  /\ Restricted(c)'
                        /\ \A actor \in Actors : ~VerifyOperatorIdentity(actor, c)'
      OBVIOUS
    <2>1. Restricted(c)'
      BY RestrictedStep
    <2>2. ASSUME NEW actor \in Actors PROVE ~VerifyOperatorIdentity(actor, c)'
      <3>1. policy' # NoFile => Records' = policy'
        BY DEF Records
      <3>2. LoadRegistry' \subseteq ActiveIn(Records)'
        BY <3>1 DEF LoadRegistry, PolicyReadable, PolicyOpens, ActiveIn
      <3>3. ActiveFingerprint(actor)' \subseteq LoadRegistry'
        BY DEF ActiveFingerprint
      <3> QED
        BY <2>1, <3>2, <3>3 DEF Restricted, VerifyOperatorIdentity
    <2> QED BY <2>1, <2>2
  <1> QED
    BY <1>1, CredentialsInvHolds, PTL DEF CaSpec, RestrictedStaysOut
=============================================================================
