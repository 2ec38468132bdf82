--------------------------- MODULE HumanCaIssuance ---------------------------
(* The local CA of the human operators: its own files, the bundles it        *)
(* delivers, the browser profiles made from them, and their enrolment in the *)
(* credential policy.                                                        *)
(*                                                                           *)
(* Issuing holds the locks of the CA and of the delivery directory, and      *)
(* provisioning those and the profile's, so one of them runs at a time; each *)
(* step is one file made durable and the process may die, or fail with an    *)
(* OSError, between two.  A new file is linked under its name before its     *)
(* temporary name is unlinked; a process that dies between the two leaves    *)
(* the file doubled, and every later read of it fails.  Keys, passphrases    *)
(* and OpenSSL are left out.                                                 *)
EXTENDS HumanCredentials, Functions

CONSTANTS
    Deliveries,   \* delivery directories
    Profiles      \* browser profile directories

VARIABLES
    caFiles,     \* the files of the CA's directory
    caDoubled,   \* those of them that were left with two names
    caManifest,  \* next_serial and issued_count
    issuance,    \* the lines of the issuance journal
    cut,         \* its last line lacks its end of line
    delivered,   \* per delivery directory: its files and the certificate
    profile,     \* per profile directory: its files and the certificate
    caOp         \* what the holder of the CA's lock has yet to write

caFileVars == <<caFiles, caDoubled, caManifest, issuance, cut>>
caVars == <<caFileVars, delivered, profile, caOp>>
vars == <<credentialVars, caVars>>

CaIdentity == {"key", "cert", "manifest"}
BundleFiles == <<"cert", "bundle", "manifest">>
ProfileFiles == <<"nss", "root_ca", "client_key", "user_js", "manifest">>
EmptyDirectory == [files |-> {}, doubled |-> {}, cert |-> NoFile, serial |-> 0]
CaIdle == [todo |-> <<>>]

(* A line no reader can parse. *)
Garbled == [serial |-> 0, cert |-> NoFile]

CaInit ==
    /\ CredentialInit
    /\ caFiles = {} /\ caDoubled = {}
    /\ caManifest = [next |-> 1, count |-> 0]
    /\ issuance = <<>> /\ cut = FALSE
    /\ delivered = [d \in Deliveries |-> EmptyDirectory]
    /\ profile = [p \in Profiles |-> EmptyDirectory]
    /\ caOp = CaIdle

-----------------------------------------------------------------------------
Step(kind, file) == [kind |-> kind, file |-> file]
Steps(kind, files) == [i \in DOMAIN files |-> Step(kind, files[i])]

ComesNext(kind, file) == caOp.todo # <<>> /\ caOp.todo[1] = Step(kind, file)

(* The next write is of this kind; the others stay to be done. *)
Writes(kind, file) ==
    /\ ComesNext(kind, file)
    /\ caOp' = IF Len(caOp.todo) = 1 THEN CaIdle
                                     ELSE [caOp EXCEPT !.todo = Tail(@)]
    /\ UNCHANGED credentialVars

(* The process ends with its writes undone, and its locks go with it. *)
EndsEarly ==
    /\ Dies
    /\ caOp' = CaIdle
    /\ UNCHANGED <<policy, journal, torn, linked, archive, expired, policyOp, lost>>

(* What _read_file and _check_file_stat accept of a directory. *)
Legible(directory) == directory.files \ directory.doubled

(* One holder of the CA's directory lock at a time. *)
CaLockFree == caOp = CaIdle

(* A CA that has any of its files is never initialised again. *)
InitHumanCa ==
    /\ CaLockFree /\ caFiles \cap CaIdentity = {}
    /\ caOp' = [todo |-> Steps("ca", <<"key", "cert", "manifest", "journal">>)]
    /\ UNCHANGED <<caFileVars, delivered, profile, credentialVars>>

CaFileWritten(f) ==
    /\ Writes("ca", f)
    /\ caFiles' = caFiles \cup {f}
    /\ UNCHANGED <<caDoubled, caManifest, issuance, cut, delivered, profile>>

CaFileDoubled(f) ==
    /\ ComesNext("ca", f) /\ EndsEarly
    /\ caFiles' = caFiles \cup {f}
    /\ caDoubled' = caDoubled \cup {f}
    /\ UNCHANGED <<caManifest, issuance, cut, delivered, profile>>

(* Mutant: the journal's line is written before the manifest's counters. *)
IssueStepsJournalFirst == Steps("deliver", BundleFiles) \o
    <<Step("issue", "journal"), Step("issue", "counters")>>

(* The bundle, then the CA's counters, then the journal. *)
IssueSteps == Steps("deliver", BundleFiles) \o
    <<Step("issue", "counters"), Step("issue", "journal")>>

Used == {delivered[d].cert : d \in Deliveries}

(* A new certificate is signed with the manifest's next serial. *)
IssueClientBundle(d, c) ==
    /\ CaLockFree
    /\ delivered[d].files = {}
    /\ CaIdentity \subseteq caFiles \ caDoubled
    /\ c \notin Used
    /\ caOp' = [todo |-> IssueSteps, dir |-> d, cert |-> c, serial |-> caManifest.next]
    /\ UNCHANGED <<caFileVars, delivered, profile, credentialVars>>

(* What the operation's directory holds with one file more. *)
With(directory, f, doubled) ==
    [files |-> directory.files \cup {f}, doubled |-> directory.doubled \cup doubled,
     cert |-> caOp.cert, serial |-> caOp.serial]

BundleFileWritten(f) ==
    /\ Writes("deliver", f)
    /\ delivered' = [delivered EXCEPT ![caOp.dir] = With(@, f, {})]
    /\ UNCHANGED <<caFileVars, profile>>

BundleFileDoubled(f) ==
    /\ ComesNext("deliver", f) /\ EndsEarly
    /\ delivered' = [delivered EXCEPT ![caOp.dir] = With(@, f, {f})]
    /\ UNCHANGED <<caFileVars, profile>>

CountersWritten ==
    /\ Writes("issue", "counters")
    /\ caManifest' = [next |-> caOp.serial + 1, count |-> caManifest.count + 1]
    /\ UNCHANGED <<caFiles, caDoubled, issuance, cut, delivered, profile>>

Issued == [serial |-> caOp.serial, cert |-> caOp.cert]

(* The bytes go behind what is there: a last line that was cut short takes   *)
(* them up, and neither entry can be read any more.                          *)
Appended(line) ==
    IF cut THEN [issuance EXCEPT ![Len(issuance)] = Garbled]
           ELSE Append(issuance, line)

IssuanceAppended ==
    /\ Writes("issue", "journal")
    /\ issuance' = Appended(Issued)
    /\ cut' = FALSE
    /\ caFiles' = caFiles \cup {"journal"}
    /\ UNCHANGED <<caDoubled, caManifest, delivered, profile>>

(* A short write: the line, or only its end of line, is incomplete, and the  *)
(* issue fails with what it wrote left in the journal.                       *)
IssuanceCut ==
    /\ ComesNext("issue", "journal") /\ EndsEarly
    /\ \E line \in {Issued, Garbled} : issuance' = Appended(line)
    /\ cut' = TRUE
    /\ caFiles' = caFiles \cup {"journal"}
    /\ UNCHANGED <<caDoubled, caManifest, delivered, profile>>

(* verify_human_ca: an empty or missing journal is not compared. *)
VerifyHumanCa ==
    /\ CaIdentity \subseteq caFiles \ caDoubled
    /\ "journal" \notin caDoubled
    /\ issuance # <<>> => /\ Len(issuance) = caManifest.count
                          /\ Garbled \notin EntriesOf(issuance)

VerifyClientBundle(d) == Legible(delivered[d]) = Range(BundleFiles)

ProfileSteps == Steps("profile", ProfileFiles)

ProvisionProfile(p, d) ==
    /\ CaLockFree
    /\ VerifyHumanCa /\ VerifyClientBundle(d)
    /\ profile[p].files = {}
    /\ caOp' = [todo |-> ProfileSteps, dir |-> p,
                cert |-> delivered[d].cert, serial |-> delivered[d].serial]
    /\ UNCHANGED <<caFileVars, delivered, profile, credentialVars>>

ProfileFileWritten(f) ==
    /\ Writes("profile", f)
    /\ profile' = [profile EXCEPT ![caOp.dir] = With(@, f, {})]
    /\ UNCHANGED <<caFileVars, delivered>>

(* The NSS files are the NSS tools' own; only the other two are linked. *)
ProfileFileDoubled(f) ==
    /\ f \in {"user_js", "manifest"}
    /\ ComesNext("profile", f) /\ EndsEarly
    /\ profile' = [profile EXCEPT ![caOp.dir] = With(@, f, {f})]
    /\ UNCHANGED <<caFileVars, delivered>>

(* The whole profile, and the bundle it was made from. *)
VerifyProfile(p, d) ==
    /\ Legible(profile[p]) = Range(ProfileFiles)
    /\ VerifyClientBundle(d)
    /\ profile[p].cert = delivered[d].cert /\ profile[p].serial = delivered[d].serial

CaCrash ==
    /\ caOp # CaIdle /\ EndsEarly
    /\ UNCHANGED <<caFileVars, delivered, profile>>

(* The operator enrols a delivered certificate; issue-and-enroll does so     *)
(* after the issue returned.  A CA certificate file must be there; neither   *)
(* file's links are counted.                                                 *)
EnrollDelivered(d, create) ==
    /\ "cert" \in delivered[d].files /\ "cert" \in caFiles
    /\ \/ Enroll(delivered[d].cert, create)
       \/ create /\ InitLinkLeft(delivered[d].cert)
    /\ UNCHANGED caVars

PolicyStep ==
    /\ \/ \E c \in Certs : \/ \E revoke \in BOOLEAN : RestrictCredential(c, revoke)
                           \/ Expire(c)
       \/ \E a \in Archives : RotateCopies(a)
       \/ JournalAppended \/ JournalTorn \/ JournalLinkLeft
       \/ RotateManifest \/ RotateCheckpoint
       \/ PolicyCrash
    /\ UNCHANGED caVars

CaNext ==
    \/ InitHumanCa
    \/ \E f \in CaIdentity \cup {"journal"} : CaFileWritten(f) \/ CaFileDoubled(f)
    \/ \E d \in Deliveries, c \in Certs : IssueClientBundle(d, c)
    \/ \E f \in Range(BundleFiles) : BundleFileWritten(f) \/ BundleFileDoubled(f)
    \/ CountersWritten \/ IssuanceAppended \/ IssuanceCut
    \/ \E p \in Profiles, d \in Deliveries : ProvisionProfile(p, d)
    \/ \E f \in Range(ProfileFiles) : ProfileFileWritten(f) \/ ProfileFileDoubled(f)
    \/ CaCrash
    \/ \E d \in Deliveries, create \in BOOLEAN : EnrollDelivered(d, create)
    \/ PolicyStep

CaSpec == CaInit /\ [][CaNext]_vars

-----------------------------------------------------------------------------
(* The issuance journal is sound whatever died: in the lines that can be     *)
(* read the serials rise and are below the next one, and each is of a bundle *)
(* delivered whole under that serial; and there are never more lines than    *)
(* the manifest counts.                                                      *)
ReadableLines == {i \in DOMAIN issuance : issuance[i] # Garbled}
IssuanceSound ==
    /\ \A i, j \in ReadableLines : i < j => issuance[i].serial < issuance[j].serial
    /\ \A i \in ReadableLines :
          /\ issuance[i].serial < caManifest.next
          /\ \E d \in Deliveries : /\ VerifyClientBundle(d)
                                   /\ delivered[d].cert = issuance[i].cert
                                   /\ delivered[d].serial = issuance[i].serial
    /\ Len(issuance) <= caManifest.count

(* A manifest that can be read vouches for what it lists: no crash of an     *)
(* issue, of a provisioning or of a rotation leaves one beside files that    *)
(* are missing or that cannot be read.                                       *)
ManifestMeansComplete ==
    /\ "manifest" \in caFiles \ caDoubled => CaIdentity \subseteq caFiles \ caDoubled
    /\ \A d \in Deliveries :
          "manifest" \in Legible(delivered[d]) => VerifyClientBundle(d)
    /\ \A p \in Profiles : "manifest" \in Legible(profile[p]) =>
          \E d \in Deliveries : VerifyProfile(p, d)
    /\ \A a \in Archives : archive[a].manifest => VerifyJournalArchive(a)

(* What the CA's journal and its manifests vouch for is there, wherever an   *)
(* issue, a provisioning or a rotation died.                                 *)
IssuanceKept == IssuanceSound /\ ManifestMeansComplete

(* As long as no process died or was cut short, everything that was written  *)
(* can be read: no operation by itself shuts the next one out.               *)
Unspoiled ==
    /\ JournalReadable /\ linked = {}
    /\ caDoubled = {} /\ ~cut /\ Garbled \notin EntriesOf(issuance)
    /\ \A d \in Deliveries : delivered[d].doubled = {}
    /\ \A p \in Profiles : profile[p].doubled = {}
OnlyDeathsSpoil == deaths = 0 => Unspoiled

(* The policy's journal, the CA's journal and every manifest tell the truth, *)
(* and only a death leaves a file that cannot be read.                       *)
JournalsTrue == HistoryKept /\ IssuanceKept /\ OnlyDeathsSpoil
=============================================================================
