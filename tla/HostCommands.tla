---------------------------- MODULE HostCommands ----------------------------
(***************************************************************************)
(* The read-only apx commands that judge one Environment, or the host for  *)
(* one: environment list, inspect, create and removal-plan, host check,    *)
(* validate, doctor, isolation- and snapshot-readiness. Each reads the     *)
(* host piece by piece, by system calls and other programs that may fail,  *)
(* while EnvironmentLife goes on, and reports one verdict of each          *)
(* Environment.                                                            *)
(*                                                                         *)
(* A verdict depends on the set of statuses the observations got, which is *)
(* all that is kept of them.                                               *)
(***************************************************************************)
EXTENDS EnvironmentLife, Naturals, FiniteSets

CONSTANTS
    Trial,      \* the name host check is about
    Experiment, \* the name doctor and isolation-readiness are about
    MaxEntries  \* MAX_REGISTRATION_ENTRIES

ASSUME TrialAssumption == Trial \in Managed
ASSUME ExperimentAssumption == Experiment \in Managed
ASSUME MaxEntriesAssumption == MaxEntries \in Nat

VARIABLES
    command,    \* which command runs or has just reported
    pc,         \* what it does next
    name,       \* the Environment it is about
    evidence,   \* statuses observed so far
    known,      \* its account was in the list of accounts
    authoritative, \* host check and doctor trust what they see
    claim,      \* what reading its registration gave
    listed,     \* uniqueness scan: names first listed
    unread,     \* uniqueness scan: of these, those still to be read
    doubt,      \* uniqueness scan: what the files read so far told
    verdict,
    met,        \* what has been true of the Environment since the start
    rewritten   \* names whose file has changed since it was listed

scan == <<listed, unread, doubt>>
report == <<command, name, known, authoritative>>
vars == <<life, report, pc, evidence, claim, scan, verdict, met, rewritten>>

Commands == {"none", "inspect", "removal-plan", "host-check", "doctor",
             "validate", "create", "list", "snapshot-readiness"}
Unknown == {"unavailable", "ambiguous"}
Observations == Unknown \cup {"confirmed", "not-satisfied", "not-attempted"}
Readiness == {"ready", "requires-host-confirmation", "blocked", "unavailable"}
Checks == {"ready", "blocked", "unknown", "not applicable"}
Stages == {"idle", "registration", "mount", "btrfs", "home", "list", "read",
           "relist", "marker", "sessions", "contents", "processes", "tools",
           "done"}
Doubts == {"none", "uncertain", "duplicate", "unique"}
Facts == {"complete", "broken", "idle", "canonical", "free", "removal"}
-----------------------------------------------------------------------------
(* The classifications *)

ClassifyPostconditions(statuses) ==
    IF "not-satisfied" \in statuses THEN "incomplete"
    ELSE IF statuses \cap Unknown # {} THEN "unavailable-or-unconfirmed"
    ELSE IF statuses = {"confirmed"} THEN "consistent"
    ELSE "registered"

(* classify_observed_environment, for a candidate whose registration is    *)
(* not valid; the command passes no incomplete operation.                  *)
ClassifyUnregistered(kind) ==
    IF kind = "unavailable" THEN "unavailable-or-unconfirmed" ELSE "candidate"

OverallRemoval(checks) ==
    IF "blocked" \in checks THEN "blocked"
    ELSE IF "unknown" \in checks THEN "incomplete evidence"
    ELSE "ready for removal"

OverallReadiness(checks) ==
    IF "blocked" \in checks THEN "blocked"
    ELSE IF checks \cap {"requires-host-confirmation", "unavailable"} # {}
         THEN "requires-host-confirmation"
    ELSE "ready-for-manual-experiment"

(* isolation-readiness; a check that does not apply counts for nothing.  *)
ClassifyIsolationReadiness(checks) ==
    LET mandatory == checks \ {"not-applicable"} IN
    IF "blocked" \in mandatory THEN "blocked"
    ELSE IF mandatory \cap {"unavailable", "requires-host-confirmation"} # {}
         THEN "requires-host-confirmation"
    ELSE "ready-for-stage-2-design-review"

(* doctor makes up its mind from the same checks once more *)
Advice(checks) ==
    IF "blocked" \in checks THEN "STOP"
    ELSE IF checks \cap {"requires-host-confirmation", "unavailable"} # {}
         THEN "WAIT"
    ELSE "READY FOR DESIGN REVIEW"

(* host validate, of each Environment; "not applicable" is a home it has   *)
(* not seen                                                                *)
RemovalEvidence(checks) ==
    IF "blocked" \in checks THEN "confirmed blocker"
    ELSE IF "unknown" \in checks THEN "unknown"
    ELSE "no blocker detected"

ArchitecturalEligibility(statuses) ==
    IF "not-satisfied" \in statuses THEN "blocked"
    ELSE IF statuses # {"confirmed"} THEN "requires-host-confirmation"
    ELSE "eligible-for-future-apply"

(* The verdicts that call the host ready for an Environment *)
ReadyForTrial == {"ready-for-manual-experiment",
    "ready-for-stage-2-design-review", "READY FOR DESIGN REVIEW"}

Verdicts == ReadyForTrial \cup {"none", "incomplete", "consistent",
    "unavailable-or-unconfirmed", "registered", "candidate", "blocked",
    "incomplete evidence", "ready for removal", "protected Environment",
    "Environment does not exist", "requires-host-confirmation",
    "STOP", "WAIT", "confirmed blocker", "unknown", "no blocker detected",
    "eligible-for-future-apply", "listed as consistent", "inconsistent",
    "unavailable"}
-----------------------------------------------------------------------------
(* Steps of a command *)

HostInit ==
    /\ LifeInit
    /\ command = "none" /\ pc = "idle" /\ name = Trial
    /\ evidence = {} /\ known = FALSE /\ authoritative = FALSE
    /\ claim = Absent
    /\ listed = {} /\ unread = {} /\ doubt = "none"
    /\ verdict = "none" /\ met = {} /\ rewritten = {}

(* An observation adds statuses and goes on at stage *)
Observe(stage, statuses) ==
    /\ pc' = stage
    /\ evidence' = evidence \cup statuses
    /\ UNCHANGED <<report, verdict>>

(* The verdict is printed; nothing of what was seen is kept. *)
Report(v) ==
    /\ pc' = "done"
    /\ verdict' = v
    /\ evidence' = {} /\ claim' = Absent
    /\ listed' = {} /\ unread' = {} /\ doubt' = "none"
    /\ UNCHANGED report

At(c, stage) == command = c /\ pc = stage

(* What reading the registration file of n may find *)
Reading(n) == {record[n], Other("unavailable")}

If(condition, status) == IF condition THEN "confirmed" ELSE status

(* The command line is parsed and the accounts of the host are listed.     *)
Start(c, n, stage) ==
    /\ pc = "idle"
    /\ command' = c /\ name' = n /\ known' = (n \in account)
    /\ pc' = stage
    /\ UNCHANGED <<claim, scan, verdict>>
(* The process is gone, and the host as before any command. *)
End ==
    /\ pc = "done" /\ pc' = "idle"
    /\ command' = "none" /\ name' = Trial
    /\ known' = FALSE /\ authoritative' = FALSE /\ verdict' = "none"
    /\ UNCHANGED <<evidence, claim, scan>>
-----------------------------------------------------------------------------
(* apx environment inspect *)

StartInspect(n) ==
    /\ n \in account
    /\ Start("inspect", n, "registration")
    /\ evidence' = {"confirmed"}
    /\ authoritative' = FALSE

InspectRegistration ==
    /\ At("inspect", "registration")
    /\ claim' \in Reading(name)
    /\ Observe("mount", {})
    /\ UNCHANGED scan

(* findmnt names the file system the home is on, or would be on; only with *)
(* a file system type is the subvolume looked at.                          *)
InspectMount ==
    /\ At("inspect", "mount")
    /\ \/ Observe("btrfs", {"confirmed"})
       \/ Observe("btrfs", {"ambiguous"})
       \/ \E s \in Unknown : Observe("home", {s, "unavailable"})
    /\ UNCHANGED <<claim, scan>>

(* Subvolume id, UUID and parent are compared with the registration's, as  *)
(* far as they can be made out.                                            *)
SameStorage == If(home[name].uuid = claim.uuid, "not-satisfied")

InspectBtrfs ==
    /\ At("inspect", "btrfs")
    /\ \/ /\ home[name] # NoHome
          /\ \E s \in SUBSET Unknown : Observe("home", {SameStorage} \cup s)
       \/ \E s \in Unknown : Observe("home", {s, "unavailable"})
    /\ UNCHANGED <<claim, scan>>

(* Without a valid registration this is the end *)
InspectUnregistered ==
    /\ At("inspect", "home") /\ claim.kind # "valid"
    /\ Report(ClassifyUnregistered(claim.kind))

(* The home as stat shows it: owner and group, and the mode *)
SameHome == {If(home[name].owned, "not-satisfied"),
             If(home[name].private, "not-satisfied")}

InspectHome ==
    /\ At("inspect", "home") /\ claim.kind = "valid"
    /\ \/ /\ home[name] # NoHome
          /\ Observe("list", SameHome)
       \/ home[name] = NoHome /\ Observe("list", {"not-satisfied", "unavailable"})
       \/ Observe("list", {"unavailable"})
    /\ UNCHANGED <<claim, scan>>
-----------------------------------------------------------------------------
(* Uniqueness scan of the registration directory *)

Entries == {n \in Names : record[n] # Absent}

(* mutant of ScanList: every name is read, listed or not *)
ScanListAll ==
    /\ At("inspect", "list")
    /\ \/ /\ listed' = Entries /\ unread' = Names \ {name}
          /\ doubt' = "none"
          /\ Observe("read", {})
       \/ Observe("marker", {"unavailable"}) /\ UNCHANGED scan
    /\ UNCHANGED claim

(* The names are listed, unless there are too many. *)
ScanList ==
    /\ At("inspect", "list")
    /\ \/ /\ Cardinality(Entries) <= MaxEntries
          /\ listed' = Entries /\ unread' = Entries \ {name}
          /\ doubt' = "none"
          /\ Observe("read", {})
       \/ Observe("marker", {"unavailable"}) /\ UNCHANGED scan
    /\ UNCHANGED claim

(* What one more file tells; malformed and conflicting ones tell nothing.  *)
Told(r) ==
    IF r.kind = "valid" THEN
        IF r.uuid = claim.uuid THEN "duplicate" ELSE doubt
    ELSE IF /\ r.kind \in {"absent", "unavailable", "unsupported"}
            /\ doubt = "none"
         THEN "uncertain" ELSE doubt

ScanRead ==
    /\ At("inspect", "read")
    /\ \E n \in unread :
          /\ \E r \in Reading(n) : doubt' = Told(r)
          /\ unread' = unread \ {n}
    /\ Observe("read", {})
    /\ UNCHANGED <<claim, listed>>

(* mutant of ScanConclude: a file that could not be read counts as a       *)
(* duplicate                                                               *)
ScanConcludeHarsh ==
    /\ At("inspect", "read") /\ unread = {}
    /\ \/ doubt \in {"duplicate", "uncertain"}
          /\ Observe("marker", {"not-satisfied"})
       \/ doubt = "none" /\ Observe("relist", {})
    /\ UNCHANGED <<claim, scan>>

(* A duplicate outweighs what could not be read. *)
ScanConclude ==
    /\ At("inspect", "read") /\ unread = {}
    /\ \/ doubt = "duplicate" /\ Observe("marker", {"not-satisfied"})
       \/ doubt = "uncertain" /\ Observe("marker", {"unavailable"})
       \/ doubt = "none" /\ Observe("relist", {})
    /\ UNCHANGED <<claim, scan>>

(* mutant of ScanRelist: a listing without new names will do *)
ScanRelistSubset ==
    /\ At("inspect", "relist")
    /\ \/ /\ listed \subseteq Entries
          /\ doubt' = "unique" /\ Observe("marker", {"confirmed"})
       \/ doubt' = "uncertain" /\ Observe("marker", {"unavailable"})
    /\ UNCHANGED <<claim, listed, unread>>

(* The names are listed again; their files are not read again. *)
ScanRelist ==
    /\ At("inspect", "relist")
    /\ \/ /\ Entries = listed
          /\ doubt' = "unique" /\ Observe("marker", {"confirmed"})
       \/ doubt' = "uncertain" /\ Observe("marker", {"unavailable"})
    /\ UNCHANGED <<claim, listed, unread>>

(* All that is put to the classification: what was seen before, and the    *)
(* marker                                                                  *)
Postconditions(s) == evidence \cup {s}

(* mutant of InspectMarker: an incomplete operation is not looked for *)
InspectNoMarker ==
    /\ At("inspect", "marker")
    /\ Report(ClassifyPostconditions(evidence))

(* The last observation, and the classification of them all *)
InspectMarker ==
    /\ At("inspect", "marker")
    /\ \E s \in {If(name \notin marker, "not-satisfied"), "unavailable"} :
          Report(ClassifyPostconditions(Postconditions(s)))

Inspect ==
    \/ \E n \in Names : StartInspect(n)
    \/ InspectRegistration \/ InspectMount \/ InspectBtrfs
    \/ InspectUnregistered \/ InspectHome
    \/ ScanList \/ ScanRead \/ ScanConclude \/ ScanRelist
    \/ InspectMarker
-----------------------------------------------------------------------------
(* apx environment removal-plan *)

Ready(condition) == IF condition THEN "ready" ELSE "blocked"

StartRemovalPlan(n) ==
    /\ Start("removal-plan", n, "sessions")
    /\ evidence' = {Ready(n \in account)}
    /\ authoritative' = FALSE

(* Only the sessions of accounts that were listed are counted. *)
PlanSessions ==
    /\ At("removal-plan", "sessions")
    /\ \E s \in {Ready(~known \/ activity[name] # "session"), "unknown"} :
          Observe("registration", {s})
    /\ UNCHANGED <<claim, scan>>

PlanRegistration ==
    /\ At("removal-plan", "registration")
    /\ \E r \in Reading(name) : Observe("home",
          {CASE r.kind = "unavailable" -> "unknown"
             [] r.kind = "absent" -> "not applicable"
             [] OTHER -> "ready"})
    /\ UNCHANGED <<claim, scan>>

(* Owner and mode are judged when account and home are both there. *)
PlanHome ==
    /\ At("removal-plan", "home")
    /\ \/ /\ home[name] # NoHome
          /\ Observe("contents", IF known THEN {Ready(home[name].owned),
                                                Ready(home[name].private)}
                                 ELSE {"unknown"})
       \/ home[name] = NoHome /\ known
          /\ Observe("processes", {"blocked", "unknown"})
       \/ Observe("processes", {"unknown"})
    /\ UNCHANGED <<claim, scan>>

(* Neither account nor home *)
PlanNothing ==
    /\ At("removal-plan", "home") /\ home[name] = NoHome /\ ~known
    /\ Report(IF name = Hub THEN "protected Environment"
              ELSE "Environment does not exist")

(* Subvolume, mounts below the home, disk usage and directory entries.     *)
(* Mounts are the one obstacle among them; a home that is gone is unknown. *)
PlanContents ==
    /\ At("removal-plan", "contents")
    /\ \/ home[name] # NoHome /\ Observe("processes", {"ready"})
       \/ home[name] # NoHome /\ Observe("processes", {"blocked"})
       \/ Observe("processes", {"unknown"})
    /\ UNCHANGED <<claim, scan>>

(* mutant of PlanProcesses: a failed ps counts as no process *)
PlanProcessesLax ==
    /\ At("removal-plan", "processes")
    /\ \E s \in {Ready(~known \/ activity[name] = "none"), "ready"} :
          Report(IF name = Hub THEN "protected Environment"
                 ELSE OverallRemoval(evidence \cup {s}))

(* ps is asked only about an account that was listed; of one that is gone  *)
(* since it finds nothing.                                                 *)
PlanProcesses ==
    /\ At("removal-plan", "processes")
    /\ \E s \in {Ready(~known \/ activity[name] = "none"), "unknown"} :
          Report(IF name = Hub THEN "protected Environment"
                 ELSE OverallRemoval(evidence \cup {s}))

RemovalPlan ==
    \/ \E n \in Names : StartRemovalPlan(n)
    \/ PlanSessions \/ PlanRegistration \/ PlanHome \/ PlanNothing
    \/ PlanContents \/ PlanProcesses
-----------------------------------------------------------------------------
(* apx host check, for the trial Environment, and apx host doctor and      *)
(* isolation-readiness, for the experiment, which look at account,         *)
(* registration and marker alike.  A positive answer is "ready" here; the  *)
(* isolation report calls it "satisfied".                                  *)

Searches == {"host-check", "doctor"}

Positive == IF authoritative THEN "ready" ELSE "requires-host-confirmation"

Vacant(condition) == IF condition THEN Positive ELSE "blocked"

StartSearch(c, n) ==
    /\ Start(c, n, "registration")
    /\ authoritative' \in BOOLEAN
    /\ evidence' = {IF n \in account THEN "blocked" ELSE Positive'}

StartHostCheck == StartSearch("host-check", Trial)

StartDoctor == StartSearch("doctor", Experiment)

CheckRegistration ==
    /\ command \in Searches /\ pc = "registration"
    /\ \E r \in Reading(name) : Observe("marker",
          {IF r.kind = "unavailable" THEN "unavailable" ELSE Vacant(r = Absent)})
    /\ UNCHANGED <<claim, scan>>

CheckMarker ==
    /\ command \in Searches /\ pc = "marker"
    /\ \E s \in {Vacant(name \notin marker), "unavailable"} :
          Observe("home", {s})
    /\ UNCHANGED <<claim, scan>>

(* mutant of CheckHome: a home that cannot be looked at counts as absent *)
CheckHomeLax ==
    /\ At("host-check", "home")
    /\ \E s \in {Positive, "blocked"}, others \in SUBSET Readiness :
          Report(OverallReadiness(evidence \cup {s} \cup others))

(* The home of the trial, and everything the check asks of the rest of the *)
(* host: mounts, sessions, the other accounts, programs.                   *)
CheckHome ==
    /\ At("host-check", "home")
    /\ \E s \in {Vacant(home[name] = NoHome), "unavailable"},
          others \in SUBSET Readiness :
          Report(OverallReadiness(evidence \cup {s} \cup others))

DoctorHome ==
    /\ At("doctor", "home")
    /\ \E s \in {Vacant(home[name] = NoHome), "unavailable"} :
          Observe("tools", {s})
    /\ UNCHANGED <<claim, scan>>

(* What the rest of the host may answer.  One status, the worst, stands    *)
(* for several checks of a kind.                                           *)
Tool == {Positive, "blocked"}
OptionalTool == {Positive, "not-applicable"}
CommandObservation == {Positive, "unavailable"}
SubordinateAllocation == {Positive, "blocked", "unavailable"}
QuotaEnabled == {Positive, "blocked", "unavailable"}
Collision == {Positive, "blocked", "unavailable"}
Gpu == {Positive, "blocked", "unavailable"}

DoctorTools ==
    /\ At("doctor", "tools")
    /\ \E a \in SubordinateAllocation \cup QuotaEnabled,
          c \in Collision \cup Gpu, t \in Tool \cup CommandObservation,
          o \in OptionalTool :
          LET checks == evidence \cup {a, c, t, o} IN
          \/ Report(ClassifyIsolationReadiness(checks))
          \/ Report(Advice(checks))

HostCheck ==
    StartHostCheck \/ StartDoctor \/ CheckRegistration \/ CheckMarker
      \/ CheckHome \/ DoctorHome \/ DoctorTools
-----------------------------------------------------------------------------
(* apx host validate, as far as it concerns one of its Environments *)

StartValidate(n) ==
    /\ Start("validate", n, "sessions")
    /\ evidence' = {} /\ authoritative' = FALSE

ValidateSessions ==
    /\ At("validate", "sessions")
    /\ \E s \in {Ready(~known \/ activity[name] # "session"), "unknown"} :
          Observe("home", {s})
    /\ UNCHANGED <<claim, scan>>

(* Owner and mode of a home that was seen; the owner only if the account   *)
(* was listed                                                              *)
ValidateHome ==
    /\ At("validate", "home")
    /\ \/ /\ home[name] # NoHome
          /\ Observe("processes", {Ready(~known \/ home[name].owned),
                                   Ready(home[name].private)})
       \/ Observe("processes", {"not applicable"})
    /\ UNCHANGED <<claim, scan>>

(* ps ends with 1 when it finds no process, and here that counts as a ps   *)
(* that failed, unlike in the removal plan.                                *)
ValidateProcesses ==
    /\ At("validate", "processes")
    /\ \/ known /\ activity[name] # "none" /\ Observe("contents", {"blocked"})
       \/ known /\ Observe("contents", {"unknown"})
       \/ ~known /\ Observe("contents", {"ready"})
    /\ UNCHANGED <<claim, scan>>

(* Mounts below a home that was seen, and the entries of a home that may   *)
(* have come or gone since                                                 *)
Mounts == IF "not applicable" \in evidence THEN {"ready"}
          ELSE {"ready", "blocked", "unknown"}

Contents == {"ready", "unknown"}
              \cup {s \in {"blocked"} : home[name] # NoHome}

ValidateContents ==
    /\ At("validate", "contents")
    /\ \E m \in Mounts, c \in Contents :
          Report(RemovalEvidence(evidence \cup {m, c}))

Validate ==
    \/ \E n \in Names : StartValidate(n)
    \/ ValidateSessions \/ ValidateHome \/ ValidateProcesses
    \/ ValidateContents
-----------------------------------------------------------------------------
(* apx environment create, which only plans *)

StartCreate(n) ==
    /\ Start("create", n, "home")
    /\ evidence' = {If(n \notin account, "not-satisfied")}
    /\ authoritative' = FALSE

CreateHome ==
    /\ At("create", "home")
    /\ \E s \in {If(home[name] = NoHome, "not-satisfied"), "unavailable"} :
          Observe("mount", {s})
    /\ UNCHANGED <<claim, scan>>

(* The file system of /home, confirmed as Btrfs or as another one, and the *)
(* plan; nobody looks at registration, marker, helper or authorization.    *)
CreateMount ==
    /\ At("create", "mount")
    /\ \E s \in Unknown \cup {"confirmed", "not-satisfied"} :
          Report(ArchitecturalEligibility(evidence \cup {s, "unavailable"}))

PlanCreation ==
    (\E n \in Names : StartCreate(n)) \/ CreateHome \/ CreateMount
-----------------------------------------------------------------------------
(* apx environment list and status, of each account, and apx host          *)
(* snapshot-readiness, which asks only for tools, keyring files and what   *)
(* fixed commands say of them: one look each                               *)

StartList(n) ==
    /\ n \in account
    /\ Start("list", n, "home")
    /\ evidence' = {} /\ authoritative' = FALSE

(* The home exists, as a directory of its account's; nothing else is asked *)
(* of a consistent one.                                                    *)
ListHome ==
    /\ At("list", "home")
    /\ Report(IF home[name].owned THEN "listed as consistent"
              ELSE "inconsistent")
         \/ Report("unavailable")

StartSnapshot ==
    /\ Start("snapshot-readiness", Experiment, "tools")
    /\ evidence' = {} /\ authoritative' \in BOOLEAN

TrustFile == {Positive, "blocked", "unavailable"}

SnapshotTools ==
    /\ At("snapshot-readiness", "tools")
    /\ \E t \in Tool, f \in TrustFile, c \in CommandObservation :
          Report(ClassifyIsolationReadiness({t, f, c}))

Glance ==
    (\E n \in Names : StartList(n)) \/ ListHome \/ StartSnapshot
      \/ SnapshotTools
-----------------------------------------------------------------------------
Command == Inspect \/ RemovalPlan \/ HostCheck \/ Validate \/ PlanCreation
             \/ Glance \/ End

Copied(n) == \E m \in Names \ {n} : record[m] = Valid(home[n].uuid)

(* What is true now of the Environment the command is about *)
Holding ==
    {f \in Facts :
        \/ f = "complete" /\ Complete(name)
        \/ f = "broken" /\ (~Complete(name) \/ Copied(name))
        \/ f = "idle" /\ activity[name] = "none"
        \/ f = "canonical" /\ Canonical(name)
        \/ f = "free" /\ Free(name)}

(* The facts each verdict speaks of *)
Watched ==
    CASE command = "inspect" -> {"complete", "broken"}
      [] command = "removal-plan" -> {"idle", "canonical"}
      [] command = "validate" -> {"idle"}
      [] command = "list" -> {"broken"}
      [] command \in Searches -> {"free"}
      [] OTHER -> {}

Running == pc \notin {"idle", "done"}

(* Facts are collected from the first observation to the last. *)
Began(n) == op[n] # "remove" /\ op'[n] = "remove"

Note ==
    /\ met' = CASE Running /\ Running' ->
                      met \cup (Holding' \cap Watched)
                          \cup {f \in {"removal"} : Began(name)}
                [] ~Running /\ Running' -> (Holding \cap Watched)'
                [] pc' = "done" -> met
                [] OTHER -> {}
    /\ rewritten' = IF pc' \in {"read", "relist"}
                    THEN {n \in listed : n \in rewritten \/ record'[n] # record[n]}
                    ELSE {}

HostNext ==
    /\ \/ Command /\ UNCHANGED life
       \/ LifeNext /\ pc # "done" /\ UNCHANGED <<report, pc, evidence, claim, scan, verdict>>
    /\ Note

HostSpec == HostInit /\ [][HostNext]_vars
-----------------------------------------------------------------------------
(* The state keeps to its types, and what a scan leaves unread was listed. *)
HostTypeOK ==
    /\ LifeTypeOK
    /\ command \in Commands /\ pc \in Stages /\ name \in Names
    /\ evidence \subseteq Observations \cup Readiness \cup Checks
    /\ known \in BOOLEAN /\ authoritative \in BOOLEAN
    /\ claim \in Records
    /\ listed \subseteq Names /\ unread \subseteq listed /\ doubt \in Doubts
    /\ verdict \in Verdicts
    /\ met \subseteq Facts /\ rewritten \subseteq listed

(* Inspect calls an Environment consistent, from observations no two of    *)
(* which were made at one moment, only if there was a moment during the    *)
(* command at which all of it agreed and no operation was incomplete; or   *)
(* else somebody has begun to remove it meanwhile.                         *)
ConsistentWasComplete ==
    verdict = "consistent" => met \cap {"complete", "removal"} # {}

(* Inspect calls an Environment incomplete, and list inconsistent, which   *)
(* asks an operator to act, only if something was missing, wrong or        *)
(* duplicated at some moment of the command: failed reads and concurrent   *)
(* changes alone never do.                                                 *)
IncompleteWasBroken ==
    verdict \in {"incomplete", "inconsistent"} => "broken" \in met

(* A removal plan is ready only for an account that was idle, and whose    *)
(* home was canonical, at some moment of the command, and never for the    *)
(* Hub; and host validate detects no blocker only where nobody was active. *)
ReadyWasIdle ==
    /\ verdict = "ready for removal" =>
           {"idle", "canonical"} \subseteq met /\ name # Hub
    /\ verdict = "no blocker detected" => "idle" \in met

(* A command calls the host ready only if its observations count as the    *)
(* host's own, and host check and doctor, which say so for a trial or an   *)
(* experiment, only if nothing of that existed at some moment of the       *)
(* command, however far a creation, rollback or removal went between their *)
(* looks at the parts.                                                     *)
FreeWasFree ==
    verdict \in ReadyForTrial =>
        /\ authoritative
        /\ command \in Searches => met \cap {"free", "removal"} # {}

(* When the scan confirms a storage identity as unique, every registration *)
(* that carries it now, of another name, was put there during the scan     *)
(* over a file that was already listed.                                    *)
UniquenessHeld ==
    [][doubt # "unique" /\ doubt' = "unique" =>
         \A n \in Names \ {name} :
             record[n] = Valid(claim.uuid) => n \in rewritten]_vars
-----------------------------------------------------------------------------
(* What the host holds of a name: marker and registration as they are      *)
(* read, account and home as they are.                                     *)
RegisteredAs(n) == IF record[n].kind = "valid" THEN {record[n].uuid} ELSE {}

PartsOf(n) == {p \in {"account"} : n \in account}
                \cup {p \in {"home"} : home[n] # NoHome}

IdentityOf(n) == IF home[n] # NoHome THEN {home[n].uuid} ELSE {}

Traced ==
    INSTANCE TracedEnvironment
    WITH Identities <- Uuids,
         noted <- Trial \in marker,
         registered <- RegisteredAs(Trial),
         parts <- PartsOf(Trial),
         identity <- IdentityOf(Trial),
         given <- spent

(* Wherever an operator who follows the plans for creation, rollback and   *)
(* removal stops, whatever is left of an account or a home has a marker or *)
(* a registration that tells of it: the registration is made of both, with *)
(* the identity of the home, and is the last to go, with the marker.       *)
PlansKeepTrace == Traced!Spec
=============================================================================
