# Verification of APX

APX (`src/`) manages isolated Environments on an Arch Linux host. A Hub asks, a
privileged executor on the host acts. Most of the repository is a library of
typed records, journals and assessments that a later executor will use
(`src/src`), and one working headless laboratory runtime
(`src/scripts/virtual-lab`). This directory holds TLA+ models of the parts that
keep state, TLC runs over small instances of them, and proofs of their main
properties for all instances.

Run `tlc -config X.cfg M` for a run listed in `PROJECT.json` and
`tlapm M.tla` for a proof module.

## Inventory

| Component | State it keeps | Operations | What is hard |
|---|---|---|---|
| Operation journal: records (`apx_executor_journal.py` 145-426) | status, completed prefix of the plan's effects, prepared effect, observed resources, recovery class | create, prepare, record success, verify, complete, mark incomplete, assess recovery | legal sequences that reach a record nothing can follow; resources reported again; a class recorded now and recomputed later |
| Operation journal: `FixtureJournalStore` (476-611) | one file per operation, directory flock, temporary files | create, read, update (compare, write, rename, fsync) | races of processes, failed system calls, crashes and power loss between them, reads without the lock |
| Laboratory runtime, executor daemon, client (`scripts/virtual-lab`) | directory, root, home and registration of each Environment, machines, plan files, snapshots, archives, a shared hash-chained journal; of the daemon the connection it serves and its socket | create/destroy plans, create, start, stop, destroy, snapshot, archive, restore, recovery-status, recover-clean-unpublished; accept, read, authorize, dispatch, answer | commands of several processes without a lock, crashes between effects, plans applied late, machines that boot and stop on their own; clients that wait, stay silent or go, a daemon that restarts under a running Hub |
| External model attachment (`apx_external_model_lifecycle.py`, `apx_external_model_storage.py`) | 6 attach and 6 detach steps, activation evidence, detach approval, one record in memory | prepare, record success, record activation, begin detach, mark uncertain, assess; the same store | partial attach and detach, a step performed and not recorded |
| Physical update journal | 10 effects, activation boundary after the fourth with its own approval, one record in memory | prepare, record success, bind approval, mark uncertain, assess; publish, compare-and-swap, read | two processes, an effect performed and not recorded, class of an uncertain record |
| Hyprland H0 journal | 10 effects from lease to teardown, one record in memory | prepare, record success, mark uncertain, assess; the same store | when the recovery VT is needed, class of an uncertain record |
| Clean-install journal, dossier | 35 effects in ten stages, eight of them with an approval, records in memory | bind approval, prepare, record success, complete, mark incomplete, assess; a store that derives what it accepts | destructive stages, class of an interrupted stage, a store that refuses a legal step |
| Release promotion, candidate, catalogue | 10 steps, admission approval after the eighth, records and catalogue in memory | prepare, record success, bind approval, mark incomplete, assess, build release; publish, compare-and-swap, publish catalogue | admission interrupted, release published later than built, incomplete record assessed as continuable |
| Staging, transfer, download, acquisitions that use them (`apx_staging.py`, `apx_transfer.py`, `apx_downloader.py`, `apx_graphical_acquisition.py`) | operation directory in /tmp, staged files, `.partial` files; of a stream its room, length and digest | reserve, begin stream, write, finalize, download, acquire, resume | a crash between any two system calls, leftovers that a resume must tell from files, a resume that overlaps the acquisition, one limit for all files |
| Executor request contract (`apx_executor_contract.py`) | none (a function of request, plan, approval and the evidence about the present: generation, state, nonce, session, time) | build plan, assess request | late, repeated and altered requests, stale generations, sessions that end |
| Cleanup completion, capacity (`apx_cleanup.py`, `apx_capacity.py`) | none (a function of plan and evidence) | validate a cleanup plan, assess a cleanup; assess capacity | evidence gathered piece by piece while a deletion goes on and names are taken by others; sums at limits |
| Hub view (`apx_hub.py`) | none | build the view: which buttons are enabled and what approval each asks for | a view is stale as soon as it is shown; it keeps its own table of approvals |
| Environment life and the read-only host commands (`apx_environment.py`, `apx_registration.py`, `apx_consistency.py`, `apx_removal.py`, `apx_host.py`, `apx_practical.py`, `apx_isolation.py`, `apx_cli.py`) | of each Environment an account, a home, a registration file, an incomplete-operation file; of a command what it has observed | planned creation, rollback and removal; list, inspect, removal-plan, create (plan only), validate, host check, doctor, isolation- and snapshot-readiness | a verdict put together from reads at different moments, any of which may fail; a directory that changes while it is scanned |
| Policy, ownership and installation classification | none | pure classification | total over inconsistent observations |
| Package resolution and base builds, dossiers and gates, rendering, pilot scripts | none, or data only | validation, rendering, one-shot builds | content rather than control |

How they interact: the Hub client sends one request per connection to the
executor daemon, which serves them one by one and calls the runtime in its own
process; the `apx` command on the host calls the same runtime from other
processes, with nothing shared but the file system. In the library the Hub
view offers operations, an approval is given for the plan of one, the request
contract admits it, a deletion goes on as a cleanup whose assessment frees the
name; the plan's effects go into an operation journal, the
journal store keeps it across crashes, and recovery is decided from the stored
journal alone. The other journals (attachment, update, H0, clean install,
promotion) follow the same pattern, each with its own phases and boundaries and
an in-memory store whose compare-and-swap is all that orders the processes that
drive an operation. The `apx` host commands only look at what others do to the
host and share nothing with them but the host itself.

What makes each correct, in a line: *journal* - recovery never says something
false of the host and never loses what is recorded; *store* - write-ahead order,
durable acknowledgements, one successor per record; *runtime* - what is
registered is whole, what is left behind is reported, plans act on what they
were made for; *attachment* - detach only what was
attached, never report detached while mounted; *update, H0, clean install* - no
step without its approval, classes true to the step reached; *promotion* -
nothing is in the catalogue unverified; *staging* - limits hold for all streams
together, a staged file is complete or absent; *host commands* - a verdict was
true at some moment of the command; *contract and Hub view* - an approval admits
exactly its own plan, once, in its own session and time, and what is offered can
be planned and, once approved, had; *cleanup* - a name is free only when nothing
is left, and in the end it is unless the deletion is stopped; *daemon* - what it
answers is true, and a client that goes does not keep it from the next one.

The full list of hazards, each at its line with the property that covers it, is
in `PROJECT.json`.

## Plan

1. Operation journal and its store, with the abstract write-ahead log they
   implement, type correctness, the safety invariants and the refinement proved.
   *Done.*
2. Laboratory runtime: one name, commands by one or two processes. *Done*.
   Daemon, clients and Hub in front of it (`LabExecutor`). *Done*, with the
   proof that all they do is steps of the runtime's specification.
3. Step journals: attachment, physical update, H0, clean install and promotion,
   each as a module of pure operators, composed with their store and the
   processes that drive them. *Done.*
4. Staging, transfer, download, and the acquisition that resumes. Types proved
   for any number of processes, verified content and complete reports for one at
   a time. *Done.*
5. Environment life and the commands that judge it. Types and all verdicts proved
   for any number of names. *Done*, `create`, `validate`, `doctor`, `list` and
   the two readiness reports included.
6. `ExecutorContract`, `HubView` and `CleanupCompletion` as operators and
   cleanup actions, composed in `HubRequests` with approvals that are presented
   again, late or changed, sessions, time and interrupted operations. All safety
   properties proved. *Done.*
7. Abstract specifications of the parts besides the store: `WholeEnvironment`,
   which the runtime with one process implements, `TracedEnvironment`, which
   `EnvironmentLife` implements, `StagedEffects`, which all five step journals
   implement, and `VerifiedFiles`, which the acquisition implements. *Done*, each refinement proved. The
   aggregate limit of the acquisition proved as well, so that no safety property
   of a passing run is without a proof.
8. Left: the same for `HubRequests` (an approval that is used once) and for the
   daemon (a call that is answered); capacity, with growth that is judged and
   then used (`apx_capacity.py` reserves nothing); the machine against destroy
   in the runtime; torn journal lines and temporary files; previews of
   attachments from observations (`apx_external_model_storage.py`).

Runs stay at one passing run per component plus one per disagreement found; two
or three actors each.

## Modules

### ExecutorJournal

The records and the pure transitions of `apx_executor_journal.py`. A journal is
a record of status, number of completed effects, prepared effect, resources by
id and recovery class. The effects of a plan are unique and fixed, so a prefix
is a number. A transition returns the set of journals it may return: empty when
the code raises, since `Validated` keeps only what `validate_journal` accepts,
which is what `_next` does. Names, digests, timestamps and reasons are left out.
`AssessRecovery` is `assess_recovery` branch by branch.

### JournalLifecycle

One journal in memory under any sequence of operations: `Prepare`,
`RecordSuccess`, `BeginVerification`, `Complete`, `Fail`.

### JournalStore and WriteAheadLog

`FixtureJournalStore` on one file. Each system call is an action: taking the
flock, reading and comparing, writing the temporary file, link or replace,
unlink, fsync of the directory. Each of them may fail (`WriteTempFails`,
`InstallFails`, `SyncFails`, `CompareFails`), a process may die anywhere
(`Crash`) and the machine may lose power (`PowerLoss`), after which the file is
in any state it had since the last fsync (`Survivors`). Because each record
names its predecessor's digest, a digest stands for the chain that ends in it,
and the file is modelled as that chain; digests are assumed not to collide.

No code of the repository calls the store yet. The caller is the one
`docs/privileged-executor-protocol-v1.md` prescribes: it starts an effect only
after its own call that prepared it returned, and records a success only of an
effect it started itself. `StartEffect` and the two variables `ack` and `did`
are that discipline; the results about effects depend on it, those about the
file do not.

`WriteAheadLog` is the promise: a log of phases that grows one legal phase at a
time and of which a power loss takes at most the unflushed end. `JournalStore`
implements it with the file's phases as the log and the length of the durable
chain as its flushed part.

### LabRuntime

One Environment name of `apx-lab-runtime.py`. A process is an interpreter that
runs one command: the daemon, or a command of the host console. `proc[w]` is
where its command stands and what it has read: its registration record, its
operation id, the generation its plan names. Each effect of a command is an
action (`MakeDirectory`, `MakeRoot`, `MakeHome`, `Configure`, `Publish`,
`Unpublish`, `RemoveHome`, ...). The exception handler of create and restore is
`BuildFails`. `Interrupt` is the death of a process and every exception that no
handler catches, timeouts of start and stop included. The machine changes on
its own (`MachineChanges`); `Reboot` stops it and every process.

Of the journal the model keeps what its two readers take from it: for
`recover`, the last status of each operation; for `recover_unpublished`, the
last create or restore event that says "started" or "uncertain", which the code
does not compare with later events of the same operation. A subvolume is the
number of the operation that made it, so that two Environments of the same name
can be told apart.

### LabExecutor

The daemon, a client and the Hub in front of `LabRuntime`, which it extends.
`connection` is the connection being served and where the daemon is with it:
accepted, reading, performing, answering. One connection at a time, so the
others are in the backlog, of which nothing is known; `Accept` therefore takes a
client that is still there or one that has gone. `present` says which, in all
phases: the client may go (`GiveUp`), or its Hub with it, and as long as it
does not, it may leave the daemon waiting, for the end of its request in `recv`
or for room in the socket in `sendall`, neither of which has a timeout. The
`apx` client goes after 300 seconds; any other program of the Hub need not.
`authorize` asks once, before the request is read, whether the caller is inside
the active Hub (`Admit`, `Reject`); a Hub that stops later does not undo it. The
request itself is chosen when it is read (`Refuse`, `HangUp`, `Tell`,
`DispatchPlan`, `Dispatch`), also of a client that has gone. An error is one
line and fits into the buffer of the socket; output need not. What a request
begins is a command of `LabRuntime` by the process `Daemon`, and whether it
raises or returns is the answer (`Returns`, `Fails`).
`hub` is the machine of the Hub and whether it has the socket: a daemon that
comes back binds a new one that a running Hub does not have (`DaemonDies`).

The daemon and the console take turns here, `Console` being enabled only while
no connection is served. Nothing in the code enforces that; what happens
without it is `lab_two_processes`.

### ExecutorContract, HubView, CleanupCompletion and HubRequests

`ExecutorContract` is the table of operations and `assess_executor_request`,
grouped by what its conditions compare: request with plan (`Matches`), with the
present (`Current`), with the approval (`Bound`), the session and the time. A
digest stands for what it is computed from, so a plan is its own digest. `HubView` is
`build_hub_view` as far as it enables an action: which operation each button
requests of which Environment, and which approval it asks for. `CleanupCompletion` is
`validate_cleanup_plan` and `assess_cleanup` over a plan that gives each kind of
resource a disposition, with the resources that are freed one step at a time
(`Reclaim`), may turn out to be something else (`Replace`), and are looked at
one by one (`Look`). A round that ends in "deleting" or "freeing-space" starts
again (`NotYet`). One that ends in "preserved-uncertain" or "failed" stops the
deletion (`Halt`): `approved`, which `assess_cleanup` takes from its caller, is
FALSE from then on, as `docs/cleanup-completion-v1.md:43` asks for a separate
approval there. It may come (`Resume`) or not; nothing in the source gives it,
and the Hub has no button for it. Without it what is being freed still goes on
being freed, since that is the file system's, and nothing else is begun or
looked at.

`HubRequests` composes them. The parts of the code are pure; executor, approval
authority and session are outside and are modelled from the evidence the code
asks for. `Approve` gives an approval for any button a view may show, where the
view may fail to observe any Environment and is stale from then on. `Receive` is
a request: it names an approval and is the one that was approved, or one made
anew for the present generation, or one with another nonce or a later expiry; it
may come late, again, or never. Time, session and generation change in between
(`Tick`, `Unlock`, `Open`, `Revise`). An authorized request has its nonce
reserved when the operation begins; `Interrupt` cuts an operation short at any
point and leaves the Environment incomplete, from where `recover_complete` is
offered. No approval is issued for an offer without a plan (`Plannable`), and
which offers those are is a property of its own, `OffersPlannable`.
`ConfirmedCompatible` is the evidence "confirmed-compatible", which the source
takes from whoever observes: here it means that the Environment is in the state
the operation starts from and nothing else is under way.

### CleanInstallJournal, PhysicalUpdateJournal, H0Journal, PromotionJournal, AttachmentJournal

The record of each operation, what its validation accepts (`Valid`), its
transitions, and its recovery assessment (`Class`, `ContinuationAllowed`). Each
transition is an operator that returns the set of records it may return, empty
when the code raises. Its `_next` validates the result; here results are left
as they are, and that all of them are valid is part of `TypeOK`.

The effects of an operation are a fixed tuple and the validation demands that
the completed ones are a prefix of it and the prepared one is the next, so they
are numbers, with the real counts and boundaries of the code: 35 effects of a
clean installation in ten stages, 10 of an update, an experiment and a
promotion, 6 and 6 of an attachment. Digests, sequence numbers, identities and
reasons are left out. A stage approval is its stage, as the stage fixes its
class.

### StepJournals

One operation of any of the five kinds, its fixture store, and any set of
processes that drive it. `PublishNew`, `Read`, `Swap` and `PublishCatalogue` are
the methods of the stores; the five stores differ in what they test beyond the
chain, and only for the clean installation does that make a difference
(`Accepts`, the operator `ExactTransition`). Comparing records stands for
comparing digests: every step changes a field that no later step changes back,
so a record occurs once in the life of an operation.

The processes are outside the repository. As the documents ask ("journals
before effects, verifies after effects"), one starts an effect only if its own
`Swap` prepared it and records the success only of an effect it has performed.
`turn` is that discipline; it ends with the next swap, a new read, or death
(`Abandon`). The results about effects rest on it and on the stores.

`shared` tells whether the record is in the store. If it is not, one caller
keeps the last record it derived in a variable, as the tests of the
installation do from the third stage on; no test takes the store that far, and
it would refuse (`install_store_refuses`). Without such callers nothing past
the third stage of an installation could be checked.

### AcquisitionStaging

`apx_graphical_acquisition.py` from the first mkdir to its report, with the
download and the streaming writer it calls for each request. Every system call
that another process or a later one can notice is an action: the three steps of
a reservation, the scan of a resume and each removal of a leftover, measuring
the directory, opening the partial file, each chunk, and `link` and `unlink` of
`finalize`. An exception of any check ends the process as a kill does, so the
checks are guards and `Stop` is both; what it leaves in the directory is what
the next process finds.

A file is how much of it is written, the length its server announced, and
whether its content is the one the manifest names. For a package the announced
length must be that of the manifest; a signature has only a maximum, so the
server may announce less. `genuine` is the comparison of digests, which are
assumed not to collide. Names are numbers of requests; entries nobody requested
are left out, as a resume refuses them at once, and so is fsync, because the
directory is in /tmp and does not survive a power loss.

The package and database acquisitions take the same steps, never with a resume.

### EnvironmentLife and HostCommands

`EnvironmentLife` is the host the commands look at: of each name its account,
home, registration file and incomplete-operation file. Creation takes the steps
of `CREATION_STEPS` in order, may stop at any of them, and can be rolled back in
any order of resources where `classify_rollback` finds that automatically
eligible. Removal takes the steps of `REMOVAL_PLAN`, starts only with an idle
account, and is never of the Hub. People log in, leave processes behind, change
owner or mode of a home that no operation is at work on, and write whatever they
like to the registration files of `Strays`. The library plans these operations and performs none;
their order is the plans' order, and that nobody deviates from it is assumed.

The identity of an Environment is a function of its logical name, so everything
is indexed by name. Subvolume id, UUID and parent UUID are one value, used once.
All homes are Btrfs subvolumes, and registration files have the right owner and
mode, since a wrong one only adds a reason to report "incomplete".

`HostCommands` adds the commands, each an interpreter that makes one
observation per action while the host goes on between them: inspect,
removal-plan, host check, doctor and isolation-readiness (which look at the same
things and put the answer in different words), validate, create, list and
status, and snapshot-readiness. Every observation
may also come out as unavailable or ambiguous. A verdict depends on which
statuses occurred, not on how often, so `evidence` is a set. The uniqueness scan
is modelled entry by entry: a listing (`scandir` read in one step), a read of
each file, a second listing (`ScanList`, `ScanRead`, `ScanConclude`,
`ScanRelist`). What `host check` asks of the rest of the host is any set of
results; what the isolation report asks is one status per kind of check
(`Tool`, `SubordinateAllocation`, `Gpu`, ...), each with the statuses it can
have. validate and list say something of every Environment; the model follows
one of them at a time, since nothing they say of one depends on another.

The properties compare a verdict with the host. `Note` keeps in `met` what has
been true of the Environment since the command's first observation, and in
`rewritten` whose file changed since it was listed. Once the verdict is printed
the host waits until the command ends, so that every state with a verdict can be
judged; this removes no behaviour before it.

### WholeEnvironment, TracedEnvironment, StagedEffects and VerifiedFiles

What four of the components promise, without processes, interruptions or the
steps in between. Like `WriteAheadLog` they translate no code; the modules that
implement them do, and each states the mapping before the property.

`WholeEnvironment` is an Environment as its user sees it. It is registered at
once, with an identity that was given to nothing else and that all its parts
have; it is unregistered at once; what is left then, or of a creation that was
given up, goes before another one begins; what is saved is saved of a registered
one. `LabRuntime` implements it (`KeepsWhole`): an identity is the operation
that made the subvolumes and the parts are directory, root and home, the
directory with the identity of what is in it.

The host commands plan another order: `destroy` of the runtime unpublishes
first, while `REMOVAL_PLAN` takes the account, then the home, and the
registration last, so that a registered Environment is not whole while it is
removed. What that order is for is `TracedEnvironment`: nothing of an
Environment is ever on the host without a file that tells of it. A note of the
operation comes before account and home, the registration is made of both with
the identity of the home, and registration and note go when both are gone.
`HostCommands` implements it (`PlansKeepTrace`) for the name `Trial`, which may
be any managed one. Every variable of the mapping is on the disk of the host:
the marker, the registration where it is valid, account, home, and the storage
UUID of the home. What operation is under way plays no part in it.

`StagedEffects` is the life of an operation with a plan: opened once, its effects
approved, prepared, begun and recorded one after another, complete or given up
in the end, after which only an effect that was prepared before may still begin,
once. `StepJournals` implements it for all five kinds (`ImplementsStagedEffects`)
with the stored record, or the one a caller keeps, for what is recorded and
`started` for what is begun. An incomplete, uncertain or otherwise ended record
is "given-up".

`VerifiedFiles` is a directory that goes from empty to complete: the files of
a list get their names in order, each at once with a content its request admits,
and there is one temporary file at most. `AcquisitionStaging` implements it
(`KeepsVerified`) with the content of the inode under each name.

### Proof modules

`ExecutorJournalProofs`, `JournalLifecycleProofs`, `JournalStoreProofs`,
`LabRuntimeProofs` (which also proves about `LabExecutor`),
`StepJournalsProofs`, `AcquisitionStagingProofs`, `HostCommandsProofs` and
`HubRequestsProofs`, described below.

## Runs

| Run | Instance | Shows |
|---|---|---|
| journal_lifecycle | 3 effects, 3 resource ids of which 2 fit, 8 observations | valid records, stable classification, nothing forgotten |
| failure_recordable | the same | **violated**: a prepared journal cannot be marked incomplete |
| journal_store | 2 processes (symmetric), 2 effects, 1 resource | write-ahead, effects once and in order, durable acknowledgements, the lock where it belongs, truthful recovery, refinement |
| lab_executor | the daemon and a console in turns, 3 operations, 2 generations, 2 saved copies | registered is whole and untouched, leftovers reported, answers are true, only a client that stays keeps the daemon from the next; refinement of `WholeEnvironment`, copies included |
| lab_two_processes | 2 processes | **violated**: a registered Environment without its subvolumes |
| lab_stale_plan | 1 process | **violated**: a destroy plan destroys a later generation |
| step_journals | 2 processes (symmetric), each of the five operations with all of its effects | effects once, in order and approved; records and recovery classes true of them; catalogue only of finished promotions; refinement of `StagedEffects` |
| install_store_refuses | the same | **violated**: the installation store refuses every step after the first approval |
| staging | 1 process at a time, 3 files of 2, up to 3 and 2 chunks, 4 inodes, room for 6 chunks, 5 authorized | staged is verified, the directory keeps its limit, a reported success is complete; refinement of `VerifiedFiles` |
| staging_overlap | 2 processes | **violated**: a file nobody verified is published |
| host_commands | 1 managed name (the trial), the Hub's registration in stray hands, 2 storage identities, at most 2 entries | the verdicts of all commands were true during the command; how far a confirmed uniqueness goes; refinement of `TracedEnvironment` by creation, rollback and removal |
| hub_requests | the Hub and 2 names of which 1 is deleted, 2 kinds of resources, 2 approvals, 2 instants, 2 sessions, 2 generations | approved, once, in time and in session; one Environment open; offers can be planned, but for two, and are honoured; a name is free only when nothing remains, and in the end unless its deletion is stopped |

The five violations are disagreements between the code and its documents;
`PROJECT.json` quotes them.

Type correctness of the store, the runtime, the step journals, the acquisition
and the requests is proved for all instances and no run checks it.

**Bounds.** Observations in the journal runs contain every resource state that a
branch of `assess_recovery` tells apart, a second identity, and one more id than
fits. Two effects are enough for "out of order" and "twice"; two processes for
every race, as the store compares one file with one expectation. `MaxAhead = 2`
lets a process derive two journals beyond what it read, so that an `update`
which must be refused because it skips a record is tried too; more would only
repeat that. Three operations in the runtime suffice for
create, destroy, and a restore or a second create, or for one that is cut short,
its recovery, and another one in its place; two generations for an Environment and its successor, or for
a plan that is made twice; two copies for an archive (which takes a snapshot first). The
two violations of the runtime have bounds of their own in their configurations.

The step journals need no bound: their records are finite and a process holds
one of them. Two processes again give every race.

The three requests of an acquisition are two packages around a signature, whose
announced length decides whether the last package fits, whether it does not and
the stream is cut, and whether the authorized sum is exceeded by files that all
fit. Four inodes are one more than there are files, for the partial file of a
resume beside a leftover. Interruptions and resumptions are not bounded.
`MaxFiles` never refuses, as `MAX_FILES` is above the number of requests of
every list.

The host commands need one Environment in its full life and one more file that
names its storage identity, since duplicates, failed reads and changes of the
listing all come from other names; with two identities a home can be removed and
made anew once, so a registration can be stale. Commands run one after another
without bound. The Hub is among the names, so its protection is tried.

In hub_requests, two approvals are enough for one that is used with the other's
nonce, for two operations at once on one Environment or on two, and for an
operation and its recovery. With `MaxLifetime = 0` an approval of the window
`<<0, 1>>` is too long and one of `<<0, 0>>` expires with the next instant; two
instants are now and too late. Two sessions and two generations are the one of
the approval and another one. Of the resources the registration is mandatory and
the snapshot may be absent, preserved or deleted; two of them are enough for
observations of different moments. The operations considered are one of each
approval class and effect (archive has the effects of a snapshot, restore those
of create, stop and force-stop have no button, nor has recover-cleanup).

Two of the verdicts have an exception, which TLC showed to be needed. Account
and registration are read first and not again, so inspect may call consistent
what somebody has begun to remove meanwhile, although it was never complete
during the command: the creation's marker goes after the account was removed.
In the same way host check can find each part of the trial absent while a
creation ends and a removal begins behind its back.

**Deadlock** is checked except in the lifecycle runs, where a complete or an
incomplete journal has no successor, in the step journals, where the one
caller that keeps its record may die, in the staging runs, where a
half-made reservation is preserved and nothing continues it, and in
hub_requests, where time, approvals and sessions run out and the last approved
operation may be over.

**Fairness** is stated where something is claimed to happen in the end.

- `CleanupEnds`: weak fairness of `Reclaiming`, `Looking` and `Judging`. An
  approved deletion is worked on, as `docs/cleanup-completion-v1.md` has the
  machine free what is listed; each resource is looked at ("restart resumes
  observation"); and a finished round is judged. How the judgement turns out is
  open: any round may be uncertain, without authority or fail a safety
  condition, and then the deletion is stopped, for ever if nobody approves it
  anew. That is why the property says "over, or stopped". No approval,
  operation, person or clock is assumed to come.
- `Served`: weak fairness of `Authorize`, `HangUp`, `Perform` and `Deliver`,
  each of which the daemon does by itself: it is not waiting for a client there.
  `Perform` assumes that the programs the runtime calls come to an end (it gives
  them no timeout; its own waits around machines last 10 to 30 seconds). Of the
  clients nothing is assumed. A client of the running Hub that connects and
  says nothing, or does not take its answer, therefore holds the daemon for
  ever, as it does in the code (`apx-lab-executor.py:109` and `:125`), and
  `Served` says so: it is either accepting again and again, or from some moment
  on with one client that stays.

No fairness is assumed of acquiring the journal's lock, and nothing is claimed
of it.

## Proofs

All constants are arbitrary, under the named assumptions of the modules.

- `ExecutorJournalProofs`: every transition leads from journals that `read`
  accepts to such journals; a prepared journal has no failure successor (the
  defect above, for every plan); automatic deletion needs resources that are all
  owned, empty and unpublished.
- `JournalLifecycleProofs`: type correctness; the recorded class of an
  incomplete journal is the one `assess_recovery` gives for it now, whatever
  approval and gates; nothing recorded is forgotten.
- `JournalStoreProofs`: types, `LockHeld`, `WriteAhead`, `AckedSurvives`, `EffectsInOrder`,
  `RecoverySound`, and `Spec => ImplementsWriteAheadLog`. The invariants are not
  inductive alone. `StoreInv` adds that exactly the process in a call's critical
  section has the lock, that after the comparison the file still is the caller's
  base and after the rename what the caller holds, and that every survivor of a
  power loss lies between the durable chain and the file, with the acknowledged
  chain below both. `OrderInv` counts: the effects started are those each
  survivor counts as completed, or one more when it ends in a prepared effect;
  at most one process has the right to start that effect, the one whose own
  update prepared it; and no process can store a success for an effect that has
  not started. That is where the discipline of the caller enters. The
  refinement follows from these and from the fact that each transition is a
  legal phase.
- `LabRuntimeProofs`: type correctness for any set of processes. The other
  properties are proved for `Processes = {p}`, any bounds: commands that never
  overlap but crash anywhere. `lab_two_processes` shows that the assumption
  cannot be dropped for `RegisteredIsWhole`. The strengthening `SerialInv`
  says at each label what the command knows: that a build has not published
  and made the subvolumes there are, that the record it read is the one
  registered, that a removal has unpublished, and that the operation at work
  was announced and is not yet reported as complete; that every saved copy has
  root and home of one Environment (`CopiesWhole`) is part of it, which two
  processes break. `ExecutorImplements` shows
  that daemon, clients, console and Hub only take steps of the runtime, so all
  of this holds behind the daemon too, `KeepsWhole` included. That refinement
  needs one thing more (`Emptied`): outside a directory nothing exists, and a
  restore that has made the directory finds it empty, so remains are gone before
  the next Environment is begun. `AnswerTrue` needs `CallInv` beside it:
  what a command has done to its operation at each of its labels
  (`OperationTrue`), and that a request never leads into the cleaning of an
  unpublished Environment (`Requested`), whose operation is another's.
- `StepJournalsProofs`: all six invariants of the run, for any set of drivers.
  The validations are weaker than what the transitions keep: they accept a
  prepared effect without its approval, or any progress in an uncertain record.
  `Backed` says what is true of the records transitions lead to, and one lemma
  per kind (`InstallSteps`, ..., `AttachmentSteps`) shows that a step keeps a
  record valid and backed, changes the effects counted in one of three ways
  (`Shape`) and takes back no approval (`Keeps`). From there the proof speaks of
  all kinds at once: `OrderInv` with `TurnInv` says that at most one driver has
  its turn, that while it does the stored record still says prepared, and
  whether that effect has started. `ClassesTrue` is
  `RecoveryTrue` branch by branch, for every backed record. `CatalogueInv` adds that an admitted promotion has no step.
  `StagedEffectsImplemented` maps each transition of each kind to one step of
  `StagedEffects`, and reads, refused swaps and lost drivers to none; that an
  approval is never given ahead of its effect is where the kinds differ.
- `AcquisitionStagingProofs`: type correctness for any number of processes, any
  list of requests and any limits. `StagedVerified` and `ReportComplete` for
  `Processes = {p}`; `staging_overlap` shows that the first needs it. The
  strengthening `SerialInv` says that before the reservation is ready nothing is
  in it (`Reserved`), that the only partial file is the one in transfer or still
  to be removed (`PartialKnown`), that what is written has no other name until
  it is verified (`WritesPartial`), and that the requests before the current one
  are staged (`EarlierStaged`). `AggregateHeld` is a sum over the files there
  are, so its proof begins with sums: that a recursive sum over a finite set
  exists, does not depend on the order in which elements are taken, and changes
  with one summand as it should. The library's induction theorems take an
  operator and cannot be used; `SetInduction` takes a set instead, proved from
  the least number of elements with which it could fail. `RoomKept` then says
  that the room a stream found when it opened is still there beside what all
  other files hold. `KeepsVerified` needs
  `Unfetched`: a file that is being fetched has no name yet. Both are for
  `Processes = {p}`; an overlap breaks `KeepsVerified` as it does
  `StagedVerified`, and two streams that open together share one room.
- `HostCommandsProofs`: type correctness, the four verdict properties and
  `UniquenessHeld`, for any sets of names and storage identities. The
  strengthening `HostInv` has three layers. `LifeInv` says of each name what
  creation, rollback and removal keep (`LifeOf`: which resources exist before
  which, and that the registration of a managed name agrees with its home until
  removal begins). `Noted` says that `met` contains all that is true now, so a
  command that sees a fact has it noted. `InspectInv`, `ScanInv`, `PlanInv` and
  `CheckInv` say what the clean evidence collected so far implies: for inspect,
  that the Environment was complete, is being removed, or is still being created,
  in which case the marker, which is looked for last, settles it; for the
  commands that search, that every "ready" so far was the host's own
  observation. `PlansKeepTraceHolds` needs `LifeInv` only: each step of
  creation, rollback and removal of the trial is one of `TracedEnvironment` or
  changes nothing on the host (`TrialStep`), since `LifeOf` says which parts are
  there when a registration or marker goes; a step about another name is a
  stutter, or takes an identity (`OtherStep`).
- `HubRequestsProofs`: types and the seven safety properties, for any sets of
  names, kinds of resources and windows, any bounds and any longest lifetime.
  `IInv` says what an approval looks like (`Faithful`), that a nonce is spent
  exactly when an operation began with it (`SpentOnce`), that an operation is
  under way by an approval that exists and never on the Hub or a deletion
  (`UnderWay`), that the Hub is open whenever there is a session or an operation
  that will close it, of which there is one at most (`HubHolds`), that what was seen to be absent
  is gone (`SeenGone`), and that an Environment that is open, closed, or cut
  short in anything but its making has a generation (`Registers`). `AtMostOnce` is `SpentOnce`;
  `OneActive` needs `HubHolds`, since opening another Environment is what closes
  the Hub; `OffersPlannable` follows from `Registers`, branch by branch of the
  view; `OffersHonoured` follows from `Faithful` and from the lemma that the
  two tables of approval classes agree (`ButtonsAgree`).

Model-checked only: `CleanupEnds` and `Served`, which are liveness under
fairness, and the violations.

## Not modelled

- In the runtime: quotas, approval texts, `shell` (it execs into a
  started machine), several names (commands share only the journal file),
  temporary files of `atomic_json`, torn journal lines and the journal's hash
  chain, which no code verifies. Of the daemon: what a frame looks like, and the
  overlap of daemon and console, which `lab_two_processes` shows instead.
- In the store: content of records beyond what the properties use, and the size
  limit, which no journal of the allowed counts reaches.
- In the step journals: previews, dossiers, candidates and evidence from which
  an operation is created, and the identities its store compares with them; who
  performs an effect (the model takes the discipline above).
- In the acquisition: `stage_bytes`, which only tests call; entries of other
  names, owners, modes or types; TLS, redirects and headers beyond the length.
- In the host commands: `session list`; fields of a registration beyond name
  and storage identity, its owner and mode among them; numeric ids, so that a
  reused UID is not told from a fresh one; removal reports for accounts whose
  configured home is another; the texts of reports and the stage-2 documents.
- In the contract and the view: canonical JSON, malformed fields, texts, and the
  read-only buttons. In the cleanup: byte counts, and which safety condition
  fails. Approval authority, executor and session are outside the repository;
  what the model assumes of them is under `HubRequests` above.
- Capacity: a pure sum over one set of figures. Policy, ownership and installation
  classification: pure tables over one set of observations.
- Resolution and build tools, dossiers, previews, rendering, pilot scripts:
  static documents, archive contents and linear scripts, without state that
  several actors or crashes could disturb.

Known weaknesses of the code that no property covers, because no document
claims the contrary or because the step is left out:

- a crash in the middle of an append leaves a torn last line, after which every
  command of the runtime that journals fails (`apx-lab-runtime.py:134`); one
  inside `atomic_json` leaves a temporary file that stops destroy and recovery
  (`:124`);
- create plans are never consumed and can be applied again after a destroy
  (`:218`); a restore interrupted after its mkdir leaves a directory nobody
  reports (`:476`);
- `start` may give up while the machine is still opening, and destroy then
  deletes the root it boots from (`:315`);
- a Hub that is running while the daemon restarts keeps a socket nobody serves
  (`:306`);
- a destroy that is tried again after it failed leaves its first operation
  reported as uncertain;
- a promotion or installation marked incomplete early may still assess as
  continuable though no transition is (`apx_release_promotion.py:236`);
- a crash between link and unlink leaves a staged file with two names, and its
  acquisition cannot be resumed (`apx_staging.py:111`);
- a later effect may replace what is recorded of a resource
  (`apx_executor_journal.py:289`);
- a creation or restore cut short before it was registered is offered for
  recovery (`apx_hub.py:161`), the view knowing no generation, but
  `recover-complete` cannot be planned at generation 0
  (`apx_executor_contract.py:229`), although `docs/hub-experience-v1.md:67` has
  the Hub show only what is allowed in the state of the Environment.
  `OffersPlannable` excepts it by name, as it does the name typed in for a new
  Environment, which may be taken;
- nothing resumes a deletion that was stopped, though
  `docs/hub-experience-v1.md:135` speaks of separately approved recovery: the
  Hub offers nothing for it but looking (`apx_hub.py:141`);
- a client that stays silent in the running Hub, or does not take its answer,
  holds the daemon for ever (`apx-lab-executor.py:109`, `:125`);
- two processes may mix the root and the home of two Environments in one
  snapshot (`apx-lab-runtime.py:402`), for want of the lock whose absence
  `lab_two_processes` shows;
- a copy that was to be preserved and is gone does not keep a cleanup from
  "complete" (`apx_cleanup.py:236`);
- `validate` takes the exit status 1 of `ps`, which means that nothing was found,
  for a failure, where removal-plan does not (`apx_practical.py:63`,
  `apx_removal.py:62`): it then says "unknown" of an idle account;
- capacity is judged against free bytes that nothing reserves
  (`apx_capacity.py:157`).

Four places where code and documents differ are in the models but have no run
of their own. `inspect` of a candidate without a valid registration does not look
for an operation marker, while `docs/architecture.md:307` counts one among the
signs of an incomplete Environment (`InspectUnregistered`). `removal-plan` says
that an Environment does not exist once account and home are gone, whatever is
left of registration and marker (`PlanNothing`). A restore makes its directory
before it records that it started, while
`docs/environment-lifecycle-and-storage-v1.md:98` wants a record before the
first effect (`MakeDirectory`). `destroy` of the runtime unpublishes before it
deletes, while `docs/environment-lifecycle-and-storage-v1.md:223` and
`docs/btrfs-storage-layout-v1.md:267` want the registration to go last, as
`REMOVAL_PLAN` has it (`Unpublish`).
