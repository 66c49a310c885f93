----------------------------- MODULE LabRuntime -----------------------------
(***************************************************************************)
(* One Environment name of the headless laboratory runtime                 *)
(* (src/scripts/virtual-lab/apx-lab-runtime.py): its directory, root and   *)
(* home subvolumes, registration, machine, plans, saved copies and         *)
(* operation journal, with the processes that run apx commands on it, one  *)
(* step per effect, and crashes between any two effects.                   *)
(*                                                                         *)
(* A process runs one command at a time: the executor daemon               *)
(* (apx-lab-executor.py) is one process serving requests one by one, each  *)
(* host command line is another.  Nothing locks the Environment.  With one *)
(* process the model is of commands that never overlap.                    *)
(*                                                                         *)
(* Approval texts, quotas, hashes and effect-level journal events are left *)
(* out.  Of the journal the model keeps what its two readers find in it:   *)
(* recover, the status of the last event of each whole operation, and      *)
(* recover_unpublished, the last event of a create or restore that says    *)
(* "started" or "uncertain".  A subvolume is the number of the operation   *)
(* that made it.  uuid4 is a counter.                                      *)
(***************************************************************************)
EXTENDS Integers, FiniteSets

CONSTANTS
    Processes,      \* processes that run commands
    MaxOperations,  \* bound: journalled operations
    MaxGenerations, \* bound: generations drawn by plans and restores
    MaxSaved        \* bound: snapshots and archives

ASSUME MaxOperationsAssumption == MaxOperations \in Nat
ASSUME MaxGenerationsAssumption == MaxGenerations \in Nat
ASSUME MaxSavedAssumption == MaxSaved \in Nat

VARIABLES
    dir,        \* the directory of the Environment exists
    root,       \* its root subvolume, NoTree when absent
    home,       \* its home subvolume
    reg,        \* registration.json, NoRegistration when absent
    machine,    \* state of the systemd-nspawn machine
    plans,      \* plan files; they are never removed
    saved,      \* published snapshots and archives
    journal,    \* what operations.jsonl tells its readers
    operations, \* operation ids drawn
    generations,\* generations drawn
    proc        \* what each process is doing

tree == <<dir, root, home, reg>>
drawn == <<operations, generations>>
vars == <<tree, machine, plans, saved, journal, drawn, proc>>

Operations == 1..MaxOperations
Generations == 1..MaxGenerations
NoTree == 0
NoOperation == 0
Trees == Operations \cup {NoTree}

(* builder is not in the file: the operation that published the record *)
Registration == [generation : Generations, state : {"stopped", "running"},
                 builder : Operations]
NoRegistration == [generation |-> 0, state |-> "absent", builder |-> 0]

(* A create plan carries the generation it will publish.  A destroy plan   *)
(* carries only the name; generation is what was registered when the plan  *)
(* was made, which is not in the file.                                     *)
Plan == [action : {"create", "destroy"}, generation : Generations]

Saved == [kind : {"snapshot", "archive"}, generation : Generations,
          root : Trees, home : Trees]

Journal == [outcome : [Operations -> {"unknown", "started", "complete",
                                      "uncertain"}],
            open : [op : Operations \cup {NoOperation},
                    action : {"none", "create", "restore"}]]
NoEvents == [outcome |-> [op \in Operations |-> "unknown"],
             open |-> [op |-> NoOperation, action |-> "none"]]

Actions == {"none", "create", "destroy", "restore", "start", "stop",
            "snapshot", "archive"}

Labels == {"idle", "mkdir", "announce", "root", "home", "configure",
           "publish", "published", "launch", "wait", "record-running",
           "stop", "stopping", "record-stopped", "unpublish", "remove-home",
           "remove-root", "rmdir", "removed", "copy-root", "copy-home",
           "publish-snapshot", "publish-archive"}

(* record is the registration a command has read; generation the one its   *)
(* plan names; root and home the subvolumes a snapshot has captured so far *)
Idle == [pc |-> "idle", action |-> "none", op |-> NoOperation,
         generation |-> 0, record |-> NoRegistration,
         root |-> NoTree, home |-> NoTree]

Process == [pc : Labels, action : Actions, op : Operations \cup {NoOperation},
            generation : Generations \cup {0},
            record : Registration \cup {NoRegistration},
            root : Trees, home : Trees]

Init ==
    /\ dir = FALSE /\ root = NoTree /\ home = NoTree
    /\ reg = NoRegistration
    /\ machine = "off"
    /\ plans = {} /\ saved = {} /\ journal = NoEvents
    /\ operations = 0 /\ generations = 0
    /\ proc = [w \in Processes |-> Idle]
-----------------------------------------------------------------------------
At(w, label) == proc[w].pc = label
Goto(w, label) == proc' = [proc EXCEPT ![w].pc = label]
Return(w) == proc' = [proc EXCEPT ![w] = Idle]

(* append_event *)
Log(op, action, status) ==
    journal' = [outcome |-> [journal.outcome EXCEPT ![op] = status],
                open |-> IF action = "destroy" \/ status = "complete"
                         THEN journal.open ELSE [op |-> op, action |-> action]]

(* registration(name): the record a command may act on *)
Registered == reg # NoRegistration

(* machine_running: a machine that is opening or closing does not count *)
MachineRunning == machine = "running"

(* make_plan for "create" and "destroy" *)
PlanCreate(w) ==
    /\ At(w, "idle") /\ ~dir
    /\ generations < MaxGenerations
    /\ generations' = generations + 1
    /\ plans' = plans \cup {[action |-> "create", generation |-> generations']}
    /\ UNCHANGED <<tree, machine, saved, journal, operations, proc>>

PlanDestroy(w) ==
    /\ At(w, "idle") /\ Registered
    /\ plans' = plans \cup {[action |-> "destroy",
                             generation |-> reg.generation]}
    /\ UNCHANGED <<tree, machine, saved, journal, drawn, proc>>

(* The first event of an operation, with a fresh operation id *)
Announce(w, action, generation, label) ==
    /\ operations < MaxOperations
    /\ operations' = operations + 1
    /\ Log(operations', action, "started")
    /\ proc' = [proc EXCEPT ![w] = [Idle EXCEPT !.pc = label,
                                               !.action = action,
                                               !.op = operations',
                                               !.generation = generation]]
    /\ UNCHANGED <<tree, machine, plans, saved, generations>>

(* mutant of Create: refuses only while an Environment is registered *)
CreateUnregistered(w) ==
    /\ At(w, "idle") /\ ~Registered
    /\ \E plan \in plans :
          /\ plan.action = "create"
          /\ Announce(w, "create", plan.generation, "mkdir")

Create(w) ==
    /\ At(w, "idle") /\ ~dir
    /\ \E plan \in plans :
          /\ plan.action = "create"
          /\ Announce(w, "create", plan.generation, "mkdir")

Destroy(w) ==
    /\ At(w, "idle")
    /\ \E plan \in plans :
          /\ plan.action = "destroy"
          /\ Announce(w, "destroy", plan.generation, "stop")

Restore(w) ==
    /\ At(w, "idle") /\ ~dir
    /\ \E copy \in saved : copy.kind = "archive"
    /\ proc' = [proc EXCEPT ![w] = [Idle EXCEPT !.pc = "mkdir",
                                               !.action = "restore"]]
    /\ UNCHANGED <<tree, machine, plans, saved, journal, drawn>>

(* create has announced itself by now, restore does it afterwards *)
MakeDirectory(w) ==
    /\ At(w, "mkdir") /\ ~dir
    /\ dir' = TRUE
    /\ Goto(w, IF proc[w].action = "create" THEN "root" ELSE "announce")
    /\ UNCHANGED <<root, home, reg, machine, plans, saved, journal, drawn>>

AnnounceRestore(w) ==
    /\ At(w, "announce")
    /\ Announce(w, "restore", 0, "root")

(* The snapshot of the release, or the archived stream received *)
MakeRoot(w) ==
    /\ At(w, "root") /\ dir /\ root = NoTree
    /\ root' = proc[w].op
    /\ Goto(w, "home")
    /\ UNCHANGED <<dir, home, reg, machine, plans, saved, journal, drawn>>

(* apply_limits that follows needs both subvolumes *)
MakeHome(w) ==
    /\ At(w, "home") /\ dir /\ home = NoTree
    /\ home' = proc[w].op
    /\ Goto(w, "configure")
    /\ UNCHANGED <<dir, root, reg, machine, plans, saved, journal, drawn>>

Configure(w) ==
    /\ At(w, "configure") /\ root # NoTree /\ home # NoTree
    /\ Goto(w, "publish")
    /\ UNCHANGED <<tree, machine, plans, saved, journal, drawn>>

(* atomic_json creates the directory when it is missing *)
WriteRegistration(record) ==
    /\ dir' = TRUE
    /\ reg' = record
    /\ UNCHANGED <<root, home>>

Publish(w) ==
    /\ At(w, "publish")
    /\ IF proc[w].action = "create" THEN UNCHANGED generations
       ELSE generations < MaxGenerations /\ generations' = generations + 1
    /\ WriteRegistration(
          [generation |-> IF proc[w].action = "create"
                          THEN proc[w].generation ELSE generations',
           state |-> "stopped", builder |-> proc[w].op])
    /\ Goto(w, "published")
    /\ UNCHANGED <<machine, plans, saved, journal, operations>>

(* The last event of create, destroy, restore and recover_unpublished *)
Complete(w) ==
    /\ At(w, "published") \/ At(w, "removed")
    /\ Log(proc[w].op, proc[w].action, "complete")
    /\ Return(w)
    /\ UNCHANGED <<tree, machine, plans, saved, drawn>>

(* mutant of BuildFails: the failed operation is reported as complete *)
BuildFailsQuietly(w) ==
    /\ proc[w].pc \in {"root", "home", "configure", "publish", "published"}
    /\ Log(proc[w].op, proc[w].action, "complete")
    /\ Return(w)
    /\ UNCHANGED <<tree, machine, plans, saved, drawn>>

(* The handler of create and restore for any exception *)
BuildFails(w) ==
    /\ proc[w].pc \in {"root", "home", "configure", "publish", "published"}
    /\ Log(proc[w].op, proc[w].action, "uncertain")
    /\ Return(w)
    /\ UNCHANGED <<tree, machine, plans, saved, drawn>>
-----------------------------------------------------------------------------
(* start and stop *)

ReadRegistration(w, action, label) ==
    /\ Registered
    /\ proc' = [proc EXCEPT ![w].action = action, ![w].pc = label,
                            ![w].record = reg]
    /\ UNCHANGED <<tree, machine, plans, saved, journal, drawn>>

Start(w) ==
    /\ At(w, "idle") /\ ~MachineRunning
    /\ ReadRegistration(w, "start", "launch")

(* systemd-run is refused while the unit of an earlier start is there *)
Launch(w) ==
    /\ At(w, "launch") /\ machine = "off"
    /\ machine' = "opening"
    /\ Goto(w, "wait")
    /\ UNCHANGED <<tree, plans, saved, journal, drawn>>

Started(w) ==
    /\ At(w, "wait") /\ MachineRunning
    /\ Goto(w, "record-running")
    /\ UNCHANGED <<tree, machine, plans, saved, journal, drawn>>

Stop(w) ==
    /\ At(w, "idle")
    /\ ReadRegistration(w, "stop", "stopping")

(* destroy calls stop *)
DestroyStops(w) ==
    /\ At(w, "stop")
    /\ ReadRegistration(w, "destroy", "stopping")

(* Not running at first, or no longer after machinectl poweroff *)
Stopped(w) ==
    /\ At(w, "stopping") /\ ~MachineRunning
    /\ Goto(w, "record-stopped")
    /\ UNCHANGED <<tree, machine, plans, saved, journal, drawn>>

RecordState(w) ==
    /\ \/ /\ At(w, "record-running")
          /\ WriteRegistration([proc[w].record EXCEPT !.state = "running"])
          /\ Return(w)
       \/ /\ At(w, "record-stopped")
          /\ WriteRegistration([proc[w].record EXCEPT !.state = "stopped"])
          /\ IF proc[w].action = "destroy" THEN Goto(w, "unpublish")
                                           ELSE Return(w)
    /\ UNCHANGED <<machine, plans, saved, journal, drawn>>
-----------------------------------------------------------------------------
(* The rest of destroy, and recover_unpublished *)

(* mutant of Unpublish: the registration stays until the end *)
UnpublishLater(w) ==
    /\ At(w, "unpublish") /\ Registered
    /\ Goto(w, "remove-home")
    /\ UNCHANGED <<tree, machine, plans, saved, journal, drawn>>

Unpublish(w) ==
    /\ At(w, "unpublish") /\ Registered
    /\ reg' = NoRegistration
    /\ Goto(w, "remove-home")
    /\ UNCHANGED <<dir, root, home, machine, plans, saved, journal, drawn>>

RemoveHome(w) ==
    /\ At(w, "remove-home")
    /\ home' = NoTree
    /\ Goto(w, "remove-root")
    /\ UNCHANGED <<dir, root, reg, machine, plans, saved, journal, drawn>>

RemoveRoot(w) ==
    /\ At(w, "remove-root")
    /\ root' = NoTree
    /\ Goto(w, "rmdir")
    /\ UNCHANGED <<dir, home, reg, machine, plans, saved, journal, drawn>>

RemoveDirectory(w) ==
    /\ At(w, "rmdir") /\ dir
    /\ root = NoTree /\ home = NoTree /\ ~Registered
    /\ dir' = FALSE
    /\ Goto(w, "removed")
    /\ UNCHANGED <<root, home, reg, machine, plans, saved, journal, drawn>>

(* mutant of RecoverUnpublished: a published Environment is cleaned too *)
RecoverAny(w) ==
    /\ At(w, "idle")
    /\ ~MachineRunning /\ dir
    /\ journal.open.op # NoOperation
    /\ proc' = [proc EXCEPT ![w] = [Idle EXCEPT !.pc = "remove-home",
                                               !.action = journal.open.action,
                                               !.op = journal.open.op]]
    /\ UNCHANGED <<tree, machine, plans, saved, journal, drawn>>

(* The operation it takes for the interrupted one is the last that ever    *)
(* said "started" or "uncertain", whatever it said after that              *)
RecoverUnpublished(w) ==
    /\ At(w, "idle")
    /\ ~Registered /\ ~MachineRunning /\ dir
    /\ journal.open.op # NoOperation
    /\ proc' = [proc EXCEPT ![w] = [Idle EXCEPT !.pc = "remove-home",
                                               !.action = journal.open.action,
                                               !.op = journal.open.op]]
    /\ UNCHANGED <<tree, machine, plans, saved, journal, drawn>>

(* recover: the operations whose last event is not "complete" *)
UncertainOperations ==
    {op \in Operations : journal.outcome[op] \in {"started", "uncertain"}}
-----------------------------------------------------------------------------
(* snapshot, and archive, which takes a snapshot first; its second check of *)
(* registration and machine in snapshot is not a step of its own           *)

Snapshot(w) ==
    /\ At(w, "idle") /\ ~MachineRunning
    /\ \E action \in {"snapshot", "archive"} :
          ReadRegistration(w, action, "copy-root")

Capture(w, copied) ==
    /\ proc' = [proc EXCEPT ![w] = copied]
    /\ UNCHANGED <<tree, machine, plans, saved, journal, drawn>>

CopyRoot(w) ==
    /\ At(w, "copy-root") /\ root # NoTree
    /\ Capture(w, [proc[w] EXCEPT !.root = root, !.pc = "copy-home"])

CopyHome(w) ==
    /\ At(w, "copy-home") /\ home # NoTree
    /\ Capture(w, [proc[w] EXCEPT !.home = home, !.pc = "publish-snapshot"])

(* manifest.json, written after both subvolumes or streams are complete *)
Save(w, kind) ==
    /\ Cardinality(saved) < MaxSaved
    /\ saved' = saved \cup {[kind |-> kind,
                             generation |-> proc[w].record.generation,
                             root |-> proc[w].root,
                             home |-> proc[w].home]}
    /\ UNCHANGED <<tree, machine, plans, journal, drawn>>

PublishSnapshot(w) ==
    /\ At(w, "publish-snapshot") /\ Save(w, "snapshot")
    /\ IF proc[w].action = "archive" THEN Goto(w, "publish-archive")
                                     ELSE Return(w)

PublishArchive(w) ==
    /\ At(w, "publish-archive") /\ Save(w, "archive")
    /\ Return(w)
-----------------------------------------------------------------------------
(* What happens to a command and to the machine *)

(* The process dies, or the command raises where nothing handles it: a     *)
(* refused or failed step, a start or stop that timed out.                 *)
Interrupt(w) ==
    /\ ~At(w, "idle")
    /\ Return(w)
    /\ UNCHANGED <<tree, machine, plans, saved, journal, drawn>>

(* The machine boots, fails to, is shut down, or is gone *)
MachineChanges ==
    /\ \/ machine = "opening" /\ root # NoTree /\ machine' = "running"
       \/ machine = "opening" /\ machine' = "off"
       \/ machine = "running" /\ machine' = "closing"
       \/ machine = "closing" /\ machine' = "off"
    /\ UNCHANGED <<tree, plans, saved, journal, drawn, proc>>

Reboot ==
    /\ machine' = "off"
    /\ proc' = [w \in Processes |-> Idle]
    /\ UNCHANGED <<tree, plans, saved, journal, drawn>>

Build(w) == Create(w) \/ Restore(w) \/ MakeDirectory(w) \/ AnnounceRestore(w)
              \/ MakeRoot(w) \/ MakeHome(w) \/ Configure(w) \/ Publish(w)
              \/ Complete(w) \/ BuildFails(w)
Run(w) == Start(w) \/ Launch(w) \/ Started(w) \/ Stop(w) \/ DestroyStops(w)
            \/ Stopped(w) \/ RecordState(w)
Remove(w) == Destroy(w) \/ Unpublish(w) \/ RemoveHome(w) \/ RemoveRoot(w)
               \/ RemoveDirectory(w) \/ RecoverUnpublished(w)
Preserve(w) == Snapshot(w) \/ CopyRoot(w) \/ CopyHome(w)
                 \/ PublishSnapshot(w) \/ PublishArchive(w)

Next == \/ MachineChanges \/ Reboot
        \/ \E w \in Processes :
              \/ PlanCreate(w) \/ PlanDestroy(w)
              \/ Build(w) \/ Run(w) \/ Remove(w) \/ Preserve(w)
              \/ Interrupt(w)

Spec == Init /\ [][Next]_vars
-----------------------------------------------------------------------------
(* All variables have their types. *)
TypeOK ==
    /\ dir \in BOOLEAN /\ root \in Trees /\ home \in Trees
    /\ reg \in Registration \cup {NoRegistration}
    /\ machine \in {"off", "opening", "running", "closing"}
    /\ plans \subseteq Plan
    /\ saved \subseteq Saved
    /\ journal \in Journal
    /\ operations \in 0..MaxOperations
    /\ generations \in 0..MaxGenerations
    /\ proc \in [Processes -> Process]

(* A registered Environment is whole: whatever was interrupted before, its *)
(* directory, root and home exist and were made by the operation that      *)
(* published it.                                                           *)
RegisteredIsWhole ==
    Registered => dir /\ root = reg.builder /\ home = reg.builder

(* While an Environment is registered nothing touches its root and home,   *)
(* and its generation is never exchanged: it can only be unpublished.      *)
PublishedUntouched ==
    [][Registered /\ reg' # NoRegistration =>
          /\ UNCHANGED <<dir, root, home>>
          /\ reg'.generation = reg.generation
          /\ reg'.builder = reg.builder]_vars

(* Subvolumes left behind by an interrupted command are never forgotten:   *)
(* when no command runs, recovery-status reports an uncertain operation.   *)
RemainsReported ==
    /\ \A w \in Processes : At(w, "idle")
    /\ ~Registered /\ (root # NoTree \/ home # NoTree)
    => UncertainOperations # {}

(* docs/environment-lifecycle-and-storage-v1.md, Object Model: the         *)
(* generation rejects stale plans.  A destroy plan unpublishes only the    *)
(* generation that was registered when the plan was made.                  *)
StalePlanRejected ==
    \A w \in Processes :
        At(w, "unpublish") /\ Registered =>
            reg.generation = proc[w].generation
-----------------------------------------------------------------------------
(* The Environment as its user sees it.  A subvolume is the identity of    *)
(* its maker; the directory has that of what is in it, and a part that is  *)
(* missing has NoTree.                                                     *)
Parts ==
    IF Registered THEN {root, home, IF dir THEN root ELSE NoTree} ELSE {}

(* create draws its operation before it makes the directory *)
Building(w) ==
    \/ proc[w].pc \in {"root", "home", "configure", "publish"}
    \/ At(w, "mkdir") /\ proc[w].action = "create"

Builds == {proc[w].op : w \in {v \in Processes : Building(v)}}

Environment ==
    INSTANCE WholeEnvironment
    WITH Identities <- Operations,
         registered <- Parts,
         building <- Builds,
         remains <- /\ Parts = {} /\ Builds = {}
                    /\ root # NoTree \/ home # NoTree,
         given <- 1..operations,
         copies <- {{copy.root, copy.home} : copy \in saved}

(* Whatever is interrupted, and wherever, the steps of commands that do    *)
(* not overlap are for the user of the Environment those of a whole one:   *)
(* it appears, disappears and is saved at once, with one new identity, and *)
(* its remains are gone before the next is begun.                          *)
KeepsWhole == Environment!Spec
=============================================================================
