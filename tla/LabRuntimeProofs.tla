-------------------------- MODULE LabRuntimeProofs --------------------------
(***************************************************************************)
(* Type correctness of the runtime for any number of processes; for        *)
(* commands that never overlap, its safety and that it implements          *)
(* WholeEnvironment; and the truth of what the daemon answers.             *)
(***************************************************************************)
EXTENDS LabExecutor, TLAPS

BuildLabels == {"root", "home", "configure", "publish", "published"}
RemoveLabels == {"remove-home", "remove-root", "rmdir", "removed"}
RecordLabels == {"launch", "wait", "record-running", "stopping",
                 "record-stopped", "copy-root", "copy-home",
                 "publish-snapshot", "publish-archive"}

(* What the command of a process knows at each of its steps *)
CommandOk(c) ==
    /\ c.pc \in BuildLabels \cup {"mkdir"} => c.action \in {"create", "restore"}
    /\ c.pc \in BuildLabels => c.op \in Operations
    /\ c.pc \in BuildLabels \cup {"mkdir"} /\ c.action = "create" =>
           c.op \in Operations /\ c.generation \in Generations
    /\ c.pc \in RemoveLabels =>
           c.op \in Operations /\ c.action \in {"create", "restore", "destroy"}
    /\ c.pc \in {"stop", "unpublish"} => c.action = "destroy"
    /\ c.action = "destroy" => c.op \in Operations
    /\ c.pc \in RecordLabels => c.record \in Registration

OpenKnown == journal.open.op # NoOperation =>
                 journal.open.action \in {"create", "restore"}

TypeInv ==
    /\ TypeOK
    /\ OpenKnown
    /\ \A w \in Processes : CommandOk(proc[w])

LEMMA IdleOk == Idle \in Process /\ CommandOk(Idle)
  BY DEF Idle, Process, Labels, Actions, Registration, NoRegistration, Trees,
         NoTree, CommandOk, BuildLabels, RemoveLabels, RecordLabels

(* A step of one process leaves the others as they are. *)
LEMMA ProcessStep ==
    ASSUME TypeInv, NEW w \in Processes, NEW c \in Process, CommandOk(c),
           proc' = [proc EXCEPT ![w] = c]
    PROVE  /\ proc' \in [Processes -> Process]
           /\ \A v \in Processes : CommandOk(proc'[v])
  BY DEF TypeInv, TypeOK

LEMMA ReturnStep ==
    ASSUME TypeInv, NEW w \in Processes, Return(w)
    PROVE  /\ proc' \in [Processes -> Process]
           /\ \A v \in Processes : CommandOk(proc'[v])
  BY IdleOk, ProcessStep DEF Return

LEMMA LogStep ==
    ASSUME TypeInv, NEW op \in Operations,
           NEW action \in {"create", "restore", "destroy"},
           NEW status \in {"started", "complete", "uncertain"},
           Log(op, action, status)
    PROVE  journal' \in Journal /\ OpenKnown'
<1>1. journal'.outcome \in [Operations -> {"unknown", "started", "complete",
                                           "uncertain"}]
  BY DEF Log, TypeInv, TypeOK, Journal
<1>2. /\ journal'.open \in [op : Operations \cup {NoOperation},
                            action : {"none", "create", "restore"}]
      /\ OpenKnown'
  BY DEF Log, TypeInv, TypeOK, Journal, OpenKnown
<1>. QED  BY <1>1, <1>2 DEF Log, Journal

LEMMA AnnounceStep ==
    ASSUME TypeInv, NEW w \in Processes,
           NEW action \in {"create", "restore", "destroy"},
           NEW generation \in Generations \cup {0},
           NEW label \in {"mkdir", "root", "stop"},
           action = "create" => label = "mkdir" /\ generation \in Generations,
           action = "restore" => label = "root",
           action = "destroy" => label = "stop",
           Announce(w, action, generation, label)
    PROVE  TypeInv'
<1>1. operations' \in Operations /\ operations' \in 0..MaxOperations
  BY MaxOperationsAssumption DEF Announce, TypeInv, TypeOK, Operations
<1>2. journal' \in Journal /\ OpenKnown'
  BY <1>1, LogStep DEF Announce
<1>. DEFINE c == [Idle EXCEPT !.pc = label, !.action = action,
                              !.op = operations', !.generation = generation]
<1>3. c \in Process /\ CommandOk(c)
  BY <1>1 DEF Idle, Process, Labels, Actions, Registration, NoRegistration,
              Trees, NoTree, CommandOk, BuildLabels, RemoveLabels, RecordLabels
<1>4. proc' = [proc EXCEPT ![w] = c]
  BY DEF Announce
<1>. HIDE DEF c
<1>5. /\ proc' \in [Processes -> Process]
      /\ \A v \in Processes : CommandOk(proc'[v])
  BY <1>3, <1>4, ProcessStep
<1>. QED  BY <1>1, <1>2, <1>5 DEF Announce, tree, TypeInv, TypeOK

(* A step to another label, with nothing else of the command changed. *)
LEMMA GotoStep ==
    ASSUME TypeInv, NEW w \in Processes, NEW label \in Labels,
           Goto(w, label),
           CommandOk([proc[w] EXCEPT !.pc = label])
    PROVE  /\ proc' \in [Processes -> Process]
           /\ \A v \in Processes : CommandOk(proc'[v])
<1>. DEFINE c == [proc[w] EXCEPT !.pc = label]
<1>1. proc[w] \in Process
  BY DEF TypeInv, TypeOK
<1>2. c \in Process
  BY <1>1 DEF Process
<1>3. proc' = [proc EXCEPT ![w] = c]
  BY DEF Goto
<1>. HIDE DEF c
<1>. QED  BY <1>2, <1>3, ProcessStep DEF c

LEMMA ReadStep ==
    ASSUME TypeInv, NEW w \in Processes,
           NEW action \in {"start", "stop", "snapshot", "archive", "destroy"},
           NEW label \in {"launch", "stopping", "copy-root"},
           action = "destroy" => proc[w].action = "destroy",
           ReadRegistration(w, action, label)
    PROVE  TypeInv'
<1>. DEFINE c == [proc[w] EXCEPT !.action = action, !.pc = label,
                                 !.record = reg]
<1>1. /\ proc[w] \in Process /\ CommandOk(proc[w])
      /\ reg \in Registration
      /\ label \in Labels /\ action \in Actions
  BY DEF TypeInv, TypeOK, ReadRegistration, Registered, Labels, Actions
<1>4. c \in Process
  BY <1>1 DEF Process
<1>5. CommandOk(c)
  BY <1>1 DEF Process, CommandOk, BuildLabels, RemoveLabels, RecordLabels
<1>2. proc' = [proc EXCEPT ![w] = c]
  BY DEF ReadRegistration, TypeInv, TypeOK
<1>. HIDE DEF c
<1>3. /\ proc' \in [Processes -> Process]
      /\ \A v \in Processes : CommandOk(proc'[v])
  BY <1>2, <1>4, <1>5, ProcessStep
<1>. QED  BY <1>3 DEF ReadRegistration, tree, drawn, TypeInv, TypeOK, OpenKnown

LEMMA RestoreOk ==
    LET c == [Idle EXCEPT !.pc = "mkdir", !.action = "restore"]
    IN  c \in Process /\ CommandOk(c)
  BY IdleOk DEF Idle, Process, Labels, Actions, CommandOk, BuildLabels,
                RemoveLabels, RecordLabels

LEMMA RecoverOk ==
    ASSUME NEW op \in Operations, NEW action \in {"create", "restore"}
    PROVE  LET c == [Idle EXCEPT !.pc = "remove-home", !.action = action,
                                 !.op = op]
           IN  c \in Process /\ CommandOk(c)
  BY IdleOk DEF Idle, Process, Labels, Actions, CommandOk, BuildLabels,
                RemoveLabels, RecordLabels

LEMMA BuildType ==
    ASSUME TypeInv, NEW w \in Processes, Build(w)
    PROVE  TypeInv'
<1>. USE DEF TypeInv, TypeOK, At, tree, drawn, OpenKnown
<1>0. proc[w] \in Process /\ CommandOk(proc[w])
  OBVIOUS
<1>. USE <1>0
<1>1. CASE Create(w)
  BY <1>1, AnnounceStep DEF Create, Plan
<1>2. CASE Restore(w)
  <2>. DEFINE c == [Idle EXCEPT !.pc = "mkdir", !.action = "restore"]
  <2>1. c \in Process /\ CommandOk(c)
    BY RestoreOk
  <2>2. proc' = [proc EXCEPT ![w] = c]
    BY <1>2 DEF Restore
  <2>. HIDE DEF c
  <2>3. /\ proc' \in [Processes -> Process]
        /\ \A v \in Processes : CommandOk(proc'[v])
    BY <2>1, <2>2, ProcessStep
  <2>. QED  BY <1>2, <2>3 DEF Restore
<1>3. CASE MakeDirectory(w)
  <2>. DEFINE label == IF proc[w].action = "create" THEN "root" ELSE "announce"
  <2>1. /\ label \in Labels /\ Goto(w, label)
        /\ CommandOk([proc[w] EXCEPT !.pc = label])
    BY <1>3 DEF MakeDirectory, Labels, CommandOk, Process, BuildLabels,
                RemoveLabels, RecordLabels
  <2>. HIDE DEF label
  <2>. QED  BY <1>3, <2>1, GotoStep DEF MakeDirectory
<1>4. CASE AnnounceRestore(w)
  BY <1>4, AnnounceStep DEF AnnounceRestore
<1>5. CASE MakeRoot(w)
  <2>1. CommandOk([proc[w] EXCEPT !.pc = "home"]) /\ root' \in Trees
    BY <1>5 DEF MakeRoot, CommandOk, Process, BuildLabels, RemoveLabels,
                RecordLabels, Trees
  <2>. QED  BY <1>5, <2>1, GotoStep DEF MakeRoot, Labels
<1>6. CASE MakeHome(w)
  <2>1. CommandOk([proc[w] EXCEPT !.pc = "configure"]) /\ home' \in Trees
    BY <1>6 DEF MakeHome, CommandOk, Process, BuildLabels, RemoveLabels,
                RecordLabels, Trees
  <2>. QED  BY <1>6, <2>1, GotoStep DEF MakeHome, Labels
<1>7. CASE Configure(w)
  <2>1. CommandOk([proc[w] EXCEPT !.pc = "publish"])
    BY <1>7 DEF Configure, CommandOk, Process, BuildLabels, RemoveLabels,
                RecordLabels
  <2>. QED  BY <1>7, <2>1, GotoStep DEF Configure, Labels
<1>8. CASE Publish(w)
  <2>1. CommandOk([proc[w] EXCEPT !.pc = "published"])
    BY <1>8 DEF Publish, CommandOk, Process, BuildLabels, RemoveLabels,
                RecordLabels
  <2>2. generations' \in 0..MaxGenerations
    BY <1>8, MaxGenerationsAssumption DEF Publish
  <2>3. /\ proc[w].action = "create" => proc[w].generation \in Generations
        /\ proc[w].action # "create" => generations' \in Generations
        /\ proc[w].op \in Operations
    BY <1>8, MaxGenerationsAssumption
       DEF Publish, CommandOk, BuildLabels, Generations
  <2>4. reg' \in Registration /\ dir' = TRUE /\ UNCHANGED <<root, home>>
    BY <1>8, <2>3 DEF Publish, WriteRegistration, Registration
  <2>5. /\ proc' \in [Processes -> Process]
        /\ \A v \in Processes : CommandOk(proc'[v])
    BY <1>8, <2>1, GotoStep DEF Publish, Labels
  <2>. QED  BY <1>8, <2>2, <2>4, <2>5 DEF Publish
<1>9. CASE Complete(w)
  <2>1. /\ proc[w].op \in Operations
        /\ proc[w].action \in {"create", "restore", "destroy"}
    BY <1>9 DEF Complete, CommandOk, BuildLabels, RemoveLabels
  <2>2. journal' \in Journal /\ OpenKnown'
    BY <1>9, <2>1, LogStep DEF Complete
  <2>. QED  BY <1>9, <2>2, ReturnStep DEF Complete
<1>10. CASE BuildFails(w)
  <2>1. /\ proc[w].op \in Operations
        /\ proc[w].action \in {"create", "restore", "destroy"}
    BY <1>10 DEF BuildFails, CommandOk, BuildLabels
  <2>2. journal' \in Journal /\ OpenKnown'
    BY <1>10, <2>1, LogStep DEF BuildFails
  <2>. QED  BY <1>10, <2>2, ReturnStep DEF BuildFails
<1>. QED  BY <1>1, <1>2, <1>3, <1>4, <1>5, <1>6, <1>7, <1>8, <1>9, <1>10
          DEF Build

LEMMA RunType ==
    ASSUME TypeInv, NEW w \in Processes, Run(w)
    PROVE  TypeInv'
<1>. USE DEF TypeInv, TypeOK, At, tree, drawn, OpenKnown
<1>0. proc[w] \in Process /\ CommandOk(proc[w])
  OBVIOUS
<1>. USE <1>0
<1>1. CASE Start(w)
  BY <1>1, ReadStep DEF Start
<1>2. CASE Stop(w)
  BY <1>2, ReadStep DEF Stop
<1>3. CASE DestroyStops(w)
  BY <1>3, ReadStep DEF DestroyStops, CommandOk
<1>4. CASE Launch(w)
  <2>1. CommandOk([proc[w] EXCEPT !.pc = "wait"])
    BY <1>4 DEF Launch, CommandOk, Process, BuildLabels, RemoveLabels,
                RecordLabels
  <2>. QED  BY <1>4, <2>1, GotoStep DEF Launch, Labels
<1>5. CASE Started(w)
  <2>1. CommandOk([proc[w] EXCEPT !.pc = "record-running"])
    BY <1>5 DEF Started, CommandOk, Process, BuildLabels, RemoveLabels,
                RecordLabels
  <2>. QED  BY <1>5, <2>1, GotoStep DEF Started, Labels
<1>6. CASE Stopped(w)
  <2>1. CommandOk([proc[w] EXCEPT !.pc = "record-stopped"])
    BY <1>6 DEF Stopped, CommandOk, Process, BuildLabels, RemoveLabels,
                RecordLabels
  <2>. QED  BY <1>6, <2>1, GotoStep DEF Stopped, Labels
<1>7. CASE RecordState(w)
  <2>1. proc[w].record \in Registration
    BY <1>7 DEF RecordState, CommandOk, RecordLabels
  <2>2. reg' \in Registration /\ dir' = TRUE /\ UNCHANGED <<root, home>>
    BY <1>7, <2>1 DEF RecordState, WriteRegistration, Registration
  <2>3. CASE Return(w)
    BY <1>7, <2>2, <2>3, ReturnStep DEF RecordState
  <2>4. CASE proc[w].action = "destroy" /\ Goto(w, "unpublish")
    <3>1. CommandOk([proc[w] EXCEPT !.pc = "unpublish"])
      BY <2>4 DEF CommandOk, Process, BuildLabels, RemoveLabels, RecordLabels
    <3>2. /\ proc' \in [Processes -> Process]
          /\ \A v \in Processes : CommandOk(proc'[v])
      BY <2>4, <3>1, GotoStep DEF Labels
    <3>. QED  BY <1>7, <2>2, <3>2 DEF RecordState
  <2>. QED  BY <1>7, <2>3, <2>4 DEF RecordState
<1>. QED  BY <1>1, <1>2, <1>3, <1>4, <1>5, <1>6, <1>7 DEF Run

LEMMA RemoveType ==
    ASSUME TypeInv, NEW w \in Processes, Remove(w)
    PROVE  TypeInv'
<1>. USE DEF TypeInv, TypeOK, At, tree, drawn, OpenKnown
<1>0. proc[w] \in Process /\ CommandOk(proc[w])
  OBVIOUS
<1>. USE <1>0
<1>1. CASE Destroy(w)
  BY <1>1, AnnounceStep DEF Destroy, Plan
<1>2. CASE Unpublish(w)
  <2>1. CommandOk([proc[w] EXCEPT !.pc = "remove-home"])
    BY <1>2 DEF Unpublish, CommandOk, Process, BuildLabels, RemoveLabels,
                RecordLabels
  <2>. QED  BY <1>2, <2>1, GotoStep DEF Unpublish, Labels
<1>3. CASE RemoveHome(w)
  <2>1. CommandOk([proc[w] EXCEPT !.pc = "remove-root"]) /\ home' \in Trees
    BY <1>3 DEF RemoveHome, CommandOk, Process, BuildLabels, RemoveLabels,
                RecordLabels, Trees
  <2>. QED  BY <1>3, <2>1, GotoStep DEF RemoveHome, Labels
<1>4. CASE RemoveRoot(w)
  <2>1. CommandOk([proc[w] EXCEPT !.pc = "rmdir"]) /\ root' \in Trees
    BY <1>4 DEF RemoveRoot, CommandOk, Process, BuildLabels, RemoveLabels,
                RecordLabels, Trees
  <2>. QED  BY <1>4, <2>1, GotoStep DEF RemoveRoot, Labels
<1>5. CASE RemoveDirectory(w)
  <2>1. CommandOk([proc[w] EXCEPT !.pc = "removed"])
    BY <1>5 DEF RemoveDirectory, CommandOk, Process, BuildLabels,
                RemoveLabels, RecordLabels
  <2>. QED  BY <1>5, <2>1, GotoStep DEF RemoveDirectory, Labels
<1>6. CASE RecoverUnpublished(w)
  <2>. DEFINE c == [Idle EXCEPT !.pc = "remove-home",
                                !.action = journal.open.action,
                                !.op = journal.open.op]
  <2>1. /\ journal.open.op \in Operations
        /\ journal.open.action \in {"create", "restore"}
    BY <1>6 DEF RecoverUnpublished, Journal
  <2>2. c \in Process /\ CommandOk(c)
    BY <2>1, RecoverOk
  <2>3. proc' = [proc EXCEPT ![w] = c]
    BY <1>6 DEF RecoverUnpublished
  <2>. HIDE DEF c
  <2>4. /\ proc' \in [Processes -> Process]
        /\ \A v \in Processes : CommandOk(proc'[v])
    BY <2>2, <2>3, ProcessStep
  <2>. QED  BY <1>6, <2>4 DEF RecoverUnpublished
<1>. QED  BY <1>1, <1>2, <1>3, <1>4, <1>5, <1>6 DEF Remove

LEMMA PreserveType ==
    ASSUME TypeInv, NEW w \in Processes, Preserve(w)
    PROVE  TypeInv'
<1>. USE DEF TypeInv, TypeOK, At, tree, drawn, OpenKnown
<1>0. proc[w] \in Process /\ CommandOk(proc[w])
  OBVIOUS
<1>. USE <1>0
<1>1. CASE Snapshot(w)
  BY <1>1, ReadStep DEF Snapshot
<1>2. CASE CopyRoot(w)
  <2>. DEFINE c == [proc[w] EXCEPT !.root = root, !.pc = "copy-home"]
  <2>1. c \in Process /\ CommandOk(c)
    BY <1>2 DEF CopyRoot, Process, Labels, CommandOk, BuildLabels,
                RemoveLabels, RecordLabels
  <2>2. proc' = [proc EXCEPT ![w] = c]
    BY <1>2 DEF CopyRoot, Capture
  <2>. HIDE DEF c
  <2>. QED  BY <1>2, <2>1, <2>2, ProcessStep DEF CopyRoot, Capture
<1>3. CASE CopyHome(w)
  <2>. DEFINE c == [proc[w] EXCEPT !.home = home, !.pc = "publish-snapshot"]
  <2>1. c \in Process /\ CommandOk(c)
    BY <1>3 DEF CopyHome, Process, Labels, CommandOk, BuildLabels,
                RemoveLabels, RecordLabels
  <2>2. proc' = [proc EXCEPT ![w] = c]
    BY <1>3 DEF CopyHome, Capture
  <2>. HIDE DEF c
  <2>. QED  BY <1>3, <2>1, <2>2, ProcessStep DEF CopyHome, Capture
<1>4. ASSUME NEW kind \in {"snapshot", "archive"}, Save(w, kind),
             proc[w].record \in Registration
      PROVE  saved' \subseteq Saved
  BY <1>4 DEF Save, Saved, Registration, Process
<1>5. CASE PublishSnapshot(w)
  <2>1. proc[w].record \in Registration
    BY <1>5 DEF PublishSnapshot, CommandOk, RecordLabels
  <2>2. CommandOk([proc[w] EXCEPT !.pc = "publish-archive"])
    BY <2>1, <1>5 DEF PublishSnapshot, CommandOk, Process, BuildLabels,
                      RemoveLabels, RecordLabels
  <2>3. /\ proc' \in [Processes -> Process]
        /\ \A v \in Processes : CommandOk(proc'[v])
    BY <1>5, <2>2, GotoStep, ReturnStep DEF PublishSnapshot, Labels
  <2>. QED  BY <1>4, <1>5, <2>1, <2>3 DEF PublishSnapshot, Save
<1>6. CASE PublishArchive(w)
  <2>1. proc[w].record \in Registration
    BY <1>6 DEF PublishArchive, CommandOk, RecordLabels
  <2>. QED  BY <1>4, <1>6, <2>1, ReturnStep DEF PublishArchive, Save
<1>. QED  BY <1>1, <1>2, <1>3, <1>5, <1>6 DEF Preserve

LEMMA NextType == TypeInv /\ [Next]_vars => TypeInv'
<1>. SUFFICES ASSUME TypeInv, [Next]_vars PROVE TypeInv'
  OBVIOUS
<1>. USE DEF TypeInv, TypeOK, tree, drawn, OpenKnown
<1>1. CASE MachineChanges
  BY <1>1 DEF MachineChanges
<1>2. CASE Reboot
  BY <1>2, IdleOk DEF Reboot
<1>3. ASSUME NEW w \in Processes, PlanCreate(w)
      PROVE  TypeInv'
  <2>1. generations' \in Generations /\ generations' \in 0..MaxGenerations
    BY <1>3, MaxGenerationsAssumption DEF PlanCreate, Generations
  <2>. QED  BY <1>3, <2>1 DEF PlanCreate, Plan
<1>4. ASSUME NEW w \in Processes, PlanDestroy(w)
      PROVE  TypeInv'
  BY <1>4 DEF PlanDestroy, Plan, Registered, Registration
<1>5. ASSUME NEW w \in Processes, Interrupt(w)
      PROVE  TypeInv'
  BY <1>5, ReturnStep DEF Interrupt
<1>6. CASE UNCHANGED vars
  BY <1>6 DEF vars
<1>. QED  BY <1>1, <1>2, <1>3, <1>4, <1>5, <1>6, BuildType, RunType,
             RemoveType, PreserveType DEF Next

LEMMA InitType == Init => TypeInv
<1>. SUFFICES ASSUME Init PROVE TypeInv
  OBVIOUS
<1>1. 0 \in 0..MaxOperations /\ 0 \in 0..MaxGenerations
  BY MaxOperationsAssumption, MaxGenerationsAssumption
<1>2. /\ proc \in [Processes -> Process]
      /\ \A w \in Processes : CommandOk(proc[w])
  BY IdleOk DEF Init
<1>3. journal \in Journal /\ OpenKnown
  BY DEF Init, Journal, NoEvents, OpenKnown
<1>. QED  BY <1>1, <1>2, <1>3 DEF Init, TypeInv, TypeOK, Trees

LEMMA TypeInvHolds == Spec => []TypeInv
  BY InitType, NextType, PTL DEF Spec

(* The variables of the runtime keep their types, however many processes   *)
(* run commands at once.                                                   *)
THEOREM TypeCorrect == Spec => []TypeOK
<1>1. TypeInv => TypeOK
  BY DEF TypeInv
<1>. QED  BY <1>1, TypeInvHolds, PTL
-----------------------------------------------------------------------------
(* Commands that never overlap: one process *)

(* What the steps of the only process say about the Environment *)
CommandTrue(c) ==
    /\ c.pc \in {"announce", "root", "home", "configure", "publish"} =>
           dir /\ ~Registered
    /\ c.pc \in {"home", "configure", "publish"} => root = c.op
    /\ c.pc \in {"configure", "publish"} => home = c.op
    /\ c.pc \in RecordLabels =>
           /\ Registered
           /\ c.record.generation = reg.generation
           /\ c.record.builder = reg.builder
    /\ c.pc \in {"copy-home", "publish-snapshot", "publish-archive"} =>
           c.root = reg.builder
    /\ c.pc \in {"publish-snapshot", "publish-archive"} => c.home = reg.builder
    /\ c.pc \in {"published", "unpublish"} => Registered
    /\ c.pc \in RemoveLabels => ~Registered
    /\ c.pc \in {"remove-root", "rmdir", "removed"} => home = NoTree
    /\ c.pc \in {"rmdir", "removed"} => root = NoTree

(* An operation is announced while its command may leave subvolumes behind *)
CommandAnnounced(c) ==
    \/ c.pc \in {"root", "home", "configure", "publish", "published"}
    \/ c.pc = "mkdir" /\ c.action = "create"
    \/ c.action = "destroy"
    => journal.outcome[c.op] = "started"

Remains == ~Registered /\ (root # NoTree \/ home # NoTree)

Reported == Remains => UncertainOperations # {}

(* A published copy holds root and home of one Environment.                *)
CopiesWhole == \A copy \in saved : copy.root = copy.home

SerialInv(p) ==
    /\ TypeInv
    /\ RegisteredIsWhole
    /\ CopiesWhole
    /\ Reported
    /\ CommandTrue(proc[p])
    /\ CommandAnnounced(proc[p])

(* An open operation is one recovery-status lists. *)
LEMMA OpenIsUncertain ==
    ASSUME NEW op \in Operations,
           journal.outcome[op] \in {"started", "uncertain"}
    PROVE  UncertainOperations # {}
  BY DEF UncertainOperations

(* After an event that leaves its operation open there is an open one. *)
LEMMA LogReports ==
    ASSUME TypeInv, NEW op \in Operations, NEW action,
           NEW status \in {"started", "uncertain"}, Log(op, action, status)
    PROVE  Reported' /\ journal'.outcome[op] = status
<1>1. journal'.outcome[op] = status
  BY DEF Log, TypeInv, TypeOK, Journal
<1>. QED  BY <1>1 DEF Reported, UncertainOperations

LEMMA SerialInit ==
    ASSUME NEW p, Processes = {p}
    PROVE  Init => SerialInv(p)
<1>. SUFFICES ASSUME Init PROVE SerialInv(p)
  OBVIOUS
<1>1. proc[p] = Idle
  BY DEF Init
<1>2. CommandTrue(proc[p]) /\ CommandAnnounced(proc[p])
  BY <1>1 DEF Idle, CommandTrue, CommandAnnounced, RecordLabels, RemoveLabels
<1>. QED  BY <1>2, InitType
          DEF Init, SerialInv, RegisteredIsWhole, Registered, CopiesWhole,
              Reported, Remains

(* A command that ended leaves nothing to be said about it. *)
LEMMA ReturnSerial ==
    ASSUME TypeInv, NEW p, Processes = {p}, Return(p)
    PROVE  CommandTrue(proc[p])' /\ CommandAnnounced(proc[p])'
<1>1. proc'[p] = Idle
  BY DEF Return, TypeInv, TypeOK
<1>. QED  BY <1>1 DEF Idle, CommandTrue, CommandAnnounced, RecordLabels,
                      RemoveLabels

LEMMA BuildSerial ==
    ASSUME NEW p, Processes = {p}, SerialInv(p), TypeInv', Build(p)
    PROVE  SerialInv(p)'
<1>. USE DEF SerialInv, At, tree, drawn
<1>0. /\ proc \in [Processes -> Process] /\ CommandOk(proc[p])
      /\ p \in Processes /\ proc[p] \in Process
  BY DEF TypeInv, TypeOK
<1>. USE <1>0
<1>1. ASSUME NEW action \in {"create", "restore", "destroy"},
             NEW generation, NEW label \in {"mkdir", "root", "stop"},
             Announce(p, action, generation, label),
             label = "root" => dir /\ ~Registered
      PROVE  SerialInv(p)'
  <2>1. proc'[p] = [Idle EXCEPT !.pc = label, !.action = action,
                                !.op = operations', !.generation = generation]
    BY <1>1 DEF Announce
  <2>2. operations' \in Operations
    BY <1>1, MaxOperationsAssumption
       DEF Announce, TypeInv, TypeOK, Operations
  <2>3. Reported' /\ journal'.outcome[operations'] = "started"
    BY <1>1, <2>2, LogReports DEF Announce
  <2>4. CommandAnnounced(proc[p])'
    BY <2>1, <2>3 DEF CommandAnnounced, Idle
  <2>5. CommandTrue(proc[p])'
    BY <1>1, <2>1 DEF CommandTrue, Idle, RecordLabels, RemoveLabels,
                      Announce, Registered
  <2>. QED  BY <1>1, <2>3, <2>4, <2>5
            DEF Announce, RegisteredIsWhole, Registered, CopiesWhole
<1>2. CASE Create(p)
  BY <1>1, <1>2 DEF Create
<1>3. CASE AnnounceRestore(p)
  BY <1>1, <1>3 DEF AnnounceRestore, CommandTrue
<1>4. CASE Restore(p)
  <2>1. proc'[p] = [Idle EXCEPT !.pc = "mkdir", !.action = "restore"]
    BY <1>4 DEF Restore
  <2>2. CommandTrue(proc[p])' /\ CommandAnnounced(proc[p])'
    BY <2>1 DEF CommandTrue, CommandAnnounced, Idle, RecordLabels,
                RemoveLabels
  <2>. QED  BY <1>4, <2>2 DEF Restore, RegisteredIsWhole, Registered,
                CopiesWhole, Reported, Remains, UncertainOperations
<1>5. CASE MakeDirectory(p)
  <2>1. proc'[p] = [proc[p] EXCEPT !.pc = IF proc[p].action = "create"
                                          THEN "root" ELSE "announce"]
    BY <1>5 DEF MakeDirectory, Goto
  <2>2. ~Registered /\ proc[p].action \in {"create", "restore"}
    BY <1>5 DEF MakeDirectory, RegisteredIsWhole, CommandOk
  <2>3. CommandTrue(proc[p])' /\ CommandAnnounced(proc[p])'
    BY <1>5, <2>1, <2>2
       DEF MakeDirectory, CommandTrue, CommandAnnounced, RecordLabels,
           RemoveLabels, Registered, Process
  <2>. QED  BY <1>5, <2>2, <2>3
            DEF MakeDirectory, RegisteredIsWhole, Registered, CopiesWhole,
                Reported, Remains, UncertainOperations
<1>6. CASE MakeRoot(p)
  <2>1. proc'[p] = [proc[p] EXCEPT !.pc = "home"]
    BY <1>6 DEF MakeRoot, Goto
  <2>2. /\ ~Registered /\ dir /\ proc[p].op \in Operations
        /\ journal.outcome[proc[p].op] = "started"
    BY <1>6 DEF MakeRoot, CommandTrue, CommandOk, BuildLabels,
                CommandAnnounced
  <2>3. CommandTrue(proc[p])' /\ CommandAnnounced(proc[p])'
    BY <1>6, <2>1, <2>2
       DEF MakeRoot, CommandTrue, CommandAnnounced, RecordLabels,
           RemoveLabels, Registered, Process
  <2>4. Reported'
    BY <1>6, <2>2 DEF MakeRoot, Reported, UncertainOperations
  <2>. QED  BY <1>6, <2>2, <2>3, <2>4
            DEF MakeRoot, RegisteredIsWhole, Registered, CopiesWhole
<1>7. CASE MakeHome(p)
  <2>1. proc'[p] = [proc[p] EXCEPT !.pc = "configure"]
    BY <1>7 DEF MakeHome, Goto
  <2>2. /\ ~Registered /\ dir /\ proc[p].op \in Operations
        /\ journal.outcome[proc[p].op] = "started" /\ root = proc[p].op
    BY <1>7 DEF MakeHome, CommandTrue, CommandOk, BuildLabels,
                CommandAnnounced
  <2>3. CommandTrue(proc[p])' /\ CommandAnnounced(proc[p])'
    BY <1>7, <2>1, <2>2
       DEF MakeHome, CommandTrue, CommandAnnounced, RecordLabels,
           RemoveLabels, Registered, Process
  <2>4. Reported'
    BY <1>7, <2>2 DEF MakeHome, Reported, UncertainOperations
  <2>. QED  BY <1>7, <2>2, <2>3, <2>4
            DEF MakeHome, RegisteredIsWhole, Registered, CopiesWhole
<1>8. CASE Configure(p)
  <2>1. proc'[p] = [proc[p] EXCEPT !.pc = "publish"]
    BY <1>8 DEF Configure, Goto
  <2>2. CommandTrue(proc[p])' /\ CommandAnnounced(proc[p])'
    BY <1>8, <2>1
       DEF Configure, CommandTrue, CommandAnnounced, RecordLabels,
           RemoveLabels, Registered, Process
  <2>. QED  BY <1>8, <2>2
            DEF Configure, RegisteredIsWhole, Registered, CopiesWhole,
                Reported, Remains, UncertainOperations
<1>9. CASE Publish(p)
  <2>1. proc'[p] = [proc[p] EXCEPT !.pc = "published"]
    BY <1>9 DEF Publish, Goto
  <2>2. root = proc[p].op /\ home = proc[p].op
    BY <1>9 DEF Publish, CommandTrue
  <2>3. /\ dir' = TRUE /\ UNCHANGED <<root, home, journal, saved>>
        /\ reg'.state = "stopped" /\ reg'.builder = proc[p].op
    BY <1>9 DEF Publish, WriteRegistration
  <2>4. Registered'
    BY <2>3 DEF Registered, NoRegistration
  <2>5. CommandTrue(proc[p])' /\ CommandAnnounced(proc[p])'
    BY <1>9, <2>1, <2>3, <2>4
       DEF Publish, CommandTrue, CommandAnnounced, RecordLabels,
           RemoveLabels, Process
  <2>. QED  BY <2>2, <2>3, <2>4, <2>5
            DEF RegisteredIsWhole, CopiesWhole, Reported, Remains
<1>10. CASE Complete(p)
  <2>1. Registered \/ (root = NoTree /\ home = NoTree)
    BY <1>10 DEF Complete, CommandTrue, RemoveLabels
  <2>2. CommandTrue(proc[p])' /\ CommandAnnounced(proc[p])'
    BY <1>10, ReturnSerial DEF Complete
  <2>. QED  BY <1>10, <2>1, <2>2
            DEF Complete, RegisteredIsWhole, Registered, CopiesWhole,
                Reported, Remains
<1>11. CASE BuildFails(p)
  <2>1. CommandTrue(proc[p])' /\ CommandAnnounced(proc[p])'
    BY <1>11, ReturnSerial DEF BuildFails
  <2>2. Reported'
    BY <1>11, LogReports DEF BuildFails, CommandOk, BuildLabels
  <2>. QED  BY <1>11, <2>1, <2>2
            DEF BuildFails, RegisteredIsWhole, Registered, CopiesWhole
<1>. QED  BY <1>2, <1>3, <1>4, <1>5, <1>6, <1>7, <1>8, <1>9, <1>10, <1>11
          DEF Build

(* A step that changes nothing but what a command does next. *)
LEMMA LocalSerial ==
    ASSUME NEW p, SerialInv(p), CommandTrue(proc[p])',
           CommandAnnounced(proc[p])', TypeInv',
           UNCHANGED <<tree, saved, journal>>
    PROVE  SerialInv(p)'
  BY DEF SerialInv, tree, RegisteredIsWhole, Registered, CopiesWhole,
         Reported, Remains, UncertainOperations

LEMMA ReadSerial ==
    ASSUME NEW p, Processes = {p}, SerialInv(p), TypeInv',
           NEW action \in {"start", "stop", "snapshot", "archive", "destroy"},
           NEW label \in {"launch", "stopping", "copy-root"},
           action = "destroy" => proc[p].action = "destroy",
           ReadRegistration(p, action, label)
    PROVE  SerialInv(p)'
<1>1. proc'[p] = [proc[p] EXCEPT !.action = action, !.pc = label,
                                 !.record = reg]
  BY DEF ReadRegistration, SerialInv, TypeInv, TypeOK
<1>2. proc[p] \in Process
  BY DEF SerialInv, TypeInv, TypeOK
<1>3. /\ proc'[p].pc = label /\ proc'[p].action = action
      /\ proc'[p].op = proc[p].op /\ proc'[p].record = reg
  BY <1>1, <1>2 DEF Process
<1>4. Registered /\ UNCHANGED <<reg, journal>>
  BY DEF ReadRegistration, tree
<1>5. CommandTrue(proc[p])'
  BY <1>3, <1>4 DEF CommandTrue, RecordLabels, RemoveLabels, Registered
<1>6. CommandAnnounced(proc[p])'
  <2>1. CASE action = "destroy"
    <3>1. journal.outcome[proc[p].op] = "started"
      BY <2>1 DEF SerialInv, CommandAnnounced
    <3>2. journal'.outcome[proc'[p].op] = "started"
      BY <3>1, <1>3, <1>4
    <3>. QED  BY <3>2 DEF CommandAnnounced
  <2>2. CASE action # "destroy"
    BY <2>2, <1>3 DEF CommandAnnounced
  <2>. QED  BY <2>1, <2>2
<1>. QED  BY <1>5, <1>6, LocalSerial DEF ReadRegistration, tree

LEMMA RunSerial ==
    ASSUME NEW p, Processes = {p}, SerialInv(p), TypeInv', Run(p)
    PROVE  SerialInv(p)'
<1>. USE DEF At, tree, drawn
<1>0. /\ proc \in [Processes -> Process] /\ CommandOk(proc[p])
      /\ p \in Processes /\ proc[p] \in Process
      /\ CommandTrue(proc[p]) /\ CommandAnnounced(proc[p])
  BY DEF TypeInv, TypeOK, SerialInv
<1>. USE <1>0
<1>1. CASE Start(p)
  BY <1>1, ReadSerial DEF Start
<1>2. CASE Stop(p)
  BY <1>2, ReadSerial DEF Stop
<1>3. CASE DestroyStops(p)
  BY <1>3, ReadSerial DEF DestroyStops, CommandOk
<1>4. ASSUME NEW label \in {"wait", "record-running", "record-stopped"},
             Goto(p, label), UNCHANGED <<tree, saved, journal>>,
             proc[p].pc \in {"launch", "wait", "stopping"}
      PROVE  SerialInv(p)'
  <2>1. proc'[p] = [proc[p] EXCEPT !.pc = label]
    BY <1>4 DEF Goto
  <2>2. CommandTrue(proc[p])' /\ CommandAnnounced(proc[p])'
    BY <1>4, <2>1
       DEF CommandTrue, CommandAnnounced, RecordLabels, RemoveLabels,
           Registered, Process
  <2>. QED  BY <1>4, <2>2, LocalSerial
<1>5. CASE Launch(p) \/ Started(p) \/ Stopped(p)
  BY <1>4, <1>5 DEF Launch, Started, Stopped
<1>6. CASE RecordState(p)
  <2>1. /\ Registered /\ proc[p].record \in Registration
        /\ proc[p].record.generation = reg.generation
        /\ proc[p].record.builder = reg.builder
    BY <1>6 DEF RecordState, CommandTrue, CommandOk, RecordLabels
  <2>2. /\ dir' = TRUE /\ UNCHANGED <<root, home, saved, journal>>
        /\ reg'.builder = reg.builder /\ reg'.generation = reg.generation
        /\ reg'.state \in {"running", "stopped"}
    BY <1>6, <2>1 DEF RecordState, WriteRegistration, Registration
  <2>3. Registered'
    BY <2>2 DEF Registered, NoRegistration
  <2>4. CASE Return(p)
    <3>1. CommandTrue(proc[p])' /\ CommandAnnounced(proc[p])'
      BY <2>4, ReturnSerial DEF SerialInv
    <3>. QED  BY <2>1, <2>2, <2>3, <3>1
              DEF SerialInv, RegisteredIsWhole, CopiesWhole, Reported,
                  Remains
  <2>5. CASE proc[p].action = "destroy" /\ Goto(p, "unpublish")
    <3>1. proc'[p] = [proc[p] EXCEPT !.pc = "unpublish"]
      BY <2>5 DEF Goto
    <3>2. CommandTrue(proc[p])' /\ CommandAnnounced(proc[p])'
      BY <2>2, <2>3, <2>5, <3>1
         DEF CommandTrue, CommandAnnounced, RecordLabels, RemoveLabels,
             Process
    <3>. QED  BY <2>1, <2>2, <2>3, <3>2
              DEF SerialInv, RegisteredIsWhole, CopiesWhole, Reported,
                  Remains
  <2>. QED  BY <1>6, <2>4, <2>5 DEF RecordState
<1>. QED  BY <1>1, <1>2, <1>3, <1>5, <1>6 DEF Run

LEMMA RemoveSerial ==
    ASSUME NEW p, Processes = {p}, SerialInv(p), TypeInv', Remove(p)
    PROVE  SerialInv(p)'
<1>. USE DEF At, tree, drawn, SerialInv
<1>0. /\ proc \in [Processes -> Process] /\ CommandOk(proc[p])
      /\ p \in Processes /\ proc[p] \in Process
  BY DEF TypeInv, TypeOK
<1>. USE <1>0
<1>1. CASE Destroy(p)
  <2>1. PICK generation : Announce(p, "destroy", generation, "stop")
    BY <1>1 DEF Destroy
  <2>2. proc'[p] = [Idle EXCEPT !.pc = "stop", !.action = "destroy",
                                !.op = operations', !.generation = generation]
    BY <2>1 DEF Announce
  <2>3. operations' \in Operations
    BY <2>1, MaxOperationsAssumption
       DEF Announce, TypeInv, TypeOK, Operations
  <2>4. Reported' /\ journal'.outcome[operations'] = "started"
    BY <2>1, <2>3, LogReports DEF Announce
  <2>5. CommandTrue(proc[p])' /\ CommandAnnounced(proc[p])'
    BY <2>2, <2>4 DEF CommandTrue, CommandAnnounced, Idle, RecordLabels,
                      RemoveLabels
  <2>. QED  BY <2>1, <2>4, <2>5
            DEF Announce, RegisteredIsWhole, Registered, CopiesWhole
<1>2. CASE Unpublish(p)
  <2>1. proc'[p] = [proc[p] EXCEPT !.pc = "remove-home"]
    BY <1>2 DEF Unpublish, Goto
  <2>2. /\ proc[p].op \in Operations /\ proc[p].action = "destroy"
        /\ journal.outcome[proc[p].op] = "started"
    BY <1>2 DEF Unpublish, CommandOk, CommandAnnounced
  <2>3. CommandTrue(proc[p])' /\ CommandAnnounced(proc[p])'
    BY <1>2, <2>1, <2>2
       DEF Unpublish, CommandTrue, CommandAnnounced, RecordLabels,
           RemoveLabels, Registered, Process
  <2>4. Reported'
    BY <1>2, <2>2 DEF Unpublish, Reported, UncertainOperations
  <2>. QED  BY <1>2, <2>3, <2>4
            DEF Unpublish, RegisteredIsWhole, Registered, CopiesWhole
<1>3. CASE RemoveHome(p)
  <2>1. proc'[p] = [proc[p] EXCEPT !.pc = "remove-root"]
    BY <1>3 DEF RemoveHome, Goto
  <2>2. ~Registered
    BY <1>3 DEF RemoveHome, CommandTrue, RemoveLabels
  <2>3. CommandTrue(proc[p])' /\ CommandAnnounced(proc[p])'
    BY <1>3, <2>1, <2>2
       DEF RemoveHome, CommandTrue, CommandAnnounced, RecordLabels,
           RemoveLabels, Registered, Process
  <2>. QED  BY <1>3, <2>2, <2>3
            DEF RemoveHome, RegisteredIsWhole, Registered, CopiesWhole,
                Reported, Remains, UncertainOperations
<1>4. CASE RemoveRoot(p)
  <2>1. proc'[p] = [proc[p] EXCEPT !.pc = "rmdir"]
    BY <1>4 DEF RemoveRoot, Goto
  <2>2. ~Registered /\ home = NoTree
    BY <1>4 DEF RemoveRoot, CommandTrue, RemoveLabels
  <2>3. CommandTrue(proc[p])' /\ CommandAnnounced(proc[p])'
    BY <1>4, <2>1, <2>2
       DEF RemoveRoot, CommandTrue, CommandAnnounced, RecordLabels,
           RemoveLabels, Registered, Process
  <2>. QED  BY <1>4, <2>2, <2>3
            DEF RemoveRoot, RegisteredIsWhole, Registered, CopiesWhole,
                Reported, Remains, UncertainOperations
<1>5. CASE RemoveDirectory(p)
  <2>1. proc'[p] = [proc[p] EXCEPT !.pc = "removed"]
    BY <1>5 DEF RemoveDirectory, Goto
  <2>2. CommandTrue(proc[p])' /\ CommandAnnounced(proc[p])'
    BY <1>5, <2>1
       DEF RemoveDirectory, CommandTrue, CommandAnnounced, RecordLabels,
           RemoveLabels, Registered, Process
  <2>. QED  BY <1>5, <2>2
            DEF RemoveDirectory, RegisteredIsWhole, Registered,
                CopiesWhole, Reported, Remains
<1>6. CASE RecoverUnpublished(p)
  <2>1. proc'[p] = [Idle EXCEPT !.pc = "remove-home",
                                !.action = journal.open.action,
                                !.op = journal.open.op]
    BY <1>6 DEF RecoverUnpublished
  <2>2. journal.open.action \in {"create", "restore"}
    BY <1>6 DEF RecoverUnpublished, TypeInv, OpenKnown
  <2>3. CommandTrue(proc[p])' /\ CommandAnnounced(proc[p])'
    BY <1>6, <2>1, <2>2
       DEF RecoverUnpublished, CommandTrue, CommandAnnounced, RecordLabels,
           RemoveLabels, Registered, Idle
  <2>. QED  BY <1>6, <2>3, LocalSerial DEF RecoverUnpublished
<1>. QED  BY <1>1, <1>2, <1>3, <1>4, <1>5, <1>6 DEF Remove

LEMMA PreserveSerial ==
    ASSUME NEW p, Processes = {p}, SerialInv(p), TypeInv', Preserve(p)
    PROVE  SerialInv(p)'
<1>. USE DEF At, tree, drawn
<1>0. /\ proc \in [Processes -> Process] /\ p \in Processes
      /\ proc[p] \in Process
      /\ CommandTrue(proc[p]) /\ CommandAnnounced(proc[p])
  BY DEF TypeInv, TypeOK, SerialInv
<1>. USE <1>0
<1>1. CASE Snapshot(p)
  BY <1>1, ReadSerial DEF Snapshot
<1>2. CASE CopyRoot(p)
  <2>1. proc'[p] = [proc[p] EXCEPT !.root = root, !.pc = "copy-home"]
    BY <1>2 DEF CopyRoot, Capture
  <2>2. Registered /\ root = reg.builder
    BY <1>2 DEF CopyRoot, CommandTrue, RecordLabels, SerialInv,
                RegisteredIsWhole
  <2>3. CommandTrue(proc[p])' /\ CommandAnnounced(proc[p])'
    BY <1>2, <2>1, <2>2
       DEF CopyRoot, Capture, CommandTrue, CommandAnnounced, RecordLabels,
           RemoveLabels, Registered, Process
  <2>. QED  BY <1>2, <2>3, LocalSerial DEF CopyRoot, Capture
<1>3. CASE CopyHome(p)
  <2>1. proc'[p] = [proc[p] EXCEPT !.home = home, !.pc = "publish-snapshot"]
    BY <1>3 DEF CopyHome, Capture
  <2>2. Registered /\ home = reg.builder
    BY <1>3 DEF CopyHome, CommandTrue, RecordLabels, SerialInv,
                RegisteredIsWhole
  <2>3. CommandTrue(proc[p])' /\ CommandAnnounced(proc[p])'
    BY <1>3, <2>1, <2>2
       DEF CopyHome, Capture, CommandTrue, CommandAnnounced, RecordLabels,
           RemoveLabels, Registered, Process
  <2>. QED  BY <1>3, <2>3, LocalSerial DEF CopyHome, Capture
<1>4. ASSUME NEW kind \in {"snapshot", "archive"}, Save(p, kind),
             proc[p].root = proc[p].home, UNCHANGED <<tree, journal>>,
             CommandTrue(proc[p])', CommandAnnounced(proc[p])'
      PROVE  SerialInv(p)'
  BY <1>4 DEF SerialInv, Save, RegisteredIsWhole, Registered, CopiesWhole,
              Reported, Remains, UncertainOperations
<1>5. CASE PublishSnapshot(p)
  <2>1. proc[p].root = proc[p].home
    BY <1>5 DEF PublishSnapshot, CommandTrue
  <2>2. CASE Return(p)
    BY <1>4, <1>5, <2>1, <2>2, ReturnSerial DEF PublishSnapshot, Save, SerialInv
  <2>3. CASE Goto(p, "publish-archive")
    <3>1. proc'[p] = [proc[p] EXCEPT !.pc = "publish-archive"]
      BY <2>3 DEF Goto
    <3>2. CommandTrue(proc[p])' /\ CommandAnnounced(proc[p])'
      BY <1>5, <3>1
         DEF PublishSnapshot, Save, CommandTrue, CommandAnnounced,
             RecordLabels, RemoveLabels, Registered, Process
    <3>. QED  BY <1>4, <1>5, <2>1, <3>2 DEF PublishSnapshot, Save
  <2>. QED  BY <1>5, <2>2, <2>3 DEF PublishSnapshot
<1>6. CASE PublishArchive(p)
  BY <1>4, <1>6, ReturnSerial DEF PublishArchive, Save, CommandTrue, SerialInv
<1>. QED  BY <1>1, <1>2, <1>3, <1>5, <1>6 DEF Preserve

LEMMA SerialNext ==
    ASSUME NEW p, Processes = {p}
    PROVE  SerialInv(p) /\ [Next]_vars => SerialInv(p)'
<1>. SUFFICES ASSUME SerialInv(p), [Next]_vars PROVE SerialInv(p)'
  OBVIOUS
<1>0. TypeInv /\ TypeInv'
  BY NextType DEF SerialInv
<1>. USE <1>0
<1>1. CASE MachineChanges \/ UNCHANGED vars \/ PlanCreate(p) \/ PlanDestroy(p)
  <2>1. UNCHANGED <<tree, saved, journal, proc>>
    BY <1>1 DEF MachineChanges, PlanCreate, PlanDestroy, vars
  <2>2. CommandTrue(proc[p])' /\ CommandAnnounced(proc[p])'
    BY <2>1 DEF SerialInv, CommandTrue, CommandAnnounced, tree, Registered
  <2>. QED  BY <2>1, <2>2, LocalSerial
<1>2. CASE Reboot
  <2>1. Return(p) /\ UNCHANGED <<tree, saved, journal>>
    BY <1>2 DEF Reboot, Return, TypeInv, TypeOK
  <2>. QED  BY <2>1, ReturnSerial, LocalSerial
<1>3. CASE Interrupt(p)
  BY <1>3, ReturnSerial, LocalSerial DEF Interrupt
<1>. QED  BY <1>1, <1>2, <1>3, BuildSerial, RunSerial, RemoveSerial,
             PreserveSerial DEF Next

LEMMA SerialInvHolds ==
    ASSUME NEW p, Processes = {p}
    PROVE  Spec => []SerialInv(p)
  BY SerialInit, SerialNext, PTL DEF Spec

(* When commands never overlap, a registered Environment is whole, however *)
(* often commands crash and whatever is recovered, restored or replanned.  *)
THEOREM RegisteredIsWholeHolds ==
    ASSUME NEW p, Processes = {p}
    PROVE  Spec => []RegisteredIsWhole
<1>1. SerialInv(p) => RegisteredIsWhole
  BY DEF SerialInv
<1>. QED  BY <1>1, SerialInvHolds, PTL

(* When commands never overlap, no subvolume of an interrupted command is  *)
(* forgotten by recovery-status.                                           *)
THEOREM RemainsReportedHolds ==
    ASSUME NEW p, Processes = {p}
    PROVE  Spec => []RemainsReported
<1>1. SerialInv(p) => RemainsReported
  BY DEF SerialInv, Reported, Remains, RemainsReported
<1>. QED  BY <1>1, SerialInvHolds, PTL

(* When commands never overlap, nothing touches a published Environment    *)
(* before it is unpublished.                                               *)
THEOREM PublishedUntouchedHolds ==
    ASSUME NEW p, Processes = {p}
    PROVE  Spec => PublishedUntouched
<1>. DEFINE Step == Registered /\ reg' # NoRegistration =>
                       /\ UNCHANGED <<dir, root, home>>
                       /\ reg'.generation = reg.generation
                       /\ reg'.builder = reg.builder
<1>1. SerialInv(p) /\ [Next]_vars => [Step]_vars
  <2>. SUFFICES ASSUME SerialInv(p), Next, Registered, reg' # NoRegistration
                PROVE  Step
    BY DEF vars, tree
  <2>. USE DEF SerialInv, At, tree, drawn
  <2>1. CommandTrue(proc[p]) /\ dir = TRUE /\ CommandOk(proc[p])
    BY DEF TypeInv, TypeOK, RegisteredIsWhole
  <2>2. CASE RecordState(p)
    <3>1. /\ proc[p].record.generation = reg.generation
          /\ proc[p].record.builder = reg.builder
          /\ proc[p].record \in Registration
      BY <2>1, <2>2 DEF RecordState, CommandTrue, CommandOk, RecordLabels
    <3>. QED  BY <2>1, <2>2, <3>1
              DEF RecordState, WriteRegistration, Registration
  <2>3. CASE \/ MakeDirectory(p) \/ MakeRoot(p) \/ MakeHome(p) \/ Publish(p)
             \/ Unpublish(p) \/ RemoveHome(p) \/ RemoveRoot(p)
             \/ RemoveDirectory(p)
    BY <2>1, <2>3
       DEF MakeDirectory, MakeRoot, MakeHome, Publish, Unpublish, RemoveHome,
           RemoveRoot, RemoveDirectory, CommandTrue, RemoveLabels
  <2>4. CASE UNCHANGED tree
    BY <2>4
  <2>. QED
    BY <2>2, <2>3, <2>4
       DEF Next, MachineChanges, Reboot, PlanCreate, PlanDestroy, Interrupt,
           Build, Create, Restore, AnnounceRestore, Announce, Configure,
           Complete, BuildFails, Run, Start, Launch, Started, Stop,
           DestroyStops, Stopped, ReadRegistration, Remove, Destroy,
           RecoverUnpublished, Preserve, Snapshot, CopyRoot, CopyHome,
           Capture, PublishSnapshot, PublishArchive, Save
<1>. QED  BY <1>1, SerialInvHolds, PTL DEF Spec, PublishedUntouched
-----------------------------------------------------------------------------
(* The daemon in front of the runtime *)

LEMMA ExecutorStep == [ExecutorNext]_executorVars => [Next]_vars
<1>. SUFFICES ASSUME ExecutorNext PROVE [Next]_vars
  BY DEF executorVars
<1>. USE DaemonAssumption
<1>1. CASE Perform
  BY <1>1 DEF Perform, Effect, Fails, Next, Build
<1>2. CASE Dispatch \/ DispatchPlan
  BY <1>2 DEF Dispatch, DispatchPlan, Begin, Next, Build, Run, Remove, Preserve
<1>3. CASE Console
  BY <1>3 DEF Console, Next
<1>. QED
  BY <1>1, <1>2, <1>3
     DEF ExecutorNext, GiveUp, Accept, Authorize, Admit, Reject, Refuse,
         HangUp, Tell, Answer,
         DaemonDies, MachineStep, HubChanges, HostReboots, Next

(* Behind the daemon the runtime does what it does by itself: whatever is  *)
(* proved of its commands holds of the requests of the Hub.                *)
THEOREM ExecutorImplements == ExecutorSpec => Spec
<1>1. ExecutorInit => Init
  BY DEF ExecutorInit
<1>. QED  BY <1>1, ExecutorStep, PTL DEF ExecutorSpec, Spec

(* What a command says about its operation at each of its steps *)
OperationTrue(c) ==
    /\ c.pc = "idle" => c.op = NoOperation
    /\ c.pc = "published" => reg.builder = c.op
    /\ c.pc = "removed" => ~dir
    /\ c.pc \in {"launch", "wait", "record-running"} => c.action = "start"
    /\ c.pc \in {"stopping", "record-stopped"} => c.action \in {"stop", "destroy"}
    /\ c.pc \in {"copy-root", "copy-home", "publish-snapshot",
                 "publish-archive"} => c.action \in {"snapshot", "archive"}

(* A request never leads to the cleaning of an unpublished Environment.    *)
Requested(c) ==
    /\ c.pc # "idle"
    /\ \/ c.op = NoOperation \/ c.action = "destroy"
       \/ c.pc \in BuildLabels
       \/ c.pc = "mkdir" /\ c.action = "create"

CallInv ==
    /\ connection \in Connection
    /\ OperationTrue(proc[Daemon])
    /\ Serving("performing") => Requested(proc[Daemon])

LEMMA CallInit == ExecutorInit => CallInv
  BY DaemonAssumption
     DEF ExecutorInit, Init, CallInv, OperationTrue, Serving, Connection,
         NoConnection, Idle

LEMMA IdleOperation == OperationTrue(Idle)
  BY DEF OperationTrue, Idle

LEMMA ReturnOperation ==
    ASSUME TypeInv, Return(Daemon)
    PROVE  OperationTrue(proc[Daemon])'
<1>1. proc'[Daemon] = Idle
  BY DaemonAssumption DEF Return, TypeInv, TypeOK
<1>. QED  BY <1>1 DEF OperationTrue, Idle

LEMMA AnnounceOperation ==
    ASSUME TypeInv, NEW action, NEW generation,
           NEW label \in {"mkdir", "stop", "root"},
           Announce(Daemon, action, generation, label)
    PROVE  OperationTrue(proc[Daemon])'
<1>1. proc'[Daemon] = [Idle EXCEPT !.pc = label, !.action = action,
                                   !.op = operations',
                                   !.generation = generation]
  BY DaemonAssumption DEF Announce, TypeInv, TypeOK
<1>. QED  BY <1>1 DEF OperationTrue, Idle

LEMMA OperationNext ==
    ASSUME NEW d, d = Daemon, Processes = {d}, TypeInv,
           OperationTrue(proc[d]), [Next]_vars
    PROVE  OperationTrue(proc[d])'
<1>0. /\ proc \in [Processes -> Process] /\ CommandOk(proc[d])
      /\ d \in Processes /\ proc[d] \in Process
  BY DaemonAssumption DEF TypeInv, TypeOK
<1>. USE <1>0 DEF At, OperationTrue, Process, tree, drawn
<1>1. CASE Return(d)
  BY <1>1, ReturnOperation
<1>2. CASE MachineChanges \/ UNCHANGED vars \/ PlanCreate(d) \/ PlanDestroy(d)
  BY <1>2 DEF MachineChanges, PlanCreate, PlanDestroy, vars
<1>3. CASE Reboot
  BY <1>3 DEF Reboot, Idle
<1>4. CASE Create(d) \/ Destroy(d) \/ AnnounceRestore(d)
  BY <1>4, AnnounceOperation DEF Create, Destroy, AnnounceRestore
<1>5. CASE Restore(d) \/ RecoverUnpublished(d)
  <2>1. \/ proc'[d] = [Idle EXCEPT !.pc = "mkdir", !.action = "restore"]
        \/ proc'[d] = [Idle EXCEPT !.pc = "remove-home",
                                   !.action = journal.open.action,
                                   !.op = journal.open.op]
    BY <1>5 DEF Restore, RecoverUnpublished
  <2>2. proc'[d].pc \in {"mkdir", "remove-home"}
    BY <2>1 DEF Idle
  <2>. QED  BY <2>2
<1>6. CASE MakeDirectory(d) \/ MakeRoot(d) \/ MakeHome(d) \/ Configure(d)
  BY <1>6 DEF MakeDirectory, MakeRoot, MakeHome, Configure, Goto
<1>7. CASE Publish(d)
  BY <1>7 DEF Publish, WriteRegistration, Goto
<1>8. CASE Start(d) \/ Stop(d) \/ DestroyStops(d) \/ Snapshot(d)
  BY <1>8 DEF Start, Stop, DestroyStops, Snapshot, ReadRegistration
<1>9. CASE Launch(d) \/ Started(d) \/ Stopped(d) \/ RecordState(d)
  BY <1>9, <1>1 DEF Launch, Started, Stopped, RecordState, Goto
<1>10. CASE \/ Unpublish(d) \/ RemoveHome(d) \/ RemoveRoot(d)
            \/ RemoveDirectory(d)
  BY <1>10 DEF Unpublish, RemoveHome, RemoveRoot, RemoveDirectory, Goto
<1>11. CASE CopyRoot(d) \/ CopyHome(d)
  <2>1. \/ proc'[d] = [proc[d] EXCEPT !.root = root, !.pc = "copy-home"]
        \/ proc'[d] = [proc[d] EXCEPT !.home = home, !.pc = "publish-snapshot"]
    BY <1>11 DEF CopyRoot, CopyHome, Capture
  <2>. QED  BY <1>11, <2>1 DEF CopyRoot, CopyHome
<1>12. CASE PublishSnapshot(d) \/ PublishArchive(d)
  BY <1>12, <1>1 DEF PublishSnapshot, PublishArchive, Goto
<1>. QED
  BY <1>1, <1>2, <1>3, <1>4, <1>5, <1>6, <1>7, <1>8, <1>9, <1>10, <1>11,
     <1>12
     DEF Next, Build, Run, Remove, Preserve, Complete, BuildFails, Interrupt

(* A request stays one until its command returns. *)
LEMMA RequestedNext ==
    ASSUME NEW d, d = Daemon, TypeInv, OperationTrue(proc[d]),
           Requested(proc[d]), Effect(d) \/ Fails, ~At(d, "idle")'
    PROVE  Requested(proc[d])'
<1>0. /\ proc \in [Processes -> Process] /\ CommandOk(proc[d])
      /\ d \in Processes /\ proc[d] \in Process
  BY DaemonAssumption DEF TypeInv, TypeOK
<1>. USE <1>0 DEF At, OperationTrue, Requested, Process
<1>1. ASSUME Return(d) PROVE FALSE
  BY <1>1 DEF Return, Idle
<1>2. CASE AnnounceRestore(d)
  BY <1>2 DEF AnnounceRestore, Announce, BuildLabels, Idle
<1>3. CASE MakeDirectory(d) \/ MakeRoot(d) \/ MakeHome(d) \/ Configure(d)
             \/ Publish(d)
  BY <1>3 DEF MakeDirectory, MakeRoot, MakeHome, Configure, Publish, Goto,
              BuildLabels, CommandOk
<1>4. CASE DestroyStops(d)
  BY <1>4 DEF DestroyStops, ReadRegistration
<1>5. CASE Launch(d) \/ Started(d) \/ Stopped(d) \/ RecordState(d)
  BY <1>5, <1>1
     DEF Launch, Started, Stopped, RecordState, Goto, BuildLabels
<1>6. CASE \/ Unpublish(d) \/ RemoveHome(d) \/ RemoveRoot(d)
           \/ RemoveDirectory(d)
  BY <1>6 DEF Unpublish, RemoveHome, RemoveRoot, RemoveDirectory, Goto,
              BuildLabels
<1>7. CASE CopyRoot(d) \/ CopyHome(d)
  <2>1. \/ proc'[d] = [proc[d] EXCEPT !.root = root, !.pc = "copy-home"]
        \/ proc'[d] = [proc[d] EXCEPT !.home = home, !.pc = "publish-snapshot"]
    BY <1>7 DEF CopyRoot, CopyHome, Capture
  <2>2. proc[d].op = NoOperation
    BY <1>7 DEF CopyRoot, CopyHome, BuildLabels
  <2>. QED  BY <2>1, <2>2
<1>8. CASE PublishSnapshot(d) \/ PublishArchive(d)
  BY <1>8, <1>1 DEF PublishSnapshot, PublishArchive, Goto, BuildLabels
<1>. QED
  BY <1>1, <1>2, <1>3, <1>4, <1>5, <1>6, <1>7, <1>8
     DEF Effect, Fails, Build, Run, Remove, Preserve, Complete, BuildFails,
         Interrupt, Create, Destroy, Restore, Start, Stop, Snapshot,
         RecoverUnpublished

LEMMA CallNext ==
    ASSUME Processes = {Daemon}, TypeInv, CallInv, [ExecutorNext]_executorVars
    PROVE  CallInv'
<1>0. connection' \in Connection
  <2>0. connection \in Connection
    BY DEF CallInv
  <2>. USE <2>0
  <2>4. Absent => connection' \in Connection
    BY DEF Absent, Connection
  <2>5. ASSUME NEW ok \in BOOLEAN, Answering(ok)
        PROVE  connection' \in Connection
    BY <2>5 DEF Answering, Connection
  <2>6. ASSUME NEW ok \in BOOLEAN, Returns(ok)
        PROVE  connection' \in Connection
    BY <2>5, <2>6 DEF Returns
  <2>1. CASE Perform
    BY <2>1, <2>6 DEF Perform, Fails
  <2>2. CASE GiveUp \/ HubChanges
    BY <2>2, <2>4 DEF GiveUp, HubChanges
  <2>3. CASE Reject \/ Refuse \/ HangUp \/ Tell \/ DispatchPlan
    BY <2>3, <2>5 DEF Reject, Refuse, HangUp, Tell, DispatchPlan
  <2>7. CASE Accept
    <3>1. PICK present \in BOOLEAN :
              connection' = [pc |-> "accepted", present |-> present,
                             ok |-> FALSE]
      BY <2>7 DEF Accept
    <3>. QED  BY <3>1 DEF Connection
  <2>8. CASE Admit \/ Dispatch
    <3>1. PICK label \in {"reading", "performing"} :
              connection' = [connection EXCEPT !.pc = label]
      BY <2>8 DEF Admit, Dispatch
    <3>. QED  BY <3>1 DEF Connection
  <2>9. CASE Answer \/ DaemonDies \/ HostReboots
    <3>1. connection' = NoConnection
      BY <2>9 DEF Answer, DaemonDies, HostReboots
    <3>. QED  BY <3>1 DEF NoConnection, Connection
  <2>. QED
    BY <2>1, <2>2, <2>3, <2>7, <2>8, <2>9
       DEF ExecutorNext, Authorize, executorVars, Console, MachineStep
<1>1. OperationTrue(proc[Daemon])'
  BY ExecutorStep, OperationNext DEF CallInv
<1>2. ASSUME Serving("performing")' PROVE Requested(proc[Daemon])'
  <2>. USE DEF Serving, CallInv
  <2>1. CASE Dispatch
    <3>0. proc \in [Processes -> Process] /\ Daemon \in Processes
      BY DaemonAssumption DEF TypeInv, TypeOK
    <3>1. proc[Daemon].pc = "idle" /\ proc[Daemon].op = NoOperation
      BY <2>1 DEF Dispatch, Begin, Create, Destroy, Restore, Start, Stop,
                  Snapshot, At, OperationTrue
    <3>2. CASE Create(Daemon) \/ Destroy(Daemon)
      <4>1. PICK generation : \/ Announce(Daemon, "create", generation, "mkdir")
                              \/ Announce(Daemon, "destroy", generation, "stop")
        BY <3>2 DEF Create, Destroy
      <4>2. \/ proc'[Daemon] = [Idle EXCEPT !.pc = "mkdir",
                                    !.action = "create", !.op = operations',
                                    !.generation = generation]
            \/ proc'[Daemon] = [Idle EXCEPT !.pc = "stop",
                                    !.action = "destroy", !.op = operations',
                                    !.generation = generation]
        BY <3>0, <4>1 DEF Announce
      <4>. QED  BY <4>2 DEF Idle, Requested
    <3>3. CASE Restore(Daemon)
      BY <3>0, <3>3 DEF Restore, Requested, Idle
    <3>4. CASE Start(Daemon) \/ Stop(Daemon) \/ Snapshot(Daemon)
      <4>1. /\ proc'[Daemon].op = proc[Daemon].op
            /\ proc'[Daemon].pc \in {"launch", "stopping", "copy-root"}
        BY <3>0, <3>4 DEF Start, Stop, Snapshot, ReadRegistration, Process
      <4>. QED  BY <3>1, <4>1 DEF Requested
    <3>. QED  BY <2>1, <3>2, <3>3, <3>4 DEF Dispatch, Begin
  <2>2. CASE Perform
    <3>1. ~At(Daemon, "idle")' /\ Serving("performing")
      BY <1>2, <2>2 DEF Perform, Returns, Answering, Fails
    <3>. QED  BY <2>2, <3>1, RequestedNext DEF Perform
  <2>3. CASE UNCHANGED <<connection, proc>>
    BY <1>2, <2>3
  <2>4. CASE GiveUp \/ Admit \/ HubChanges
    BY <1>2, <2>4 DEF GiveUp, Admit, HubChanges, Absent, Connection, vars
  <2>. QED
    BY <1>2, <2>1, <2>2, <2>3, <2>4
       DEF ExecutorNext, executorVars, vars, Accept, Authorize, Reject, Refuse,
           HangUp, Tell, DispatchPlan, Answer, Answering, DaemonDies, Console, MachineStep,
           MachineChanges, HostReboots, NoConnection
<1>. QED  BY <1>0, <1>1, <1>2 DEF CallInv

(* The steps after which a command has returned *)
LEMMA EffectReturns ==
    ASSUME NEW d, d = Daemon, TypeInv, Effect(d), At(d, "idle")'
    PROVE  Complete(d) \/ RecordState(d) \/ PublishSnapshot(d) \/ PublishArchive(d)
<1>0. /\ proc \in [Processes -> Process] /\ d \in Processes
      /\ proc[d] \in Process
  BY DaemonAssumption DEF TypeInv, TypeOK
<1>. USE <1>0 DEF At, Process
<1>1. ASSUME NEW label \in {"mkdir", "stop", "root"}, NEW action,
             NEW generation, Announce(d, action, generation, label)
      PROVE  FALSE
  <2>1. proc'[d] = [Idle EXCEPT !.pc = label, !.action = action,
                                !.op = operations', !.generation = generation]
    BY <1>1 DEF Announce
  <2>. QED  BY <2>1 DEF Idle
<1>2. ~Create(d) /\ ~Destroy(d) /\ ~AnnounceRestore(d)
  BY <1>1 DEF Create, Destroy, AnnounceRestore
<1>3. ~Restore(d) /\ ~RecoverUnpublished(d)
  <2>1. ASSUME Restore(d) \/ RecoverUnpublished(d) PROVE FALSE
    <3>1. \/ proc'[d] = [Idle EXCEPT !.pc = "mkdir", !.action = "restore"]
          \/ proc'[d] = [Idle EXCEPT !.pc = "remove-home",
                                     !.action = journal.open.action,
                                     !.op = journal.open.op]
      BY <2>1 DEF Restore, RecoverUnpublished
    <3>. QED  BY <3>1 DEF Idle
  <2>. QED  BY <2>1
<1>4. ASSUME NEW label, label # "idle", Goto(d, label)
      PROVE  FALSE
  BY <1>4 DEF Goto
<1>5. /\ ~MakeDirectory(d) /\ ~MakeRoot(d) /\ ~MakeHome(d) /\ ~Configure(d)
      /\ ~Publish(d) /\ ~Launch(d) /\ ~Started(d) /\ ~Stopped(d)
      /\ ~Unpublish(d) /\ ~RemoveHome(d) /\ ~RemoveRoot(d)
      /\ ~RemoveDirectory(d)
  BY <1>4 DEF MakeDirectory, MakeRoot, MakeHome, Configure, Publish, Launch,
              Started, Stopped, Unpublish, RemoveHome, RemoveRoot,
              RemoveDirectory
<1>6. ~Start(d) /\ ~Stop(d) /\ ~DestroyStops(d) /\ ~Snapshot(d)
  BY DEF Start, Stop, DestroyStops, Snapshot, ReadRegistration
<1>7. ~CopyRoot(d) /\ ~CopyHome(d)
  <2>1. ASSUME CopyRoot(d) \/ CopyHome(d) PROVE FALSE
    <3>1. \/ proc'[d] = [proc[d] EXCEPT !.root = root, !.pc = "copy-home"]
          \/ proc'[d] = [proc[d] EXCEPT !.home = home,
                                        !.pc = "publish-snapshot"]
      BY <2>1 DEF CopyRoot, CopyHome, Capture
    <3>. QED  BY <3>1
  <2>. QED  BY <2>1
<1>. QED  BY <1>2, <1>3, <1>5, <1>6, <1>7
          DEF Effect, Build, Run, Remove, Preserve

(* What the daemon answers to a create, restore or destroy is true, as     *)
(* long as the console waits for its turn.                                 *)
THEOREM AnswerTrueHolds ==
    ASSUME NEW p, Processes = {p}
    PROVE  ExecutorSpec => AnswerTrue
<1>. DEFINE Told == Serving("performing") /\ Serving("answering")' => AnswerStep
<1>0. p = Daemon
  BY DaemonAssumption
<1>1. SerialInv(p) /\ CallInv /\ [ExecutorNext]_executorVars =>
          [Told]_executorVars
  <2>. SUFFICES ASSUME SerialInv(p), CallInv, ExecutorNext,
                       Serving("performing"), Serving("answering")'
                PROVE  AnswerStep
    BY DEF executorVars, vars
  <2>. USE <1>0
  <2>0. /\ OperationTrue(proc[p]) /\ Requested(proc[p]) /\ TypeInv
        /\ CommandTrue(proc[p]) /\ CommandAnnounced(proc[p])
        /\ CommandOk(proc[p]) /\ journal \in Journal
    BY DaemonAssumption DEF CallInv, SerialInv, TypeInv, TypeOK
  <2>1. Perform
    BY DEF ExecutorNext, Serving, GiveUp, Accept, Authorize, Admit, Reject,
           Refuse, HangUp, Tell, DispatchPlan, Dispatch, Answer, DaemonDies,
           Console, MachineStep, HubChanges, HostReboots, NoConnection, Absent,
           CallInv, Connection
  <2>2. At(p, "idle")'
    BY <2>1 DEF Perform, Fails, Returns, Serving
  <2>3. CASE Fails
    <3>1. connection'.ok = FALSE
      BY <2>2, <2>3 DEF Fails, Returns, Answering
    <3>2. proc[p].op # NoOperation => journal'.outcome[proc[p].op] # "complete"
      <4>1. CASE BuildFails(p)
        BY <2>0, <4>1 DEF BuildFails, Log, Journal, CommandOk, BuildLabels, At
      <4>2. CASE Interrupt(p)
        BY <2>0, <4>2
           DEF Interrupt, Requested, CommandAnnounced, BuildLabels
      <4>. QED  BY <2>3, <4>1, <4>2 DEF Fails
    <3>. QED  BY <3>1, <3>2 DEF AnswerStep
  <2>4. CASE Effect(p) /\ Returns(TRUE)
    <3>1. connection'.ok = TRUE
      BY <2>2, <2>4 DEF Returns, Answering
    <3>2. CASE Complete(p)
      <4>1. /\ proc[p].op \in Operations
            /\ journal'.outcome[proc[p].op] = "complete" /\ UNCHANGED tree
        BY <2>0, <3>2
           DEF Complete, Log, Journal, CommandOk, BuildLabels, RemoveLabels, At
      <4>2. CASE proc[p].pc = "published"
        BY <2>0, <3>1, <4>1, <4>2
           DEF AnswerStep, OperationTrue, CommandTrue, CommandOk, BuildLabels,
               SerialInv, RegisteredIsWhole, tree
      <4>3. CASE proc[p].pc = "removed"
        <5>1. proc[p].op # NoOperation
          BY <4>1 DEF Operations, NoOperation
        <5>2. proc[p].action = "destroy"
          BY <2>0, <4>3, <5>1 DEF Requested, BuildLabels
        <5>3. ~dir' /\ root' = NoTree /\ home' = NoTree
          BY <2>0, <4>1, <4>3 DEF OperationTrue, CommandTrue, tree
        <5>. QED  BY <3>1, <4>1, <5>2, <5>3 DEF AnswerStep
      <4>. QED  BY <3>2, <4>2, <4>3 DEF Complete, At
    <3>3. CASE RecordState(p)
      <4>1. ~Goto(p, "unpublish")
        BY <2>2, DaemonAssumption DEF Goto, At, SerialInv, TypeInv, TypeOK,
                                      Process
      <4>2. proc[p].action \in {"start", "stop"}
        BY <2>0, <3>3, <4>1 DEF RecordState, At, OperationTrue
      <4>3. proc[p].op = NoOperation
        BY <2>0, <3>3, <4>2
           DEF RecordState, At, Requested, BuildLabels
      <4>. QED  BY <4>2, <4>3 DEF AnswerStep
    <3>4. CASE PublishSnapshot(p) \/ PublishArchive(p)
      <4>1. proc[p].action \in {"snapshot", "archive"}
        BY <2>0, <3>4 DEF PublishSnapshot, PublishArchive, At, OperationTrue
      <4>2. proc[p].op = NoOperation
        BY <2>0, <3>4, <4>1
           DEF PublishSnapshot, PublishArchive, At, Requested, BuildLabels
      <4>. QED  BY <4>1, <4>2 DEF AnswerStep
    <3>. QED  BY <2>2, <2>4, <3>2, <3>3, <3>4, <2>0, EffectReturns
  <2>. QED  BY <2>1, <2>3, <2>4 DEF Perform
<1>2. ExecutorInit => CallInv
  BY CallInit
<1>3. SerialInv(p) /\ CallInv /\ [ExecutorNext]_executorVars => CallInv'
  BY <1>0, CallNext DEF SerialInv
<1>4. ExecutorSpec => []SerialInv(p)
  <2>1. Spec => []SerialInv(p)
    BY SerialInvHolds, PTL
  <2>2. ExecutorSpec => Spec
    BY ExecutorImplements, PTL
  <2>. QED  BY <2>1, <2>2, PTL
<1>5. ExecutorSpec => []CallInv
  BY <1>2, <1>3, <1>4, PTL DEF ExecutorSpec
<1>. QED  BY <1>1, <1>4, <1>5, PTL DEF ExecutorSpec, AnswerTrue
-----------------------------------------------------------------------------
(* The runtime implements WholeEnvironment.                                *)

(* What is not in a directory does not exist, and a restore that has made  *)
(* the directory finds it empty.                                           *)
Emptied(p) ==
    ~dir \/ proc[p].pc = "announce" => root = NoTree /\ home = NoTree

WholeInv(p) == SerialInv(p) /\ Emptied(p)

LEMMA EmptiedNext ==
    ASSUME NEW p, Processes = {p}, SerialInv(p), Emptied(p), [Next]_vars
    PROVE  Emptied(p)'
<1>. USE DEF At, tree, drawn
<1>1. /\ proc \in [Processes -> Process] /\ proc[p] \in Process
      /\ dir \in BOOLEAN /\ CommandTrue(proc[p]) /\ RegisteredIsWhole
  BY DEF SerialInv, TypeInv, TypeOK
<1>2. CASE UNCHANGED vars
  BY <1>2 DEF vars, Emptied
<1>3. CASE MakeDirectory(p) \/ Restore(p)
  BY <1>1, <1>3 DEF MakeDirectory, Restore, Emptied, Idle
<1>4. CASE MakeRoot(p) \/ MakeHome(p) \/ RemoveDirectory(p)
  BY <1>1, <1>4
     DEF MakeRoot, MakeHome, RemoveDirectory, Goto, Emptied, Process
<1>5. CASE RemoveHome(p) \/ RemoveRoot(p)
  BY <1>1, <1>5 DEF RemoveHome, RemoveRoot, Goto, Emptied, Process
<1>6. CASE Publish(p) \/ RecordState(p)
  <2>1. dir' = TRUE /\ proc'[p].pc # "announce"
    BY <1>1, <1>6
       DEF Publish, RecordState, WriteRegistration, Goto, Return, Idle,
           Process
  <2>. QED  BY <2>1 DEF Emptied
<1>7. ASSUME UNCHANGED <<dir, root, home>>, proc'[p].pc # "announce"
      PROVE  Emptied(p)'
  BY <1>7 DEF Emptied
<1>13. ASSUME NEW action, NEW generation, NEW label, label # "announce",
              Announce(p, action, generation, label)
       PROVE  Emptied(p)'
  BY <1>1, <1>7, <1>13 DEF Announce, Idle
<1>14. CASE Create(p) \/ AnnounceRestore(p) \/ Destroy(p)
  BY <1>13, <1>14 DEF Create, AnnounceRestore, Destroy
<1>8. CASE MachineChanges \/ PlanCreate(p) \/ PlanDestroy(p)
  BY <1>8 DEF MachineChanges, PlanCreate, PlanDestroy, Emptied
<1>9. CASE Reboot \/ Interrupt(p) \/ Complete(p) \/ BuildFails(p)
  BY <1>1, <1>7, <1>9
     DEF Reboot, Interrupt, Complete, BuildFails, Return, Idle
<1>10. CASE Configure(p) \/ RecoverUnpublished(p) \/ Unpublish(p)
  BY <1>1, <1>7, <1>10
     DEF Configure, RecoverUnpublished, Unpublish, Goto, Process, Idle
<1>11. CASE Start(p) \/ Launch(p) \/ Started(p) \/ Stop(p) \/ DestroyStops(p)
             \/ Stopped(p)
  BY <1>1, <1>7, <1>11
     DEF Start, Launch, Started, Stop, DestroyStops, Stopped,
         ReadRegistration, Goto, Process
<1>12. CASE Preserve(p)
  <2>1. CASE Snapshot(p)
    BY <1>1, <1>7, <2>1 DEF Snapshot, ReadRegistration, Process
  <2>2. CASE CopyRoot(p) \/ CopyHome(p)
    BY <1>1, <1>7, <2>2 DEF CopyRoot, CopyHome, Capture, Process
  <2>3. CASE PublishSnapshot(p) \/ PublishArchive(p)
    BY <1>1, <1>7, <2>3
       DEF PublishSnapshot, PublishArchive, Save, Goto, Return, Idle, Process
  <2>. QED  BY <1>12, <2>1, <2>2, <2>3 DEF Preserve
<1>. QED
  BY <1>2, <1>3, <1>4, <1>5, <1>6, <1>8, <1>9, <1>10, <1>11, <1>12,
     <1>14
     DEF Next, Build, Run, Remove

(* What is being built, when there is one process                          *)
LEMMA BuildsOf ==
    ASSUME NEW p, Processes = {p}
    PROVE  Builds = IF Building(p) THEN {proc[p].op} ELSE {}
BY DEF Builds

LEMMA BuildsNext ==
    ASSUME NEW p, Processes = {p}
    PROVE  Builds' = IF Building(p)' THEN {proc'[p].op} ELSE {}
BY DEF Builds

(* A step that neither changes the parts nor begins or ends a creation     *)
LEMMA SameView ==
    ASSUME UNCHANGED <<dir, root, home, saved, operations, Builds>>,
           Registered' <=> Registered
    PROVE  UNCHANGED Environment!vars
<1>1. Parts' = Parts
  BY DEF Parts
<1>. QED  BY <1>1 DEF Environment!vars

(* A creation that fails or is given up *)
LEMMA AbandonView ==
    ASSUME UNCHANGED <<dir, root, home, reg, saved, operations>>,
           Builds' = {}
    PROVE  Environment!Abandon \/ UNCHANGED Environment!vars
<1>1. Parts' = Parts
  BY DEF Parts, Registered
<1>2. CASE Builds = {}
  BY <1>1, <1>2 DEF Environment!vars
<1>3. CASE Builds # {}
  BY <1>1, <1>3 DEF Environment!Abandon
<1>. QED  BY <1>2, <1>3

LEMMA AnnounceView ==
    ASSUME NEW p, Processes = {p}, WholeInv(p), TypeInv',
           NEW action \in {"create", "restore", "destroy"},
           NEW generation, NEW label \in {"mkdir", "root", "stop"},
           Announce(p, action, generation, label), ~Building(p),
           action = "create" => label = "mkdir",
           action = "destroy" => label = "stop",
           action = "restore" => label = "root",
           action # "destroy" =>
               ~Registered /\ root = NoTree /\ home = NoTree
    PROVE  Environment!Begin \/ Environment!Give
<1>. DEFINE op == operations + 1
<1>1. /\ operations' = op /\ op \in Operations /\ op \notin 1..operations
      /\ 1..op = (1..operations) \cup {op}
  BY MaxOperationsAssumption
     DEF Announce, WholeInv, SerialInv, TypeInv, TypeOK, Operations
<1>2. UNCHANGED <<dir, root, home, reg, saved>>
  BY DEF Announce, tree
<1>3. /\ proc'[p].pc = label /\ proc'[p].action = action
      /\ proc'[p].op = op
  BY <1>1 DEF Announce, Idle, WholeInv, SerialInv, TypeInv, TypeOK
<1>4. Parts' = Parts
  BY <1>2 DEF Parts, Registered
<1>5. Builds = {} /\ Builds' = IF action = "destroy" THEN {} ELSE {op}
  BY <1>3, BuildsOf, BuildsNext DEF Building, At
<1>. HIDE DEF op
<1>6. CASE action = "destroy"
  <2>1. Environment!Give
    BY <1>1, <1>2, <1>4, <1>5, <1>6 DEF Environment!Give
  <2>. QED  BY <2>1
<1>7. CASE action # "destroy"
  <2>1. Parts = {}
    BY <1>7 DEF Parts
  <2>2. Environment!Begin
    BY <1>1, <1>2, <1>4, <1>5, <1>7, <2>1 DEF Environment!Begin
  <2>. QED  BY <2>2
<1>. QED  BY <1>6, <1>7

LEMMA WholeNext ==
    ASSUME NEW p, Processes = {p}, WholeInv(p), TypeInv', [Next]_vars
    PROVE  [Environment!Next]_(Environment!vars)
<1>. USE DEF At
<1>1. /\ proc \in [Processes -> Process] /\ proc[p] \in Process
      /\ dir \in BOOLEAN /\ CommandTrue(proc[p]) /\ CommandOk(proc[p])
      /\ RegisteredIsWhole /\ Emptied(p) /\ p \in Processes
      /\ Registered => reg.builder \in Operations
  BY DEF WholeInv, SerialInv, TypeInv, TypeOK, Registered, Registration
<1>2. CASE UNCHANGED vars
  <2>1. UNCHANGED <<Builds, dir, root, home, saved, operations, reg>>
    BY <1>2 DEF vars, tree, drawn, Builds, Building
  <2>. QED  BY <2>1, SameView DEF Registered
<1>3. ASSUME UNCHANGED <<dir, root, home, reg, saved, operations>>,
             Building(p)' <=> Building(p), Building(p) => proc'[p].op = proc[p].op
      PROVE  UNCHANGED Environment!vars
  <2>1. Builds' = Builds
    BY <1>3, BuildsOf, BuildsNext
  <2>. QED  BY <1>3, <2>1, SameView DEF Registered
<1>4. CASE MachineChanges \/ PlanCreate(p) \/ PlanDestroy(p)
  BY <1>3, <1>4
     DEF MachineChanges, PlanCreate, PlanDestroy, tree, drawn, Building
<1>5. CASE Create(p) \/ AnnounceRestore(p) \/ Destroy(p)
  <2>1. CASE Create(p)
    <3>1. PICK generation : Announce(p, "create", generation, "mkdir")
      BY <2>1 DEF Create
    <3>2. ~Registered /\ root = NoTree /\ home = NoTree /\ ~Building(p)
      BY <1>1, <2>1 DEF Create, RegisteredIsWhole, Emptied, Building
    <3>. QED  BY <3>1, <3>2, AnnounceView DEF Environment!Next
  <2>2. CASE AnnounceRestore(p)
    <3>1. ~Registered /\ root = NoTree /\ home = NoTree /\ ~Building(p)
      BY <1>1, <2>2
         DEF AnnounceRestore, CommandTrue, Emptied, Building
    <3>. QED  BY <2>2, <3>1, AnnounceView
              DEF AnnounceRestore, Environment!Next
  <2>3. CASE Destroy(p)
    <3>1. PICK generation : Announce(p, "destroy", generation, "stop")
      BY <2>3 DEF Destroy
    <3>2. ~Building(p)
      BY <2>3 DEF Destroy, Building
    <3>. QED  BY <3>1, <3>2, AnnounceView DEF Environment!Next
  <2>. QED  BY <1>5, <2>1, <2>2, <2>3
<1>6. CASE Restore(p)
  <2>1. ~Building(p) /\ ~Building(p)'
    BY <1>1, <1>6 DEF Restore, Building, Idle
  <2>. QED  BY <1>3, <1>6, <2>1 DEF Restore, tree, drawn
<1>7. CASE MakeDirectory(p) \/ MakeRoot(p) \/ MakeHome(p)
  <2>1. ~Registered
    BY <1>1, <1>7
       DEF MakeDirectory, MakeRoot, MakeHome, CommandTrue,
           RegisteredIsWhole
  <2>2. UNCHANGED <<reg, saved, operations>>
    BY <1>7 DEF MakeDirectory, MakeRoot, MakeHome, drawn
  <2>3. CASE MakeDirectory(p)
    <3>1. /\ Building(p) <=> proc[p].action = "create"
          /\ Building(p)' <=> Building(p)
          /\ proc'[p].op = proc[p].op
          /\ proc[p].action \in {"create", "restore"}
      BY <1>1, <2>3 DEF MakeDirectory, Goto, Building, Process, CommandOk
    <3>2. Builds' = Builds
      BY <3>1, BuildsOf, BuildsNext
    <3>3. Parts = {} /\ Parts' = {}
      BY <2>1, <2>2 DEF Parts, Registered
    <3>. QED  BY <2>2, <2>3, <3>2, <3>3 DEF MakeDirectory, Environment!vars
  <2>4. CASE MakeRoot(p) \/ MakeHome(p)
    <3>1. Building(p) /\ Building(p)' /\ proc'[p].op = proc[p].op
      BY <1>1, <2>4 DEF MakeRoot, MakeHome, Goto, Building, Process
    <3>2. Builds' = Builds /\ Builds # {}
      BY <3>1, BuildsOf, BuildsNext
    <3>3. Parts = {} /\ Parts' = {}
      BY <2>1, <2>2 DEF Parts, Registered
    <3>. QED  BY <2>2, <3>2, <3>3 DEF Environment!vars
  <2>. QED  BY <1>7, <2>3, <2>4
<1>8. CASE Configure(p)
  <2>1. Building(p) /\ Building(p)' /\ proc'[p].op = proc[p].op
    BY <1>1, <1>8 DEF Configure, Goto, Building, Process
  <2>. QED  BY <1>3, <1>8, <2>1 DEF Configure, tree, drawn
<1>9. CASE Publish(p)
  <2>1. /\ Building(p) /\ ~Building(p)'
        /\ root = proc[p].op /\ home = proc[p].op /\ ~Registered
    BY <1>1, <1>9 DEF Publish, Goto, Building, Process, CommandTrue
  <2>2. /\ dir' = TRUE /\ UNCHANGED <<root, home, saved, operations>>
        /\ Registered'
    <3>1. reg'.state = "stopped"
      BY <1>9 DEF Publish, WriteRegistration
    <3>2. Registered'
      BY <3>1 DEF Registered, NoRegistration
    <3>. QED  BY <1>9, <3>2 DEF Publish, WriteRegistration
  <2>3. Builds = {proc[p].op} /\ Builds' = {}
    BY <2>1, BuildsOf, BuildsNext
  <2>4. Parts = {} /\ Parts' = {proc[p].op}
    BY <2>1, <2>2 DEF Parts
  <2>5. Environment!Publish
    BY <2>2, <2>3, <2>4 DEF Environment!Publish
  <2>. QED  BY <2>5 DEF Environment!Next
<1>10. CASE Complete(p) \/ BuildFails(p) \/ Interrupt(p) \/ Reboot
  <2>1. /\ UNCHANGED <<dir, root, home, reg, saved, operations>>
        /\ proc'[p] = Idle
    BY <1>1, <1>10
       DEF Complete, BuildFails, Interrupt, Reboot, Return, tree, drawn
  <2>2. Builds' = {}
    BY <2>1, BuildsNext DEF Building, Idle
  <2>. QED  BY <2>1, <2>2, AbandonView DEF Environment!Next
<1>11. CASE Start(p) \/ Launch(p) \/ Started(p) \/ Stop(p) \/ DestroyStops(p)
             \/ Stopped(p)
  <2>1. ~Building(p) /\ ~Building(p)'
    BY <1>1, <1>11
       DEF Start, Launch, Started, Stop, DestroyStops, Stopped,
           ReadRegistration, Goto, Building, Process
  <2>2. UNCHANGED <<dir, root, home, reg, saved, operations>>
    BY <1>11
       DEF Start, Launch, Started, Stop, DestroyStops, Stopped,
           ReadRegistration, tree, drawn
  <2>. QED  BY <1>3, <2>1, <2>2
<1>12. CASE RecordState(p)
  <2>1. ~Building(p) /\ ~Building(p)'
    BY <1>1, <1>12
       DEF RecordState, Goto, Return, Idle, Building, Process
  <2>2. Registered /\ proc[p].record \in Registration
    BY <1>1, <1>12 DEF RecordState, CommandTrue, CommandOk, RecordLabels
  <2>3. /\ dir' = TRUE /\ dir = TRUE
        /\ UNCHANGED <<root, home, saved, operations>>
        /\ reg'.state \in {"running", "stopped"}
    BY <1>1, <1>12, <2>2
       DEF RecordState, WriteRegistration, RegisteredIsWhole, Registration,
           drawn
  <2>4. Registered'
    BY <2>3 DEF Registered, NoRegistration
  <2>5. Builds' = Builds
    BY <2>1, BuildsOf, BuildsNext
  <2>. QED  BY <2>2, <2>3, <2>4, <2>5, SameView
<1>13. CASE Unpublish(p)
  <2>1. ~Building(p) /\ ~Building(p)' /\ ~Registered' /\ Registered
    BY <1>1, <1>13 DEF Unpublish, Goto, Building, Process, Registered
  <2>2. UNCHANGED <<dir, root, home, saved, operations>> /\ root # NoTree
    BY <1>1, <1>13, <2>1
       DEF Unpublish, drawn, RegisteredIsWhole, Operations, NoTree
  <2>3. Parts # {} /\ Parts' = {} /\ Builds = {} /\ Builds' = {}
    BY <2>1, BuildsOf, BuildsNext DEF Parts
  <2>4. Environment!Unpublish
    BY <2>2, <2>3 DEF Environment!Unpublish
  <2>. QED  BY <2>4 DEF Environment!Next
<1>14. CASE RemoveHome(p) \/ RemoveRoot(p) \/ RemoveDirectory(p)
  <2>1. ~Building(p) /\ ~Building(p)' /\ ~Registered /\ ~Registered'
    BY <1>1, <1>14
       DEF RemoveHome, RemoveRoot, RemoveDirectory, Goto, Building, Process,
           Registered, CommandTrue, RemoveLabels
  <2>2. /\ UNCHANGED <<saved, operations>>
        /\ root' \in {root, NoTree} /\ home' \in {home, NoTree}
    BY <1>14 DEF RemoveHome, RemoveRoot, RemoveDirectory, drawn
  <2>3. Parts = {} /\ Parts' = {} /\ Builds = {} /\ Builds' = {}
    BY <2>1, BuildsOf, BuildsNext DEF Parts
  <2>4. Environment!Clear \/ UNCHANGED Environment!vars
    BY <2>2, <2>3 DEF Environment!Clear, Environment!vars
  <2>. QED  BY <2>4 DEF Environment!Next
<1>15. CASE RecoverUnpublished(p)
  <2>1. ~Building(p) /\ ~Building(p)'
    BY <1>1, <1>15 DEF RecoverUnpublished, Building, Idle
  <2>. QED  BY <1>3, <1>15, <2>1 DEF RecoverUnpublished, tree, drawn
<1>16. CASE Snapshot(p) \/ CopyRoot(p) \/ CopyHome(p)
  <2>1. ~Building(p) /\ ~Building(p)'
    <3>1. CASE Snapshot(p)
      <4>1. PICK action \in {"snapshot", "archive"} :
               ReadRegistration(p, action, "copy-root")
        BY <3>1 DEF Snapshot
      <4>2. proc'[p].pc = "copy-root"
        BY <1>1, <4>1 DEF ReadRegistration, Process
      <4>. QED  BY <3>1, <4>2 DEF Snapshot, Building
    <3>2. CASE CopyRoot(p) \/ CopyHome(p)
      BY <1>1, <3>2 DEF CopyRoot, CopyHome, Capture, Building, Process
    <3>. QED  BY <1>16, <3>1, <3>2
  <2>2. UNCHANGED <<dir, root, home, reg, saved, operations>>
    BY <1>16
       DEF Snapshot, CopyRoot, CopyHome, ReadRegistration, Capture, tree,
           drawn
  <2>. QED  BY <1>3, <2>1, <2>2
<1>17. CASE PublishSnapshot(p) \/ PublishArchive(p)
  <2>1. ~Building(p) /\ ~Building(p)'
    BY <1>1, <1>17
       DEF PublishSnapshot, PublishArchive, Goto, Return, Idle, Building,
           Process
  <2>2. PICK kind \in {"snapshot", "archive"} : Save(p, kind)
    BY <1>17 DEF PublishSnapshot, PublishArchive
  <2>3. /\ UNCHANGED <<dir, root, home, reg, operations>>
        /\ saved' = saved \cup {[kind |-> kind,
                                 generation |-> proc[p].record.generation,
                                 root |-> proc[p].root,
                                 home |-> proc[p].home]}
    BY <2>2 DEF Save, tree, drawn
  <2>4. /\ Registered /\ proc[p].root = reg.builder
        /\ proc[p].home = reg.builder
    BY <1>1, <1>17
       DEF PublishSnapshot, PublishArchive, CommandTrue, RecordLabels
  <2>5. Parts = {proc[p].root, proc[p].home} /\ Parts' = Parts
    BY <1>1, <2>3, <2>4 DEF Parts, Registered, RegisteredIsWhole
  <2>6. Builds' = Builds
    BY <2>1, BuildsOf, BuildsNext
  <2>7. {{copy.root, copy.home} : copy \in saved'} =
            {{copy.root, copy.home} : copy \in saved} \cup {Parts}
    <3>. DEFINE new == [kind |-> kind,
                        generation |-> proc[p].record.generation,
                        root |-> proc[p].root, home |-> proc[p].home]
    <3>1. {new.root, new.home} = Parts /\ saved' = saved \cup {new}
      BY <2>3, <2>5
    <3>. HIDE DEF new
    <3>. QED  BY <3>1
  <2>8. Environment!Save
    BY <2>3, <2>4, <2>5, <2>6, <2>7 DEF Environment!Save
  <2>. QED  BY <2>8 DEF Environment!Next
<1>. QED
  BY <1>2, <1>4, <1>5, <1>6, <1>7, <1>8, <1>9, <1>10, <1>11, <1>12, <1>13,
     <1>14, <1>15, <1>16, <1>17
     DEF Next, Build, Run, Remove, Preserve

(* Whatever is interrupted, one process that runs the commands of the      *)
(* runtime keeps the Environment whole for its user: it is registered,     *)
(* unregistered and saved at once, with an identity of its own.            *)
THEOREM KeepsWholeHolds ==
    ASSUME NEW p, Processes = {p}
    PROVE  Spec => KeepsWhole
<1>1. Init => WholeInv(p) /\ Environment!Init
  <2>. SUFFICES ASSUME Init PROVE WholeInv(p) /\ Environment!Init
    OBVIOUS
  <2>1. SerialInv(p)
    BY SerialInit
  <2>2. Emptied(p)
    BY DEF Init, Emptied
  <2>3. Parts = {} /\ Builds = {}
    BY BuildsOf DEF Init, Parts, Registered, Idle, Building, At
  <2>4. 1..operations = {} /\ saved = {} /\ root = NoTree /\ home = NoTree
    BY DEF Init
  <2>. QED  BY <2>1, <2>2, <2>3, <2>4 DEF WholeInv, Environment!Init
<1>2. WholeInv(p) /\ [Next]_vars =>
        WholeInv(p)' /\ [Environment!Next]_(Environment!vars)
  <2>. SUFFICES ASSUME WholeInv(p), [Next]_vars
                PROVE  WholeInv(p)' /\ [Environment!Next]_(Environment!vars)
    OBVIOUS
  <2>1. SerialInv(p)' /\ Emptied(p)'
    BY SerialNext, EmptiedNext DEF WholeInv
  <2>2. TypeInv'
    BY <2>1 DEF SerialInv
  <2>3. [Environment!Next]_(Environment!vars)
    BY <2>2, WholeNext
  <2>. QED  BY <2>1, <2>3 DEF WholeInv
<1>. QED  BY <1>1, <1>2, PTL DEF Spec, KeepsWhole, Environment!Spec
=============================================================================
