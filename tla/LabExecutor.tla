----------------------------- MODULE LabExecutor ----------------------------
(***************************************************************************)
(* The executor daemon (src/scripts/virtual-lab/apx-lab-executor.py) in    *)
(* front of the runtime, the apx client of the Hub                         *)
(* (apx-lab-client.py) that calls it, and the console of the host, where   *)
(* the runtime is run directly.  LabRuntime says what a command does to    *)
(* one Environment; this module says who may have it done, when, and what  *)
(* he is told.                                                             *)
(*                                                                         *)
(* The daemon serves one connection at a time and the others wait in the   *)
(* backlog, of which nothing is known but that a client there may have     *)
(* gone, or its Hub with it, before it is its turn: what it asked for is   *)
(* performed all the same.  The apx client of the Hub goes after 300       *)
(* seconds, but any program of the Hub may connect, and neither the recv   *)
(* nor the sendall of the daemon has a timeout.                            *)
(*                                                                         *)
(* The Hub is another Environment than the one LabRuntime is about.  Its   *)
(* machine has the socket of the daemon mounted from the moment it starts; *)
(* a daemon that comes back binds a new one, and a Hub that is running is  *)
(* cut off until it is started again.                                      *)
(*                                                                         *)
(* What a request says is chosen when the daemon reads it.  The console    *)
(* and the daemon are assumed to take turns: nothing in the code makes     *)
(* them.                                                                   *)
(***************************************************************************)
EXTENDS LabRuntime

CONSTANTS
    Daemon      \* the process that performs requests

ASSUME DaemonAssumption == Daemon \in Processes

VARIABLES
    connection, \* the connection the daemon serves
    hub         \* the machine of the Hub, and whether it has the socket

executorVars == <<vars, connection, hub>>

(* present: the client is there and may keep the daemon waiting, by not    *)
(* ending its request or not taking its answer; ok: what the daemon will   *)
(* answer                                                                  *)
Connection == [pc : {"none", "accepted", "reading", "performing", "answering"},
               present : BOOLEAN, ok : BOOLEAN]
NoConnection == [pc |-> "none", present |-> FALSE, ok |-> FALSE]

ExecutorInit ==
    /\ Init
    /\ connection = NoConnection /\ hub = "off"

Serving(label) == connection.pc = label
-----------------------------------------------------------------------------
(* The client *)

(* The client closes its side, or its machine stops *)
Absent == connection' = [connection EXCEPT !.present = FALSE]

GiveUp ==
    /\ connection.present
    /\ Absent
    /\ UNCHANGED <<vars, hub>>
-----------------------------------------------------------------------------
(* The daemon *)

(* A client that had to wait may be gone *)
Accept ==
    /\ Serving("none") /\ At(Daemon, "idle")
    /\ \E present \in BOOLEAN :
          connection' = [pc |-> "accepted", present |-> present, ok |-> FALSE]
    /\ UNCHANGED <<vars, hub>>

(* The one line of an error goes into the buffer of the socket whether the *)
(* client reads it or not; the output of an operation may not fit.         *)
Answering(ok) ==
    connection' = [pc |-> "answering", ok |-> ok,
                   present |-> ok /\ connection.present]

(* The caller is inside the user namespace of the active Hub: asked once,  *)
(* before its request is read                                              *)
Admit ==
    /\ Serving("accepted") /\ hub = "attached"
    /\ connection' = [connection EXCEPT !.pc = "reading"]
    /\ UNCHANGED <<vars, hub>>

Reject ==
    /\ Serving("accepted")
    /\ Answering(FALSE)
    /\ UNCHANGED <<vars, hub>>

Authorize == Admit \/ Reject

(* Not a framed object with the fields of its operation, or refused by the *)
(* runtime before any effect                                               *)
Refuse ==
    /\ Serving("reading")
    /\ Answering(FALSE)
    /\ UNCHANGED <<vars, hub>>

(* mutant of HangUp: the end of the data is not noticed, recv tried again *)
HangUpUnnoticed ==
    /\ Serving("reading") /\ ~connection.present
    /\ UNCHANGED executorVars

(* recv says that there is no more to come *)
HangUp ==
    /\ Serving("reading") /\ ~connection.present
    /\ Answering(FALSE)
    /\ UNCHANGED <<vars, hub>>

(* status, list and recovery-status, or a start of what is running already *)
Tell ==
    /\ Serving("reading")
    /\ Answering(TRUE)
    /\ UNCHANGED <<vars, hub>>

DispatchPlan ==
    /\ Serving("reading")
    /\ PlanCreate(Daemon) \/ PlanDestroy(Daemon)
    /\ Answering(TRUE)
    /\ UNCHANGED hub

(* What a request can begin.  recovery-clean-unpublished and shell have no *)
(* entry in FIELDS.                                                        *)
Begin(w) == Create(w) \/ Destroy(w) \/ Restore(w) \/ Start(w) \/ Stop(w)
               \/ Snapshot(w)

Dispatch ==
    /\ Serving("reading")
    /\ Begin(Daemon)
    /\ connection' = [connection EXCEPT !.pc = "performing"]
    /\ UNCHANGED hub

(* The command either returns, and what it printed is the answer, or       *)
(* raises, and the error is                                                *)
Returns(ok) ==
    /\ IF At(Daemon, "idle")' THEN Answering(ok) ELSE UNCHANGED connection
    /\ UNCHANGED hub

Effect(w) == (Build(w) /\ ~BuildFails(w)) \/ Run(w) \/ Remove(w) \/ Preserve(w)

(* mutant of Fails: an error of the runtime is not passed on *)
FailsQuietly ==
    /\ BuildFails(Daemon) \/ Interrupt(Daemon)
    /\ Returns(TRUE)

Fails ==
    /\ BuildFails(Daemon) \/ Interrupt(Daemon)
    /\ Returns(FALSE)

Perform ==
    /\ Serving("performing")
    /\ \/ Effect(Daemon) /\ Returns(TRUE)
       \/ Fails

Answer ==
    /\ Serving("answering")
    /\ connection' = NoConnection
    /\ UNCHANGED <<vars, hub>>

(* Nobody is waited for: a broken pipe is of no concern *)
Deliver == ~connection.present /\ Answer

(* The daemon dies between two effects, and with it every connection; its  *)
(* service brings it back, with a new socket                               *)
DaemonDies ==
    /\ \/ Interrupt(Daemon)
       \/ At(Daemon, "idle") /\ UNCHANGED vars
    /\ connection' = NoConnection
    /\ hub' = IF hub = "off" THEN "off" ELSE "cut-off"
-----------------------------------------------------------------------------
(* The rest of the host *)

Console ==
    /\ Serving("none")
    /\ \E w \in Processes :
          PlanCreate(w) \/ PlanDestroy(w) \/ Build(w) \/ Run(w) \/ Remove(w)
             \/ Preserve(w) \/ Interrupt(w)
    /\ UNCHANGED <<connection, hub>>

MachineStep == MachineChanges /\ UNCHANGED <<connection, hub>>

(* A Hub that stops takes its clients with it *)
HubChanges ==
    /\ \/ hub = "off" /\ hub' = "attached" /\ UNCHANGED connection
       \/ /\ hub # "off" /\ hub' = "off"
          /\ Absent
    /\ UNCHANGED vars

HostReboots ==
    /\ Reboot
    /\ connection' = NoConnection /\ hub' = "off"

ExecutorNext ==
    \/ GiveUp
    \/ Accept \/ Authorize
    \/ Refuse \/ HangUp \/ Tell \/ DispatchPlan \/ Dispatch
    \/ Perform \/ Answer \/ DaemonDies
    \/ Console \/ MachineStep \/ HubChanges \/ HostReboots

(* The daemon goes on with what it can do by itself, and the programs that *)
(* it and the runtime run come to an end.  Of the clients nothing is       *)
(* assumed, not even that one that has connected ever says anything.       *)
Fairness ==
    /\ WF_executorVars(Authorize) /\ WF_executorVars(HangUp)
    /\ WF_executorVars(Perform) /\ WF_executorVars(Deliver)

ExecutorSpec == ExecutorInit /\ [][ExecutorNext]_executorVars /\ Fairness
-----------------------------------------------------------------------------
(* The answer to a request is true: it says ok of a create, restore or     *)
(* destroy exactly when the operation is complete in the journal, and then *)
(* the Environment is registered by that very operation, or nothing of it  *)
(* is left.                                                                *)
AnswerStep ==
    LET command == proc[Daemon]
    IN  /\ command.op # NoOperation =>
              connection'.ok = (journal'.outcome[command.op] = "complete")
        /\ connection'.ok /\ command.action \in {"create", "restore"} =>
              reg'.builder = command.op /\ dir'
        /\ connection'.ok /\ command.action = "destroy" =>
              ~dir' /\ root' = NoTree /\ home' = NoTree
AnswerTrue ==
    [][Serving("performing") /\ Serving("answering")' => AnswerStep]_executorVars

(* Only a client that stays keeps the daemon from the others, and only one *)
(* in a Hub that runs and has the socket.  One that goes in the middle of  *)
(* its request or before its answer, stops its own Hub, or is not of the   *)
(* Hub at all, does not: the daemon comes back to accepting.  One that     *)
(* stays, without ending its request or without taking the output, does    *)
(* so for ever.                                                            *)
Served ==
    []<>Serving("none") \/ <>[](connection.present /\ hub = "attached")
=============================================================================
