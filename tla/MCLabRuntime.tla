---------------------------- MODULE MCLabRuntime ----------------------------
(* Commands that never overlap, or the executor daemon beside a console,   *)
(* with room for create, archive, destroy and restore or a second create.  *)
EXTENDS LabRuntime

CONSTANTS daemon, console

MCOneProcess == {daemon}
MCTwoProcesses == {daemon, console}
=============================================================================
