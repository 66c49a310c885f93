---------------------------- MODULE MCLabExecutor ---------------------------
(* The daemon, clients of the Hub and a console that waits its turn, with  *)
(* room for create, archive, destroy and restore.                          *)
EXTENDS LabExecutor

CONSTANTS daemon

MCProcesses == {daemon}
=============================================================================
