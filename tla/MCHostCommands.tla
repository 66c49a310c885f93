--------------------------- MODULE MCHostCommands ---------------------------
(* One managed name, the trial, and one with a stray registration file,    *)
(* the Hub's; two storage identities, so that the home of the trial can be *)
(* removed and made anew once.                                             *)
EXTENDS HostCommands
=============================================================================
