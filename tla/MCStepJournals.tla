--------------------------- MODULE MCStepJournals ---------------------------
(* Two drivers of one operation of any kind, with all of its effects.      *)
EXTENDS StepJournals, TLC

CONSTANTS p, q

MCDrivers == {p, q}
MCSymmetry == Permutations(MCDrivers)
=============================================================================
