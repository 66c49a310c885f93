------------------------ MODULE MCAcquisitionStaging ------------------------
(* A package of two chunks, its signature of at most three, and another    *)
(* package of two.  Of the seven chunks six fit in the directory, and five *)
(* are authorized.                                                         *)
EXTENDS AcquisitionStaging, TLC

CONSTANTS p, q, i1, i2, i3, i4

MCOneProcess == {p}
MCTwoProcesses == {p, q}
MCInodes == {i1, i2, i3, i4}
MCPackages == {1, 3}
MCSize == <<2, 3, 2>>
MCSymmetry == Permutations(MCInodes)
=============================================================================
