------------------------ MODULE SupervisedProcessMC ------------------------
(* Finite instances of SupervisedProcess for TLC.                          *)
EXTENDS SupervisedProcess

CONSTANTS k1, k2

OneKid == {k1}
TwoKids == {k1, k2}
=============================================================================
