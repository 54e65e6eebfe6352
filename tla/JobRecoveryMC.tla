--------------------------- MODULE JobRecoveryMC ---------------------------
(* Finite instances of JobRecovery for TLC.                                *)
EXTENDS JobRecovery

CONSTANTS r1, r2

TwoRecoverers == {r1, r2}

ShutOrOpen == {{}, {"recycled"}, {"kids", "launch", "seal"}}
=============================================================================
