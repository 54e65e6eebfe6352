---------------------------- MODULE JobWorkerMC ----------------------------
(* Finite instances of JobWorker for TLC.                                  *)
EXTENDS JobWorker, TLC

CONSTANTS w1, w2, o1, k1

OneWorker == {w1}
TwoWorkers == {w1, w2}
OneObserver == {o1}
OneKid == {k1}

WorkerSymmetry == Permutations(TwoWorkers)
=============================================================================
