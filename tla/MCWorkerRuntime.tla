--------------------------- MODULE MCWorkerRuntime ---------------------------
(* Symmetry for the runs that check only safety: assignments are           *)
(* interchangeable, and no action or property names a particular one.      *)
EXTENDS WorkerRuntime, TLC

JobSymmetry == Permutations(Jobs)
=============================================================================
