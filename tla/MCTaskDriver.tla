---------------------------- MODULE MCTaskDriver ----------------------------
(* Model-checking instances of TaskDriver. *)
EXTENDS TaskDriver, TLC

CONSTANTS t1, t2, d1, d2

TwoThreads == {t1, t2}
TwoDrivers == {d1, d2}
OneOutput == {d1}

ThreadSymmetry == Permutations(TwoThreads)
=============================================================================
