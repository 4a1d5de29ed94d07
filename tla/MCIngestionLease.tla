-------------------------- MODULE MCIngestionLease --------------------------
(* Small instances of IngestionLease for TLC.                              *)
EXTENDS IngestionLease, TLC

CONSTANTS s1, s2, w1, w2, p1, r1

OneSubmitter == {s1}
TwoSubmitters == {s1, s2}
OneWorker == {w1}
TwoWorkers == {w1, w2}
OneSweeper == {p1}
OneReader == {r1}
WorkerSymmetry == Permutations(TwoWorkers)
=============================================================================
