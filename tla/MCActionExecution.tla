------------------------- MODULE MCActionExecution -------------------------
(* Small instances of ActionExecution for TLC.                             *)
EXTENDS ActionExecution, TLC

CONSTANTS w1, w2

MCWorkers == {w1, w2}
OneWorker == {w1}
Symmetry == Permutations(MCWorkers)
=============================================================================
