--------------------------- MODULE MCControlTower ---------------------------
(* Small instances of ControlTower for TLC.                                *)
EXTENDS ControlTower, TLC

CONSTANTS w1, w2, a1, a2, s1

OneWorker == {w1}
TwoWorkers == {w1, w2}
OneApprover == {a1}
TwoApprovers == {a1, a2}
OneScanner == {s1}
NoScanner == {}

(* The types of the execution hold beside the decisions of the gate.       *)
TowerTypeOK == Execution!TypeOK
=============================================================================
