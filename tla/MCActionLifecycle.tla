------------------------- MODULE MCActionLifecycle -------------------------
(* Small instances of ActionLifecycle for TLC.                             *)
EXTENDS ActionLifecycle, TLC

CONSTANTS c1, c2, r1, r2, w1, w2

MCConfirmers == {c1}
MCRecoverers == {r1}
MCWorkers == {w1, w2}
OneWorker == {w1}

(* Both components keep their types where they share disp and tasks.       *)
LifecycleTypeOK == TypeOK /\ Dispatch!DispatchTypeOK
=============================================================================
