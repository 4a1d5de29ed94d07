---------------------------- MODULE ControlTower ----------------------------
(***************************************************************************)
(* A critical action under Firestore, from its delivery to its gate's      *)
(* decision: the workers and the reclaimer of ActionExecution beside the   *)
(* approvers and the reconciler of ApprovalGate.  They share the execution *)
(* record, the Run and the deliverable; the gate's transactions write the  *)
(* execution record without its lease, and mostly without its version.     *)
(***************************************************************************)
EXTENDS ApprovalGate

CONSTANTS
    Workers, MaxAttempts, MaxVersion, MaxGeneration  \* of the execution

VARIABLES
    disp, tasks, wk, scan, claims  \* of the execution alone

Execution == INSTANCE ActionExecution WITH Backend <- "firestore", Critical <- TRUE

evars == <<disp, tasks, wk, scan, claims>>
avars == <<bundle, ap, decisions, jobs>>
tvars == <<exec, run, art, evars, avars>>

TowerInit ==
    /\ Execution!Init
    /\ bundle = [vis |-> "none", pub |-> "none"]
    /\ ap = [a \in Actors |-> AtRest]
    /\ decisions = 0
    /\ jobs = [j \in 1..MaxJobs |-> NoJob]

Execute == Execution!Next /\ UNCHANGED avars
Govern == GateNext /\ UNCHANGED evars

TowerNext == Execute \/ Govern

TowerSpec == TowerInit /\ [][TowerNext]_tvars

-----------------------------------------------------------------------------
(* Nothing is published before its gate was approved, whatever workers,    *)
(* duplicate tasks and reclaims do beside the gate.                        *)
NothingUnapprovedIsPublished ==
    SomethingIsPublished => run.gate = "approved"

(* An approved Run stays approved: no late worker reopens its gate.        *)
ApprovedRunStays ==
    [][run.gate = "approved" => run'.gate = "approved" /\ run'.status = "completed"]_tvars

(* An approval takes the Run and the action to COMPLETED together, and     *)
(* they stay there.                                                        *)
ApprovalCompletesAction ==
    run.gate = "approved" => exec.status = "completed"

(* A rejected action is not executed again.                                *)
RejectedIsNotExecuted ==
    [][run.gate = "rejected" => claims' = claims]_tvars
=============================================================================
