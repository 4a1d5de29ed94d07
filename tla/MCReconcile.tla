----------------------------- MODULE MCReconcile -----------------------------
(***************************************************************************)
(* What the cycle of the maintenance endpoint drives besides the actions:  *)
(* the cascade over expired sandboxes, the scan that lists Runs with       *)
(* pending telemetry, and the verification of one of them.  The three      *)
(* share no document that their properties read, so their steps commute,   *)
(* and no property below relates two of them: a behaviour of all is as     *)
(* good as one in which only one moves, which "part" names.                *)
(***************************************************************************)
EXTENDS RunTelemetry, SandboxCleanup, TLC

CONSTANTS p1, p2

VARIABLES part, there, pending, resting, cursor, scan

TwoProcesses == {p1, p2}
TwoIds == 1..2

Listing == INSTANCE TelemetryScan
    WITH Scanners <- TwoProcesses, Runs <- 1..3, Limit <- 1, Budget <- 2

ASSUME ReconcileAssumption == Listing!ScanAssumption

(* The variables of telemetry and scan but "troubles", which both count    *)
(* with; those of the cascade are cvars.                                   *)
hvars == <<run, trace, ver>>
lvars == <<there, pending, resting, cursor, scan>>
rvars == <<part, cvars, hvars, lvars, troubles>>

ReconcileInit ==
    /\ part \in {"sandbox", "telemetry", "scan"}
    /\ SandboxInit /\ (cached => part = "sandbox")
    /\ Init
    /\ Listing!Init /\ (pending # {} => part = "scan")

ReconcileNext ==
    /\ UNCHANGED part
    /\ \/ part = "sandbox" /\ SandboxNext /\ UNCHANGED <<hvars, lvars, troubles>>
       \/ part = "telemetry" /\ Next /\ UNCHANGED <<cvars, lvars>>
       \/ part = "scan" /\ Listing!Next /\ UNCHANGED <<cvars, hvars>>

(* The fairness of each component, while it is the one that moves.         *)
SandboxFairness ==
    /\ WF_cvars(part = "sandbox" /\ \E c \in TwoProcesses : Sweep(c))
    /\ \A c \in TwoProcesses : WF_cvars(part = "sandbox" /\ AdvanceCascade(c))
    /\ WF_cvars(part = "sandbox" /\ Abandoned /\ CleanupLeaseExpires)
    /\ WF_cvars(part = "sandbox" /\ CleanupBackoffElapses)

TelemetryFairness ==
    /\ WF_hvars(part = "telemetry" /\ \E v \in TwoProcesses : Reconcile(v))
    /\ \A v \in TwoProcesses : WF_hvars(part = "telemetry" /\ Advance(v))
    /\ WF_hvars(part = "telemetry" /\ run.holder = None /\ LeaseExpires)
    /\ WF_hvars(part = "telemetry" /\ TimePasses)
    /\ WF_hvars(part = "telemetry" /\ BackoffElapses)

ListingFairness ==
    /\ WF_lvars(part = "scan" /\ \E s \in TwoProcesses : Listing!ClaimCursor(s))
    /\ \A s \in TwoProcesses : WF_lvars(part = "scan" /\ Listing!Continue(s))
    /\ WF_lvars(part = "scan" /\ cursor.holder = None /\ Listing!LeaseExpires)

ReconcileSpec ==
    /\ ReconcileInit /\ [][ReconcileNext]_rvars
    /\ SandboxFairness /\ TelemetryFairness /\ ListingFairness

-----------------------------------------------------------------------------
(* A property of the scan, under the name it has in its module.            *)

(* No pending Run starves (list_pending_telemetry_runs).                   *)
WaitingIsListed == Listing!WaitingIsListed

-----------------------------------------------------------------------------
(* What reconcile_more.cfg checks besides: types, and that an available    *)
(* Run has an authentic trace.                                             *)
ReconcileTypeOK ==
    /\ SandboxTypeOK /\ TelemetryTypeOK /\ Listing!ScanTypeOK
    /\ AvailableIsAuthentic

(* Not so, as the modules explain.                                         *)
SpaceIsDeleted == part = "sandbox" => DeletionIsFinished
EndedGetsDecided == part = "telemetry" => EndedIsDecided
ListedOnce == Listing!ListedOnce
=============================================================================
