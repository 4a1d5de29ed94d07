---------------------------- MODULE MCLeasedWork ----------------------------
(***************************************************************************)
(* Three kinds of work that are handed out under leases: the cleanup jobs  *)
(* of a deliverable, an event in the outbox, and the diagnosis of a Run.   *)
(* They share no document, so their steps commute, and no property below   *)
(* relates two of them: a behaviour of all is as good as one in which only *)
(* one moves, which "part" names.                                          *)
(***************************************************************************)
EXTENDS ArtifactCleanup, ActivityOutbox, RunDiagnosis, TLC

CONSTANTS p1, p2

VARIABLE part

TwoProcesses == {p1, p2}

lvars == <<part, cvars, ovars, dvars>>

LeasedWorkInit ==
    /\ part \in {"cleanup", "outbox", "diagnosis"}
    /\ CleanupInit /\ Init /\ DiagnosisInit

LeasedWorkNext ==
    /\ UNCHANGED part
    /\ \/ part = "cleanup" /\ CleanupNext /\ UNCHANGED <<ovars, dvars>>
       \/ part = "outbox" /\ Next /\ UNCHANGED <<cvars, dvars>>
       \/ part = "diagnosis" /\ DiagnosisNext /\ UNCHANGED <<cvars, ovars>>

(* CleanupFairness, while the sweepers are what moves.                     *)
SweeperFairness ==
    \A j \in 1..MaxJobs :
        /\ SF_cvars(part = "cleanup" /\ \E s \in Sweepers : ListJob(s, j))
        /\ SF_cvars(part = "cleanup" /\ \E s \in Sweepers : sw[s].job = j /\ Sweep(s))
        /\ WF_cvars(part = "cleanup" /\ CleanupLeaseExpires(j))
        /\ WF_cvars(part = "cleanup" /\ CleanupBackoffElapses(j))

LeasedWorkSpec ==
    LeasedWorkInit /\ [][LeasedWorkNext]_lvars /\ SweeperFairness

(* DiagnosisFairness, while the diagnosis is what moves.                   *)
ProcessFairness ==
    /\ \A p \in Processes :
           /\ WF_dvars(part = "diagnosis" /\ DiagnoseRun(p))
           /\ WF_dvars(part = "diagnosis" /\ Advance(p))
    /\ WF_dvars(part = "diagnosis" /\ Abandoned /\ ClaimExpires)

FairLeasedWorkSpec == LeasedWorkSpec /\ ProcessFairness

-----------------------------------------------------------------------------
(* What leased_work_more.cfg checks besides: types, what a process is told *)
(* of a diagnosis, and that a generation which stands is diagnosed.        *)
LeasedWorkTypeOK ==
    CleanupTypeOK /\ OutboxTypeOK /\ OutboxTellsTheTruth
        /\ DiagnosisTypeOK /\ RememberedIsCommitted

StandingGetsDiagnosed == part = "diagnosis" => StandingIsDiagnosed
=============================================================================
