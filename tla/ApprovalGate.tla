---------------------------- MODULE ApprovalGate ----------------------------
(***************************************************************************)
(* The risk gate of a Run: approve, reject, reconcile and retry, as the    *)
(* routes of api/run_routes.py and the reconciler of services/             *)
(* deliverable_service.py perform them against the Firestore store.  An    *)
(* approval is a sequence of store calls made under a decision lease;      *)
(* approvers, the reconciler and expiring leases interleave between them.  *)
(*                                                                         *)
(* The Run lists one deliverable, art.  An approval first generates the    *)
(* PDX bundle (schedule, conflicts, hand-off), whose files have ids drawn  *)
(* from the run and are taken as one; it is listed by the Run only once    *)
(* the approval commits, because save_run never updates a stored Run.      *)
(***************************************************************************)
EXTENDS Naturals, FiniteSets

CONSTANTS
    Approvers,     \* concurrent calls of approve_run_gate and retry_run
    Scanners,      \* concurrent calls of scan_and_reconcile_stalled_approvals
    MaxDecisions,  \* bound on the decision leases granted
    MaxJobs        \* bound on the cleanup jobs enqueued

ASSUME ApprovalAssumption ==
    /\ MaxDecisions \in Nat
    /\ MaxJobs \in Nat \ {0}
    /\ Approvers \cap Scanners = {}

VARIABLES
    exec,       \* action_executions/<action_id>: status and state_version
    run,        \* runs/<run_id>
    art,        \* the deliverable the Run lists
    bundle,     \* the PDX bundle: artifact and file records
    ap,         \* local state of every approver and scanner
    decisions,  \* decision leases granted: the source of fresh tokens
    jobs        \* artifact_cleanups of the deliverable, by staging version

gvars == <<exec, run, art, bundle, ap, decisions, jobs>>

Actors == Approvers \cup Scanners

NewJob == [status |-> "pending", version |-> 1, token |-> 0, live |-> FALSE,
           retries |-> 0, wait |-> FALSE]
NoJob == [NewJob EXCEPT !.status = "absent"]

ApSteps == {"idle", "cas", "bundle", "record", "approve", "conflict",
            "mark", "reconcile", "judge", "complete", "abort",
            "reject", "retry_cas", "retry_bundle", "retry_record"}
Actor == [pc: ApSteps, expected: {"none", "running", "awaiting_approval"},
          token: Nat, force: BOOLEAN, held: BOOLEAN]
AtRest == [pc |-> "idle", expected |-> "none", token |-> 0,
           force |-> FALSE, held |-> FALSE]

Step(a, pc) == ap' = [ap EXCEPT ![a].pc = pc]
Return(a) == ap' = [ap EXCEPT ![a] = AtRest]

IsPublished(x) == x.vis = "published" /\ x.pub = "published"

-----------------------------------------------------------------------------
(* approve_run_gate reads the Run and decides, once, what it will do.      *)
Recoverable ==
    /\ run.status = "running"
    /\ \/ run.gate = "pending"
       \/ run.gate = "approving" /\ ~run.dlive

ReadGate(a) ==
    /\ a \in Approvers
    /\ ap[a].pc = "idle"
    /\ run.status = "awaiting_approval" \/ Recoverable
    /\ \E choice \in {"cas", "reject"} :
          ap' = [ap EXCEPT ![a].pc = choice, ![a].expected = run.status]
    /\ UNCHANGED <<exec, run, art, bundle, decisions, jobs>>

(* CAS from the status that was read to RUNNING, taking the decision lease:*)
(* only the status is compared.                                            *)
TakeDecision(a) ==
    /\ ap[a].pc = "cas"
    /\ run.status = ap[a].expected
    /\ decisions < MaxDecisions
    /\ decisions' = decisions + 1
    /\ run' = [run EXCEPT !.status = "running", !.gate = "approving",
                          !.dtoken = decisions + 1, !.dlive = TRUE]
    /\ ap' = [ap EXCEPT ![a].pc = "bundle", ![a].token = decisions + 1]
    /\ UNCHANGED <<exec, art, bundle, jobs>>

DecisionRefused(a) ==
    /\ ap[a].pc = "cas"
    /\ run.status # ap[a].expected
    /\ Return(a)
    /\ UNCHANGED <<exec, run, art, bundle, decisions, jobs>>

(* execute_and_bundle: upload_file is idempotent for a file that exists ...*)
UploadBundle(a) ==
    /\ ap[a].pc \in {"bundle", "retry_bundle"}
    /\ bundle' = [bundle EXCEPT !.pub = IF @ = "none" THEN "pending_approval" ELSE @]
    /\ Step(a, IF ap[a].pc = "bundle" THEN "record" ELSE "retry_record")
    /\ UNCHANGED <<exec, run, art, decisions, jobs>>

(* ... and the artifact records are written whatever they were.  A retry   *)
(* ends here: the COMPLETED Run it saves exists already and is not updated.*)
RecordBundle(a) ==
    /\ ap[a].pc \in {"record", "retry_record"}
    /\ bundle' = [bundle EXCEPT !.vis = "pending_approval"]
    /\ IF ap[a].pc = "record" THEN Step(a, "approve") ELSE Return(a)
    /\ UNCHANGED <<exec, run, art, decisions, jobs>>

(* It fails: the files of the bundle, found or created, are deleted, and   *)
(* the approval is reconciled with force_aborted.                          *)
BundleFails(a) ==
    /\ ap[a].pc \in {"bundle", "record", "retry_bundle", "retry_record"}
    /\ bundle' = IF ap[a].pc \in {"record", "retry_record"}
                 THEN [bundle EXCEPT !.pub = "none"] ELSE bundle
    /\ IF ap[a].pc \in {"bundle", "record"}
       THEN ap' = [ap EXCEPT ![a].pc = "reconcile", ![a].force = TRUE]
       ELSE Return(a)
    /\ UNCHANGED <<exec, run, art, decisions, jobs>>

(* Operators marked "mutant" stand for a bug in the definition after them  *)
(* and are used by no specification; PROJECT.json lists what each breaks.  *)

(* Mutant: the decision token is not compared.                             *)
MayApproveAnyToken(a) ==
    /\ run.status = "running"
    /\ run.gate = "approving"
    /\ art.vis = "pending_approval"
    /\ bundle.vis = "pending_approval"

(* approve_gate_and_publish_artifacts_atomic.                              *)
MayApprove(a) ==
    /\ run.status = "running"
    /\ run.gate = "approving"
    /\ run.dtoken = ap[a].token
    /\ art.vis = "pending_approval"
    /\ bundle.vis = "pending_approval"

Publish(x) == [x EXCEPT !.vis = "published",
                        !.pub = IF @ = "none" THEN @ ELSE "published"]

Approve(a) ==
    /\ ap[a].pc = "approve"
    /\ IF MayApprove(a)
       THEN /\ run' = [run EXCEPT !.status = "completed", !.gate = "approved"]
            /\ exec' = [exec EXCEPT !.status = "completed"]
            /\ art' = Publish(art)
            /\ bundle' = Publish(bundle)
            /\ Return(a)
       ELSE /\ Step(a, "conflict")
            /\ UNCHANGED <<exec, run, art, bundle>>
    /\ UNCHANGED <<decisions, jobs>>

(* Mutant: the approval is no transaction, and stops after the Run.        *)
ApproveInSteps(a) ==
    /\ ap[a].pc = "approve"
    /\ MayApprove(a)
    /\ run' = [run EXCEPT !.status = "completed", !.gate = "approved"]
    /\ Step(a, "mark")
    /\ UNCHANGED <<exec, art, bundle, decisions, jobs>>

(* The commit raises: it was applied, or it was not.                       *)
ApproveRaises(a) ==
    /\ ap[a].pc = "approve"
    /\ \/ /\ MayApprove(a)
          /\ run' = [run EXCEPT !.status = "completed", !.gate = "approved"]
          /\ exec' = [exec EXCEPT !.status = "completed"]
          /\ art' = Publish(art)
          /\ bundle' = Publish(bundle)
       \/ UNCHANGED <<exec, run, art, bundle>>
    /\ Step(a, "mark")
    /\ UNCHANGED <<decisions, jobs>>

(* Mutant: the Run is rolled back without the CAS.                         *)
MayRollBackAlways == TRUE

MayRollBack == run.status = "running"

(* Mutant: the gate is dropped, not reopened.                              *)
RolledBackWithoutGate == [run EXCEPT !.status = "awaiting_approval", !.gate = "none",
                                     !.dtoken = 0, !.dlive = FALSE]

RolledBack == [run EXCEPT !.status = "awaiting_approval", !.gate = "pending",
                          !.dtoken = 0, !.dlive = FALSE]

(* A conflict re-reads the Run and, unless it was completed, rolls it back *)
(* by CAS from RUNNING (read and CAS: the Run never leaves COMPLETED).     *)
Rollback(a) ==
    /\ ap[a].pc = "conflict"
    /\ run' = IF MayRollBack THEN RolledBack ELSE run
    /\ Return(a)
    /\ UNCHANGED <<exec, art, bundle, decisions, jobs>>

MarkUncertainCommit(a) ==
    /\ ap[a].pc = "mark"
    /\ run' = IF run.status = "running" THEN [run EXCEPT !.commit = "uncertain"] ELSE run
    /\ ap' = [ap EXCEPT ![a].pc = "reconcile", ![a].force = FALSE]
    /\ UNCHANGED <<exec, art, bundle, decisions, jobs>>

(* reject_gate_and_fail_artifacts_atomic.                                  *)
Reject(a) ==
    /\ ap[a].pc = "reject"
    /\ IF run.status = "awaiting_approval"
       THEN /\ run' = [run EXCEPT !.status = "failed", !.gate = "rejected"]
            /\ exec' = [exec EXCEPT !.status = "failed"]
            /\ art' = [art EXCEPT !.vis = "rejected", !.pub = "rejected"]
       ELSE UNCHANGED <<exec, run, art>>
    /\ Return(a)
    /\ UNCHANGED <<bundle, decisions, jobs>>

-----------------------------------------------------------------------------
(* Mutant: a decision whose holder died is not listed.                     *)
IsStalledWhenUncertain == run.status = "running" /\ run.commit = "uncertain"

(* list_stalled_approval_runs.                                             *)
IsStalled ==
    /\ run.status = "running"
    /\ \/ run.gate = "approving" /\ ~run.dlive
       \/ run.commit = "uncertain"

ListStalledRun(a) ==
    /\ a \in Scanners
    /\ ap[a].pc = "idle"
    /\ IsStalled
    /\ Step(a, "reconcile")
    /\ UNCHANGED <<exec, run, art, bundle, decisions, jobs>>

(* reconcile_approval_commit: the Run is read, with its decision lease ... *)
ReconcileReadsRun(a) ==
    /\ ap[a].pc = "reconcile"
    /\ IF \/ run.status = "completed" /\ (run.commit = "committed" \/ run.gate = "approved")
          \/ run.status = "failed" /\ run.commit = "aborted"
       THEN Return(a)
       ELSE ap' = [ap EXCEPT ![a].pc = "judge",
                             ![a].held = /\ ~ap[a].force
                                         /\ run.gate = "approving"
                                         /\ run.dtoken # 0
                                         /\ run.dlive]
    /\ UNCHANGED <<exec, run, art, bundle, decisions, jobs>>

(* ... then the deliverable the Run lists, and the clock: the lease that   *)
(* was read may have run out since ...                                     *)
ReconcileJudges(a) ==
    /\ ap[a].pc = "judge"
    /\ \/ IsPublished(art) /\ Step(a, "complete")
       \/ ~IsPublished(art) /\ ap[a].held /\ Return(a)
       \/ ~IsPublished(art) /\ (~ap[a].held \/ ~run.dlive) /\ Step(a, "abort")
    /\ UNCHANGED <<exec, run, art, bundle, decisions, jobs>>

(* ... and reconcile_run_approval_atomic settles what was judged, if the   *)
(* Run is RUNNING still and the deliverable still as judged.               *)
ReconcileCompletes(a) ==
    /\ ap[a].pc = "complete"
    /\ IF run.status = "running" /\ IsPublished(art)
       THEN /\ run' = [run EXCEPT !.status = "completed", !.gate = "approved",
                                  !.commit = "committed", !.dtoken = 0, !.dlive = FALSE]
            /\ exec' = [exec EXCEPT !.status = "completed", !.version = @ + 1]
       ELSE UNCHANGED <<exec, run>>
    /\ Return(a)
    /\ UNCHANGED <<art, bundle, decisions, jobs>>

FreeJob == {j \in 1..MaxJobs : /\ jobs[j].status = "absent"
                               /\ \A i \in 1..(j - 1) : jobs[i].status # "absent"}

ReconcileAborts(a) ==
    /\ ap[a].pc = "abort"
    /\ IF run.status = "running" /\ ~IsPublished(art)
       THEN /\ run' = [run EXCEPT !.status = "failed", !.gate = "failed",
                                  !.commit = "aborted", !.dtoken = 0, !.dlive = FALSE]
            /\ exec' = [exec EXCEPT !.status = "failed", !.version = @ + 1]
            /\ \E j \in FreeJob : jobs' = [jobs EXCEPT ![j] = NewJob]
       ELSE UNCHANGED <<exec, run, jobs>>
    /\ Return(a)
    /\ UNCHANGED <<art, bundle, decisions>>

-----------------------------------------------------------------------------
(* retry_run: an aborted Run (is_retryable) that was not rejected.         *)
ReadFailedRun(a) ==
    /\ a \in Approvers
    /\ ap[a].pc = "idle"
    /\ run.status = "failed"
    /\ run.commit = "aborted"
    /\ run.gate # "rejected"
    /\ Step(a, "retry_cas")
    /\ UNCHANGED <<exec, run, art, bundle, decisions, jobs>>

RetryRun(a) ==
    /\ ap[a].pc = "retry_cas"
    /\ IF run.status = "failed"
       THEN run' = [run EXCEPT !.status = "running"] /\ Step(a, "retry_bundle")
       ELSE Return(a) /\ UNCHANGED run
    /\ UNCHANGED <<exec, art, bundle, decisions, jobs>>

(* The process of an approver dies between two calls.                      *)
ApproverDies(a) ==
    /\ a \in Approvers
    /\ ap[a].pc # "idle"
    /\ Return(a)
    /\ UNCHANGED <<exec, run, art, bundle, decisions, jobs>>

DecisionLeaseExpires ==
    /\ run.dlive
    /\ run' = [run EXCEPT !.dlive = FALSE]
    /\ UNCHANGED <<exec, art, bundle, ap, decisions, jobs>>

-----------------------------------------------------------------------------
(* A critical action has been executed and waits at its gate.              *)
GateInit ==
    /\ exec = [status |-> "awaiting_approval", version |-> 3]
    /\ run = [status |-> "awaiting_approval", gate |-> "pending", dtoken |-> 0,
              dlive |-> FALSE, commit |-> "none"]
    /\ art = [vis |-> "pending_approval", pub |-> "pending_approval", blob |-> TRUE]
    /\ bundle = [vis |-> "none", pub |-> "none"]
    /\ ap = [a \in Actors |-> AtRest]
    /\ decisions = 0
    /\ jobs = [j \in 1..MaxJobs |-> NoJob]

Reconcile(a) ==
    \/ ReconcileReadsRun(a) \/ ReconcileJudges(a)
    \/ ReconcileCompletes(a) \/ ReconcileAborts(a)

Decide(a) ==
    \/ TakeDecision(a) \/ DecisionRefused(a) \/ UploadBundle(a) \/ RecordBundle(a)
    \/ Approve(a) \/ Rollback(a) \/ MarkUncertainCommit(a) \/ Reject(a) \/ RetryRun(a)

GateNext ==
    \/ \E a \in Actors :
          \/ ReadGate(a) \/ Decide(a) \/ BundleFails(a) \/ ApproveRaises(a)
          \/ ListStalledRun(a) \/ Reconcile(a) \/ ReadFailedRun(a) \/ ApproverDies(a)
    \/ DecisionLeaseExpires

GateSpec == GateInit /\ [][GateNext]_gvars

(* The maintenance endpoint keeps scanning, a call that runs goes on, and  *)
(* leases run out.  Nobody need decide or retry.                           *)
GateFairness ==
    /\ \A a \in Actors : WF_gvars(Decide(a)) /\ WF_gvars(Reconcile(a))
    /\ \A a \in Scanners : WF_gvars(ListStalledRun(a))
    /\ WF_gvars(DecisionLeaseExpires)

FairGateSpec == GateSpec /\ GateFairness
-----------------------------------------------------------------------------
(* Every variable stays in its type.                                       *)
GateTypeOK ==
    /\ exec.status \in {"awaiting_approval", "completed", "failed"}
    /\ exec.version \in Nat
    /\ run.status \in {"running", "awaiting_approval", "completed", "failed"}
    /\ run.gate \in {"pending", "approving", "approved", "rejected", "failed"}
    /\ run.dtoken \in Nat /\ run.dlive \in BOOLEAN
    /\ run.commit \in {"none", "uncertain", "committed", "aborted"}
    /\ ap \in [Actors -> Actor]
    /\ decisions \in 0..MaxDecisions

SomethingIsPublished ==
    art.vis = "published" \/ art.pub = "published" \/ bundle.vis = "published"

(* An approved gate means all of it and nothing is done before: the Run    *)
(* and the action are COMPLETED and the deliverable is published exactly   *)
(* when the gate is, and no bundle sooner, whoever died, timed out, rolled *)
(* back or reconciled on the way.                                          *)
ApprovedIsAtomic ==
    /\ run.gate = "approved" =>
           /\ run.status = "completed"
           /\ exec.status = "completed"
           /\ IsPublished(art)
    /\ SomethingIsPublished => run.gate = "approved"

(* An approval is final: no rollback, abort or retry that was already on   *)
(* its way reopens it.                                                     *)
ApprovalIsFinal ==
    [][run.gate = "approved" => run'.gate = "approved" /\ run'.status = "completed"]_gvars

(* Of several approvers only the one that took the latest decision lease   *)
(* commits.                                                                *)
LatestDecisionCommits ==
    [][run.gate # "approved" /\ run'.gate = "approved" =>
          \E a \in Approvers : /\ ap[a].pc = "approve" /\ ap'[a] # ap[a]
                               /\ ap[a].token = decisions]_gvars

(* A decision that was begun comes to an end.                              *)
Approving == run.status = "running" /\ run.gate = "approving"
ApprovingEnds == Approving ~> ~Approving

(* A Run rejected at its gate stays rejected; retry_run refuses it.        *)
RejectionIsFinal ==
    [][run.gate = "rejected" => run'.gate = "rejected" /\ run'.status = "failed"]_gvars

(* The reconciler aborts no decision whose lease is live, except that the  *)
(* holder of the lease may abort its own.                                  *)
LiveDecisionStands ==
    [][Approving /\ run.dlive /\ run'.gate = "failed"
          => \E a \in Approvers : /\ ap[a].pc = "abort" /\ ap[a].force
                                  /\ ap[a].token = run.dtoken]_gvars

(* Once a failed or rejected approval is over and nobody works on the Run, *)
(* no staging artifact of its bundle is left without a cleanup job.        *)
StagingIsCleaned ==
    run.status = "failed" /\ (\A a \in Actors : ap[a].pc = "idle")
        => bundle.vis # "pending_approval"

(* A bundle published by an approval stays published.                      *)
PublishedBundleStays ==
    [][run.gate = "approved" /\ bundle.vis = "published" => bundle'.vis = "published"]_gvars

(* A retried Run does not stay RUNNING for ever.                           *)
Retrying == run.status = "running" /\ run.gate = "failed"
RetryEnds == Retrying ~> ~Retrying
=============================================================================
