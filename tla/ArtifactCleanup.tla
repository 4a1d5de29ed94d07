-------------------------- MODULE ArtifactCleanup --------------------------
(***************************************************************************)
(* The durable cleanup jobs of one deliverable and the sweepers that work  *)
(* them off (sweep_artifact_cleanups of services/deliverable_service.py    *)
(* over the artifact_cleanups collection), beside the writers that share   *)
(* the artifact: workers that save it again, or fail and enqueue its       *)
(* cleanup, and the approval that publishes it.  The file record is the    *)
(* one that has the artifact's id, which is where the cleanup calls look;  *)
(* bytes are those behind save_artifact_blob with the local backend.       *)
(***************************************************************************)
EXTENDS Naturals, FiniteSets

CONSTANTS
    Sweepers,    \* concurrent calls of sweep_artifact_cleanups
    MaxJobs,     \* jobs of the deliverable, one id for each staging version
    MaxRetries,  \* max_retries of a job
    MaxClaims    \* bound on the cleanup leases granted

ASSUME CleanupAssumption ==
    /\ MaxJobs \in Nat \ {0}
    /\ MaxRetries \in Nat \ {0}
    /\ MaxClaims \in Nat

VARIABLES
    jobs,     \* artifact_cleanups/<cleanup:artifact:version>
    art,      \* artifacts/<id>.visibility, files/<id>.publication_status, bytes
    sw,       \* local state of every sweeper
    cclaims   \* cleanup leases granted: the source of fresh tokens

cvars == <<jobs, art, sw, cclaims>>

JobStatus == {"absent", "pending", "in_progress", "completed", "cancelled", "failed"}
Job == [status: JobStatus, version: Nat, token: Nat, live: BOOLEAN,
        retries: 0..MaxRetries, wait: BOOLEAN]
NewJob == [status |-> "pending", version |-> 1, token |-> 0, live |-> FALSE,
           retries |-> 0, wait |-> FALSE]

Sweeper == [pc: {"idle", "claim", "check", "cancel", "delete", "complete", "fail"},
            job: 0..MaxJobs, token: Nat, version: Nat]
AtRest == [pc |-> "idle", job |-> 0, token |-> 0, version |-> 0]

Step(s, pc) == sw' = [sw EXCEPT ![s].pc = pc]
NextRow(s) == sw' = [sw EXCEPT ![s] = AtRest]

SomePublished == art.vis = "published" \/ art.pub = "published"

(* Operators marked "mutant" stand for a bug in the definition after them  *)
(* and are used by no specification; PROJECT.json lists what each breaks.  *)

(* Mutants: the mark is left; or the records are written unconditionally.  *)
LeaveMarked(vis, pub) == UNCHANGED art
LeaveOverwriting(vis, pub) == art' = [art EXCEPT !.vis = vis, !.pub = pub]

(* Only records that are "cleaning" are given their new values.            *)
Leave(vis, pub) ==
    art' = [art EXCEPT !.vis = IF @ = "cleaning" THEN vis ELSE @,
                       !.pub = IF @ = "cleaning" THEN pub ELSE @]

-----------------------------------------------------------------------------
ListJob(s, j) ==
    /\ sw[s].pc = "idle"
    /\ jobs[j].status = "pending"
    /\ sw' = [sw EXCEPT ![s].pc = "claim", ![s].job = j]
    /\ UNCHANGED <<jobs, art, cclaims>>

(* claim_artifact_cleanup_job, which blocks publishing ...                 *)
ClaimJob(s) ==
    LET j == sw[s].job IN
    /\ sw[s].pc = "claim"
    /\ jobs[j].status = "pending"
    /\ ~jobs[j].wait
    /\ ~SomePublished
    /\ cclaims < MaxClaims
    /\ cclaims' = cclaims + 1
    /\ jobs' = [jobs EXCEPT ![j].status = "in_progress", ![j].live = TRUE,
                            ![j].token = cclaims + 1, ![j].version = @ + 1]
    /\ art' = [art EXCEPT !.vis = "cleaning", !.pub = "cleaning"]
    /\ sw' = [sw EXCEPT ![s].pc = "check", ![s].token = cclaims + 1,
                        ![s].version = jobs'[j].version]

(* Mutant: the job of a published artifact is skipped, not cancelled.      *)
ClaimRefusedUncancelled(s) ==
    LET j == sw[s].job IN
    /\ sw[s].pc = "claim"
    /\ jobs[j].status # "pending" \/ jobs[j].wait \/ SomePublished
    /\ NextRow(s)
    /\ UNCHANGED <<jobs, art, cclaims>>

(* ... or cancels the job of a published artifact, or refuses it.          *)
ClaimRefused(s) ==
    LET j == sw[s].job IN
    /\ sw[s].pc = "claim"
    /\ jobs[j].status # "pending" \/ jobs[j].wait \/ SomePublished
    /\ jobs' = IF jobs[j].status = "pending" /\ ~jobs[j].wait
               THEN [jobs EXCEPT ![j].status = "cancelled"] ELSE jobs
    /\ NextRow(s)
    /\ UNCHANGED <<art, cclaims>>

(* The safety guard reads the artifact and the file again.                 *)
CheckPublished(s) ==
    /\ sw[s].pc = "check"
    /\ Step(s, IF SomePublished THEN "cancel" ELSE "delete")
    /\ UNCHANGED <<jobs, art, cclaims>>

Freed(j, status) ==
    [jobs[j] EXCEPT !.status = status, !.token = 0, !.live = FALSE, !.version = @ + 1]

CancelJob(s) ==
    LET j == sw[s].job IN
    /\ sw[s].pc = "cancel"
    /\ jobs' = [jobs EXCEPT ![j] = Freed(j, "cancelled")]
    /\ Leave("pending_approval", "pending_approval")
    /\ NextRow(s)
    /\ UNCHANGED cclaims

DeleteBlob(s) ==
    /\ sw[s].pc = "delete"
    /\ art' = [art EXCEPT !.blob = FALSE]
    /\ Step(s, "complete")
    /\ UNCHANGED <<jobs, cclaims>>

DeleteBlobFails(s) ==
    /\ sw[s].pc = "delete"
    /\ Step(s, "fail")
    /\ UNCHANGED <<jobs, art, cclaims>>

Holds(s) ==
    LET j == sw[s].job IN
    /\ jobs[j].token = sw[s].token
    /\ jobs[j].version = sw[s].version
    /\ jobs[j].live

CompleteJob(s) ==
    LET j == sw[s].job IN
    /\ sw[s].pc = "complete"
    /\ IF Holds(s)
       THEN /\ jobs' = [jobs EXCEPT ![j] = Freed(j, "completed")]
            /\ Leave("purged", "failed")
       ELSE UNCHANGED <<jobs, art>>
    /\ NextRow(s)
    /\ UNCHANGED cclaims

(* The store is unavailable: the except clause records a failure.          *)
CompleteRaises(s) ==
    /\ sw[s].pc = "complete"
    /\ Step(s, "fail")
    /\ UNCHANGED <<jobs, art, cclaims>>

(* Mutant: one try too many.                                               *)
LastTryOffByOne(j) == jobs[j].retries + 1 > MaxRetries

LastTry(j) == jobs[j].retries + 1 >= MaxRetries

RecordCleanupFailure(s) ==
    LET j == sw[s].job
        last == LastTry(j)
    IN
    /\ sw[s].pc = "fail"
    /\ IF Holds(s)
       THEN /\ jobs' = [jobs EXCEPT ![j] =
                          [Freed(j, IF last THEN "failed" ELSE "pending")
                             EXCEPT !.retries = @ + 1, !.wait = ~last]]
            /\ Leave("pending_approval", "pending_approval")
       ELSE UNCHANGED <<jobs, art>>
    /\ NextRow(s)
    /\ UNCHANGED cclaims

SweeperDies(s) ==
    /\ sw[s].pc # "idle"
    /\ NextRow(s)
    /\ UNCHANGED <<jobs, art, cclaims>>

CleanupLeaseExpires(j) ==
    /\ jobs[j].live
    /\ jobs' = [jobs EXCEPT ![j].live = FALSE]
    /\ UNCHANGED <<art, sw, cclaims>>

CleanupBackoffElapses(j) ==
    /\ jobs[j].wait
    /\ jobs' = [jobs EXCEPT ![j].wait = FALSE]
    /\ UNCHANGED <<art, sw, cclaims>>

-----------------------------------------------------------------------------
(* An aborted approval enqueues the job of the Run's next version ...      *)
EnqueueCleanup(j) ==
    /\ j > 1
    /\ jobs[j].status = "absent"
    /\ \A i \in 2..(j - 1) : jobs[i].status # "absent"
    /\ art.vis # "published"
    /\ jobs' = [jobs EXCEPT ![j] = NewJob]
    /\ UNCHANGED <<art, sw, cclaims>>

(* ... and a failed attempt that could not delete its cached bytes the job *)
(* of version 1, which is overwritten whatever has become of it.  (Bound:  *)
(* no more once the claims left would not do for the retries of each job.) *)
RequeueCleanup ==
    /\ cclaims + MaxJobs * MaxRetries <= MaxClaims
    /\ jobs' = [jobs EXCEPT ![1] = NewJob]
    /\ UNCHANGED <<art, sw, cclaims>>

(* A retry of the action saves bytes, file and artifact anew.  (What a     *)
(* late worker does to a published one is ActionExecution's subject.)      *)
SaveAgain ==
    /\ ~SomePublished
    /\ art' = [vis |-> "pending_approval", pub |-> "pending_approval", blob |-> TRUE]
    /\ UNCHANGED <<jobs, sw, cclaims>>

(* An approval publishes what is pending approval.                         *)
PublishArtifact ==
    /\ art.vis = "pending_approval"
    /\ art' = [art EXCEPT !.vis = "published", !.pub = "published"]
    /\ UNCHANGED <<jobs, sw, cclaims>>

CleanupInit ==
    /\ jobs = [j \in 1..MaxJobs |-> [NewJob EXCEPT !.status = "absent"]]
    /\ art = [vis |-> "pending_approval", pub |-> "pending_approval", blob |-> TRUE]
    /\ sw = [s \in Sweepers |-> AtRest]
    /\ cclaims = 0

Sweep(s) ==
    \/ ClaimJob(s) \/ ClaimRefused(s) \/ CheckPublished(s) \/ CancelJob(s)
    \/ DeleteBlob(s) \/ CompleteJob(s) \/ RecordCleanupFailure(s)

CleanupNext ==
    \/ \E s \in Sweepers :
          \/ \E j \in 1..MaxJobs : ListJob(s, j)
          \/ Sweep(s) \/ DeleteBlobFails(s) \/ CompleteRaises(s) \/ SweeperDies(s)
    \/ \E j \in 1..MaxJobs :
          CleanupLeaseExpires(j) \/ CleanupBackoffElapses(j) \/ EnqueueCleanup(j)
    \/ RequeueCleanup \/ SaveAgain \/ PublishArtifact

CleanupSpec == CleanupInit /\ [][CleanupNext]_cvars

(* The maintenance endpoint keeps calling the sweeper and time passes;     *)
(* sweepers may keep dying, but not for ever on the same job.              *)
CleanupFairness ==
    /\ \A j \in 1..MaxJobs :
          /\ SF_cvars(\E s \in Sweepers : ListJob(s, j))
          /\ SF_cvars(\E s \in Sweepers : sw[s].job = j /\ Sweep(s))
    /\ \A j \in 1..MaxJobs :
          /\ WF_cvars(CleanupLeaseExpires(j))
          /\ WF_cvars(CleanupBackoffElapses(j))

FairCleanupSpec == CleanupSpec /\ CleanupFairness

-----------------------------------------------------------------------------
(* Every variable stays in its type.                                       *)
CleanupTypeOK ==
    /\ jobs \in [1..MaxJobs -> Job]
    /\ art.vis \in {"pending_approval", "published", "cleaning", "purged"}
    /\ art.pub \in {"pending_approval", "published", "cleaning", "failed"}
    /\ sw \in [Sweepers -> Sweeper]
    /\ cclaims \in 0..MaxClaims

(* A record is "cleaning", which blocks its approval, only while a job is  *)
(* in progress for it or will be: no order of claims, failures, resets and *)
(* cancellations leaves the mark behind when every job is over.            *)
CleaningHasJob ==
    art.vis = "cleaning" \/ art.pub = "cleaning" =>
        \E j \in 1..MaxJobs : jobs[j].status \in {"pending", "in_progress"}

(* Mutual exclusion with publishing: no step of a sweeper, however late,   *)
(* takes the publication of an artifact or of its file back.               *)
PublicationStays ==
    [][/\ art.vis = "published" => art'.vis = "published"
       /\ art.pub = "published" => art'.pub = "published"]_cvars

(* A pending job does not stay pending: it is worked off, cancelled, or    *)
(* given up after its retries.                                             *)
PendingIsSwept ==
    \A j \in 1..MaxJobs : jobs[j].status = "pending" ~> jobs[j].status # "pending"

(* Marking the artifact "cleaning" blocks concurrent publishing: what is   *)
(* published has its bytes.                                                *)
PublishedHasItsBytes == art.vis = "published" => art.blob

(* A job a sweeper died on is taken over and finished.                     *)
InProgressIsFinished ==
    \A j \in 1..MaxJobs :
        jobs[j].status = "in_progress" ~> jobs[j].status # "in_progress"
=============================================================================
