-------------------------- MODULE LeasedWorkProofs --------------------------
(***************************************************************************)
(* Proofs about three kinds of work handed out under leases, which         *)
(* MCLeasedWork checks together: the cleanup jobs of a deliverable         *)
(* (ArtifactCleanup), an event in the outbox (ActivityOutbox) and the      *)
(* diagnosis of a Run (RunDiagnosis).  They share no document, and their   *)
(* proofs share no lemma.                                                  *)
(***************************************************************************)
EXTENDS ArtifactCleanup, ActivityOutbox, RunDiagnosis, TLAPS

(***************************************************************************)
(* The cleanup jobs of a deliverable.  The marks on artifact and file are  *)
(* set, cleared and published together, and a job is over, or cancelled,   *)
(* only in a step that clears the marks or finds the artifact published.   *)
(***************************************************************************)
Marks == {<<"pending_approval", "pending_approval">>, <<"published", "published">>,
          <<"cleaning", "cleaning">>, <<"purged", "failed">>}

Artifact == [vis: {"pending_approval", "published", "cleaning", "purged"},
             pub: {"pending_approval", "published", "cleaning", "failed"},
             blob: BOOLEAN]

OpenJob(j) == jobs[j].status \in {"pending", "in_progress"}

CleanupInvariant ==
    /\ art \in Artifact /\ <<art.vis, art.pub>> \in Marks
    /\ CleaningHasJob
    /\ \A s \in Sweepers : sw[s].pc # "idle" => sw[s].job \in 1..MaxJobs
    /\ \A j \in 1..MaxJobs :
          /\ OpenJob(j) => jobs[j].retries < MaxRetries
          /\ jobs[j].live => jobs[j].status = "in_progress"

-----------------------------------------------------------------------------
(* What a step does, in the order of the code: a job becomes another ...   *)
JobBecomes(j, r) ==
    /\ jobs' = [jobs EXCEPT ![j] = r]
    /\ r \in Job
    /\ r.status \in {"pending", "in_progress"} => r.retries < MaxRetries
    /\ r.live => r.status = "in_progress"

(* ... a sweeper goes on, with a job of this deliverable, or rests.        *)
SweeperGoes(s) ==
    \E r \in Sweeper : /\ sw' = [sw EXCEPT ![s] = r]
                       /\ r.pc # "idle" => r.job \in 1..MaxJobs

(* The marks of the artifact after a step.                                 *)
MarksMove ==
    /\ art' \in Artifact /\ <<art'.vis, art'.pub>> \in Marks
    /\ art.vis = "published" => art'.vis = "published"
    /\ art.pub = "published" => art'.pub = "published"

CleanupEffects ==
    /\ MarksMove
    /\ cclaims' \in 0..MaxClaims
    /\ sw' = sw \/ \E s \in Sweepers : SweeperGoes(s)
    /\ \/ /\ jobs' = jobs
          /\ art'.vis = "cleaning" => art.vis = "cleaning"
       \/ \E j \in 1..MaxJobs, r \in Job :
             /\ JobBecomes(j, r)
             /\ \/ r.status \in {"pending", "in_progress"}
                \/ art'.vis # "cleaning"
                \/ r.status = jobs[j].status /\ art'.vis = art.vis

LEMMA JobConstants == /\ MaxJobs \in Nat \ {0} /\ MaxRetries \in Nat \ {0}
                      /\ MaxClaims \in Nat
  BY CleanupAssumption

LEMMA FreshJob ==
  /\ NewJob \in Job /\ NewJob.status = "pending" /\ NewJob.retries = 0
  /\ NewJob.live = FALSE
  BY JobConstants DEF NewJob, Job, JobStatus

LEMMA RestingSweeper == AtRest \in Sweeper /\ AtRest.pc = "idle"
  BY JobConstants DEF AtRest, Sweeper

(* The helpers of the steps.                                               *)
LEMMA StepGoes ==
  ASSUME CleanupTypeOK, CleanupInvariant, NEW s \in Sweepers, sw[s].pc # "idle",
         NEW pc \in {"idle", "claim", "check", "cancel", "delete", "complete", "fail"},
         Step(s, pc)
  PROVE  SweeperGoes(s)
  <1> DEFINE r == [sw[s] EXCEPT !.pc = pc]
  <1>1. sw[s] \in Sweeper /\ sw[s].job \in 1..MaxJobs
    BY DEF CleanupTypeOK, CleanupInvariant
  <1>2. r \in Sweeper /\ r.job = sw[s].job
    BY <1>1 DEF Sweeper
  <1>3. sw' = [sw EXCEPT ![s] = r]
    BY DEF Step
  <1> HIDE DEF r
  <1> QED
    BY <1>1, <1>2, <1>3 DEF SweeperGoes

LEMMA NextRowGoes ==
  ASSUME NEW s \in Sweepers, NextRow(s)
  PROVE  SweeperGoes(s)
  BY RestingSweeper DEF NextRow, SweeperGoes

LEMMA MarksStay ==
  ASSUME CleanupInvariant, UNCHANGED art
  PROVE  MarksMove /\ art'.vis = art.vis
  BY DEF CleanupInvariant, MarksMove

LEMMA LeavingClears ==
  ASSUME CleanupInvariant, NEW vis, NEW pub,
         <<vis, pub>> \in {<<"pending_approval", "pending_approval">>, <<"purged", "failed">>},
         Leave(vis, pub)
  PROVE  MarksMove /\ art'.vis # "cleaning"
  <1>1. art \in Artifact /\ <<art.vis, art.pub>> \in Marks
    BY DEF CleanupInvariant
  <1> DEFINE v == IF art.vis = "cleaning" THEN vis ELSE art.vis
             p == IF art.pub = "cleaning" THEN pub ELSE art.pub
  <1>2. art' = [art EXCEPT !.vis = v, !.pub = p]
    BY DEF Leave
  <1>3. /\ v \in {"pending_approval", "published", "purged"}
        /\ p \in {"pending_approval", "published", "failed"}
        /\ <<v, p>> \in Marks
        /\ art.vis = "published" => v = "published"
        /\ art.pub = "published" => p = "published"
    BY <1>1 DEF Artifact, Marks
  <1> HIDE DEF v, p
  <1>4. art' \in Artifact /\ art'.vis = v /\ art'.pub = p
    BY <1>1, <1>2, <1>3 DEF Artifact
  <1> QED
    BY <1>3, <1>4 DEF MarksMove

LEMMA FreedType ==
  ASSUME CleanupTypeOK, CleanupInvariant, NEW j \in 1..MaxJobs,
         NEW status \in JobStatus
  PROVE  /\ Freed(j, status) \in Job /\ Freed(j, status).status = status
         /\ Freed(j, status).retries = jobs[j].retries
         /\ Freed(j, status).live = FALSE
  <1>1. jobs[j] \in Job
    BY DEF CleanupTypeOK
  <1>2. PICK v \in Nat : v = jobs[j].version + 1
    BY <1>1 DEF Job
  <1>3. Freed(j, status) = [jobs[j] EXCEPT !.status = status, !.token = 0,
                                           !.live = FALSE, !.version = v]
    BY <1>2 DEF Freed
  <1> DEFINE r == [jobs[j] EXCEPT !.status = status, !.token = 0, !.live = FALSE,
                                  !.version = v]
  <1>4. /\ r \in Job /\ r.status = status /\ r.retries = jobs[j].retries
        /\ r.live = FALSE
    BY <1>1 DEF Job
  <1>5. Freed(j, status) = r
    BY <1>3
  <1> HIDE DEF r
  <1> QED
    BY <1>4, <1>5
(* A step of a sweeper that leaves the jobs alone.                         *)
LEMMA SweeperOnly ==
  ASSUME CleanupTypeOK, CleanupInvariant, NEW s \in Sweepers, SweeperGoes(s),
         UNCHANGED <<jobs, cclaims>>, MarksMove, art'.vis = art.vis
  PROVE  CleanupEffects
  BY DEF CleanupTypeOK, CleanupEffects

(* The steps.                                                              *)
LEMMA ListJobEffects ==
  ASSUME CleanupTypeOK, CleanupInvariant, NEW s \in Sweepers, NEW j \in 1..MaxJobs,
         ListJob(s, j)
  PROVE  CleanupEffects
  <1> DEFINE r == [sw[s] EXCEPT !.pc = "claim", !.job = j]
  <1>1. sw[s] \in Sweeper /\ j \in 0..MaxJobs
    BY JobConstants DEF CleanupTypeOK
  <1>2. r \in Sweeper /\ r.job = j
    BY <1>1 DEF Sweeper
  <1>3. sw' = [sw EXCEPT ![s] = r]
    BY DEF ListJob
  <1> HIDE DEF r
  <1>4. SweeperGoes(s)
    BY <1>2, <1>3 DEF SweeperGoes
  <1> QED
    BY <1>4, MarksStay, SweeperOnly DEF ListJob

LEMMA ClaimJobEffects ==
  ASSUME CleanupTypeOK, CleanupInvariant, NEW s \in Sweepers, ClaimJob(s)
  PROVE  CleanupEffects
  <1> DEFINE j == sw[s].job
  <1>1. j \in 1..MaxJobs /\ jobs[j] \in Job /\ sw[s] \in Sweeper /\ cclaims \in 0..MaxClaims
    BY DEF CleanupTypeOK, CleanupInvariant, ClaimJob
  <1>2. PICK t \in Nat, v \in Nat : t = cclaims + 1 /\ v = jobs[j].version + 1
    BY <1>1, JobConstants DEF Job
  <1> DEFINE r == [jobs[j] EXCEPT !.status = "in_progress", !.live = TRUE,
                                  !.token = t, !.version = v]
  <1>3. jobs' = [jobs EXCEPT ![j] = r]
    BY <1>2 DEF ClaimJob
  <1>4. /\ r \in Job /\ r.status = "in_progress" /\ r.retries = jobs[j].retries
        /\ r.version = v
    BY <1>1 DEF Job, JobStatus
  <1> DEFINE c == [sw[s] EXCEPT !.pc = "check", !.token = t, !.version = v]
  <1> HIDE DEF r
  <1>5. jobs'[j].version = v
    BY <1>1, <1>3, <1>4 DEF CleanupTypeOK
  <1>6. sw' = [sw EXCEPT ![s] = c]
    BY <1>2, <1>5 DEF ClaimJob
  <1>7. c \in Sweeper /\ c.job = j
    BY <1>1 DEF Sweeper
  <1> HIDE DEF c
  <1>8. SweeperGoes(s)
    BY <1>1, <1>6, <1>7 DEF SweeperGoes
  <1>9. JobBecomes(j, r)
    BY <1>1, <1>3, <1>4 DEF JobBecomes, ClaimJob, CleanupInvariant, OpenJob
  <1>10. MarksMove
    BY DEF ClaimJob, SomePublished, MarksMove, CleanupInvariant, Artifact, Marks
  <1>11. cclaims' \in 0..MaxClaims
    BY <1>1, JobConstants DEF ClaimJob
  <1> QED
    BY <1>1, <1>4, <1>8, <1>9, <1>10, <1>11 DEF CleanupEffects

LEMMA ClaimRefusedEffects ==
  ASSUME CleanupTypeOK, CleanupInvariant, NEW s \in Sweepers, ClaimRefused(s)
  PROVE  CleanupEffects
  <1> DEFINE j == sw[s].job
  <1>1. j \in 1..MaxJobs /\ jobs[j] \in Job
    BY DEF CleanupTypeOK, CleanupInvariant, ClaimRefused
  <1>2. SweeperGoes(s) /\ MarksMove /\ art'.vis = art.vis
    BY NextRowGoes, MarksStay DEF ClaimRefused
  <1>3. CASE jobs[j].status = "pending" /\ ~jobs[j].wait
    <2> DEFINE r == [jobs[j] EXCEPT !.status = "cancelled"]
    <2>1. jobs' = [jobs EXCEPT ![j] = r]
      BY <1>3 DEF ClaimRefused
    <2>2. r \in Job /\ r.status = "cancelled" /\ r.live = jobs[j].live
      BY <1>1 DEF Job, JobStatus
    <2> HIDE DEF r
    <2>3. JobBecomes(j, r)
      BY <1>1, <1>3, <2>1, <2>2 DEF JobBecomes, CleanupInvariant, Job
    <2>4. art.vis # "cleaning"
      BY <1>3 DEF ClaimRefused, SomePublished, CleanupInvariant, Marks
    <2> QED
      BY <1>1, <1>2, <2>2, <2>3, <2>4 DEF CleanupEffects, ClaimRefused, CleanupTypeOK
  <1>4. CASE ~(jobs[j].status = "pending" /\ ~jobs[j].wait)
    BY <1>2, <1>4, SweeperOnly DEF ClaimRefused
  <1> QED
    BY <1>3, <1>4

(* A job that is cancelled, completed, or has failed once more.            *)
LEMMA FreeingEffects ==
  ASSUME CleanupTypeOK, CleanupInvariant, NEW s \in Sweepers, SweeperGoes(s),
         NEW j \in 1..MaxJobs, NEW status \in {"cancelled", "completed"},
         jobs' = [jobs EXCEPT ![j] = Freed(j, status)],
         MarksMove, art'.vis # "cleaning", UNCHANGED cclaims
  PROVE  CleanupEffects
  <1>1. JobBecomes(j, Freed(j, status)) /\ Freed(j, status) \in Job
    BY FreedType DEF JobBecomes, JobStatus
  <1> QED
    BY <1>1 DEF CleanupEffects, CleanupTypeOK

LEMMA FailureEffects ==
  ASSUME CleanupTypeOK, CleanupInvariant, NEW s \in Sweepers, RecordCleanupFailure(s)
  PROVE  CleanupEffects
  <1> DEFINE j == sw[s].job
             last == LastTry(j)
             freed == Freed(j, IF last THEN "failed" ELSE "pending")
  <1>1. j \in 1..MaxJobs /\ jobs[j] \in Job
    BY DEF CleanupTypeOK, CleanupInvariant, RecordCleanupFailure
  <1>2. SweeperGoes(s) /\ UNCHANGED cclaims
    BY NextRowGoes DEF RecordCleanupFailure
  <1>3. CASE Holds(s)
    <2>1. /\ jobs' = [jobs EXCEPT ![j] = [freed EXCEPT !.retries = freed.retries + 1,
                                                       !.wait = ~last]]
          /\ MarksMove /\ art'.vis # "cleaning"
      BY <1>3, LeavingClears DEF RecordCleanupFailure
    <2>2. jobs[j].retries \in Nat /\ jobs[j].retries < MaxRetries
      BY <1>1, <1>3, JobConstants DEF Holds, CleanupInvariant, OpenJob, Job
    <2>3. /\ freed \in Job /\ freed.status = (IF last THEN "failed" ELSE "pending")
          /\ freed.retries = jobs[j].retries /\ freed.live = FALSE
      BY <1>1, FreedType DEF JobStatus
    <2>4. ~last => jobs[j].retries + 1 < MaxRetries
      BY <2>2, JobConstants DEF LastTry
    <2>5. PICK w \in BOOLEAN, n \in 0..MaxRetries : w = (~last) /\ n = jobs[j].retries + 1
      <3>1. jobs[j].retries + 1 \in 0..MaxRetries
        BY <2>2, JobConstants
      <3>2. (~last) \in BOOLEAN
        OBVIOUS
      <3> QED
        BY <3>1, <3>2, Zenon
    <2> HIDE DEF freed, last
    <2> DEFINE r == [freed EXCEPT !.retries = n, !.wait = w]
    <2>6. jobs' = [jobs EXCEPT ![j] = r]
      BY <2>1, <2>3, <2>5
    <2>7. r \in Job /\ r.status = freed.status /\ r.retries = n /\ r.live = FALSE
      BY <2>3, <2>5 DEF Job
    <2> HIDE DEF r
    <2>8. JobBecomes(j, r)
      BY <2>3, <2>4, <2>5, <2>6, <2>7 DEF JobBecomes
    <2> QED
      BY <1>1, <1>2, <2>1, <2>7, <2>8 DEF CleanupEffects, CleanupTypeOK
  <1>4. CASE ~Holds(s)
    BY <1>2, <1>4, MarksStay, SweeperOnly DEF RecordCleanupFailure
  <1> QED
    BY <1>3, <1>4

(* Time passes for a job, or it is enqueued.                               *)
LEMMA JobEffects ==
  ASSUME CleanupTypeOK, CleanupInvariant, NEW j \in 1..MaxJobs,
         CleanupLeaseExpires(j) \/ CleanupBackoffElapses(j) \/ EnqueueCleanup(j)
  PROVE  CleanupEffects
  <1>1. jobs[j] \in Job /\ UNCHANGED <<art, sw, cclaims>>
    BY DEF CleanupTypeOK, CleanupLeaseExpires, CleanupBackoffElapses, EnqueueCleanup
  <1>2. MarksMove /\ art'.vis = art.vis
    BY <1>1, MarksStay
  <1>3. ASSUME NEW r \in Job, jobs' = [jobs EXCEPT ![j] = r],
               r.status = jobs[j].status, r.retries = jobs[j].retries,
               r.live => jobs[j].live
        PROVE  CleanupEffects
    <2>1. JobBecomes(j, r)
      BY <1>1, <1>3 DEF JobBecomes, CleanupInvariant, OpenJob, Job
    <2> QED
      BY <1>1, <1>2, <1>3, <2>1 DEF CleanupEffects, CleanupTypeOK
  <1>4. CASE CleanupLeaseExpires(j)
    <2> DEFINE r == [jobs[j] EXCEPT !.live = FALSE]
    <2>1. jobs' = [jobs EXCEPT ![j] = r]
      BY <1>4 DEF CleanupLeaseExpires
    <2>2. /\ r \in Job /\ r.status = jobs[j].status /\ r.retries = jobs[j].retries
          /\ r.live = FALSE
      BY <1>1 DEF Job
    <2> HIDE DEF r
    <2> QED
      BY <1>3, <2>1, <2>2
  <1>5. CASE CleanupBackoffElapses(j)
    <2> DEFINE r == [jobs[j] EXCEPT !.wait = FALSE]
    <2>1. jobs' = [jobs EXCEPT ![j] = r]
      BY <1>5 DEF CleanupBackoffElapses
    <2>2. /\ r \in Job /\ r.status = jobs[j].status /\ r.retries = jobs[j].retries
          /\ r.live = jobs[j].live
      BY <1>1 DEF Job
    <2> HIDE DEF r
    <2> QED
      BY <1>3, <2>1, <2>2
  <1>6. CASE EnqueueCleanup(j)
    <2>1. JobBecomes(j, NewJob)
      BY <1>6, FreshJob, JobConstants DEF EnqueueCleanup, JobBecomes
    <2> QED
      BY <1>1, <1>2, <2>1, FreshJob DEF CleanupEffects, CleanupTypeOK
  <1> QED
    BY <1>4, <1>5, <1>6

LEMMA CleanupStep ==
  ASSUME CleanupTypeOK, CleanupInvariant, [CleanupNext]_cvars
  PROVE  CleanupEffects
  <1>0. CASE UNCHANGED cvars
    BY <1>0, MarksStay DEF cvars, CleanupEffects, CleanupTypeOK
  <1>1. ASSUME NEW s \in Sweepers, NEW j \in 1..MaxJobs, ListJob(s, j)
        PROVE  CleanupEffects
    BY <1>1, ListJobEffects
  <1>2. ASSUME NEW s \in Sweepers,
               \/ CheckPublished(s) \/ DeleteBlob(s) \/ DeleteBlobFails(s)
               \/ CompleteRaises(s) \/ SweeperDies(s)
        PROVE  CleanupEffects
    <2>1. SweeperGoes(s) /\ UNCHANGED <<jobs, cclaims>>
      <3>1. CASE SweeperDies(s)
        BY <3>1, NextRowGoes DEF SweeperDies
      <3>2. CASE CheckPublished(s)
        <4>1. PICK pc \in {"cancel", "delete"} : Step(s, pc)
          BY <3>2 DEF CheckPublished
        <4> QED
          BY <3>2, <4>1, StepGoes DEF CheckPublished
      <3>3. CASE DeleteBlob(s) \/ DeleteBlobFails(s) \/ CompleteRaises(s)
        BY <3>3, StepGoes DEF DeleteBlob, DeleteBlobFails, CompleteRaises
      <3> QED
        BY <1>2, <3>1, <3>2, <3>3
    <2>2. art' = art \/ art' = [art EXCEPT !.blob = FALSE]
      BY <1>2 DEF CheckPublished, DeleteBlob, DeleteBlobFails, CompleteRaises, SweeperDies
    <2>3. MarksMove /\ art'.vis = art.vis
      BY <2>2 DEF MarksMove, CleanupInvariant, Artifact
    <2> QED
      BY <2>1, <2>3, SweeperOnly
  <1>3. ASSUME NEW s \in Sweepers, CancelJob(s)
        PROVE  CleanupEffects
    <2>1. sw[s].job \in 1..MaxJobs /\ SweeperGoes(s)
      BY <1>3, NextRowGoes DEF CancelJob, CleanupInvariant
    <2>2. MarksMove /\ art'.vis # "cleaning"
      BY <1>3, LeavingClears DEF CancelJob
    <2> QED
      BY <1>3, <2>1, <2>2, FreeingEffects DEF CancelJob
  <1>4. ASSUME NEW s \in Sweepers, CompleteJob(s)
        PROVE  CleanupEffects
    <2>1. sw[s].job \in 1..MaxJobs /\ SweeperGoes(s)
      BY <1>4, NextRowGoes DEF CompleteJob, CleanupInvariant
    <2>2. CASE Holds(s)
      <3>1. MarksMove /\ art'.vis # "cleaning"
        BY <1>4, <2>2, LeavingClears DEF CompleteJob
      <3> QED
        BY <1>4, <2>1, <2>2, <3>1, FreeingEffects DEF CompleteJob
    <2>3. CASE ~Holds(s)
      BY <1>4, <2>1, <2>3, MarksStay, SweeperOnly DEF CompleteJob
    <2> QED
      BY <2>2, <2>3
  <1>5. CASE RequeueCleanup
    <2>1. JobBecomes(1, NewJob) /\ 1 \in 1..MaxJobs
      BY <1>5, FreshJob, JobConstants DEF RequeueCleanup, JobBecomes
    <2> QED
      BY <1>5, <2>1, FreshJob, MarksStay DEF RequeueCleanup, CleanupEffects, CleanupTypeOK
  <1>6. CASE SaveAgain \/ PublishArtifact
    <2>1. MarksMove /\ art'.vis # "cleaning"
      <3>1. CASE SaveAgain
        BY <3>1 DEF SaveAgain, SomePublished, MarksMove, Artifact, Marks
      <3>2. CASE PublishArtifact
        BY <3>2 DEF PublishArtifact, CleanupInvariant, MarksMove, Artifact, Marks
      <3> QED
        BY <1>6, <3>1, <3>2
    <2> QED
      BY <1>6, <2>1 DEF SaveAgain, PublishArtifact, CleanupEffects, CleanupTypeOK
  <1> QED
    BY <1>0, <1>1, <1>2, <1>3, <1>4, <1>5, <1>6, ClaimJobEffects, ClaimRefusedEffects,
       FailureEffects, JobEffects DEF CleanupNext, Sweep

LEMMA CleanupKept ==
  ASSUME CleanupTypeOK, CleanupInvariant, CleanupEffects
  PROVE  CleanupTypeOK' /\ CleanupInvariant'
  <1>1. art' \in Artifact /\ <<art'.vis, art'.pub>> \in Marks
    BY DEF CleanupEffects, MarksMove
  <1>2. sw' \in [Sweepers -> Sweeper]
        /\ \A s \in Sweepers : sw'[s].pc # "idle" => sw'[s].job \in 1..MaxJobs
    BY DEF CleanupEffects, SweeperGoes, CleanupTypeOK, CleanupInvariant
  <1>3. jobs' \in [1..MaxJobs -> Job]
        /\ \A j \in 1..MaxJobs :
              /\ OpenJob(j)' => jobs'[j].retries < MaxRetries
              /\ jobs'[j].live => jobs'[j].status = "in_progress"
    <2>1. CASE jobs' = jobs
      BY <2>1 DEF OpenJob, CleanupTypeOK, CleanupInvariant
    <2>2. ASSUME NEW j \in 1..MaxJobs, NEW r \in Job, JobBecomes(j, r)
          PROVE  /\ jobs' \in [1..MaxJobs -> Job]
                 /\ \A i \in 1..MaxJobs :
                       /\ OpenJob(i)' => jobs'[i].retries < MaxRetries
                       /\ jobs'[i].live => jobs'[i].status = "in_progress"
      BY <2>2 DEF JobBecomes, OpenJob, CleanupTypeOK, CleanupInvariant
    <2>3. jobs' = jobs \/ \E j \in 1..MaxJobs, r \in Job : JobBecomes(j, r)
      BY Zenon DEF CleanupEffects
    <2> QED
      BY <2>1, <2>2, <2>3, Zenon
  <1>4. CleaningHasJob'
    <2>1. SUFFICES ASSUME art'.vis = "cleaning"
                   PROVE  \E j \in 1..MaxJobs : OpenJob(j)'
      BY <1>1 DEF CleaningHasJob, OpenJob, Marks
    <2>2. CASE jobs' = jobs /\ art.vis = "cleaning"
      BY <2>2 DEF CleanupInvariant, CleaningHasJob, OpenJob
    <2>3. ASSUME NEW j \in 1..MaxJobs, NEW r \in Job, JobBecomes(j, r),
                 r.status \in {"pending", "in_progress"}
          PROVE  OpenJob(j)'
      BY <2>3 DEF JobBecomes, OpenJob, CleanupTypeOK
    <2>4. ASSUME NEW j \in 1..MaxJobs, NEW r \in Job, JobBecomes(j, r),
                 r.status = jobs[j].status, art'.vis = art.vis
          PROVE  \E i \in 1..MaxJobs : OpenJob(i)'
      <3>1. PICK i \in 1..MaxJobs : OpenJob(i)
        BY <2>1, <2>4 DEF CleanupInvariant, CleaningHasJob, OpenJob
      <3>2. jobs'[i].status = jobs[i].status
        BY <2>4 DEF JobBecomes, CleanupTypeOK
      <3> QED
        BY <3>1, <3>2 DEF OpenJob
    <2> QED
      <3>1. CASE jobs' = jobs /\ (art'.vis = "cleaning" => art.vis = "cleaning")
        BY <2>1, <2>2, <3>1
      <3>2. ASSUME NEW j \in 1..MaxJobs, NEW r \in Job, JobBecomes(j, r),
                   \/ r.status \in {"pending", "in_progress"}
                   \/ r.status = jobs[j].status /\ art'.vis = art.vis
            PROVE  \E i \in 1..MaxJobs : OpenJob(i)'
        BY <2>3, <2>4, <3>2
      <3>3. \/ jobs' = jobs /\ (art'.vis = "cleaning" => art.vis = "cleaning")
            \/ \E j \in 1..MaxJobs, r \in Job :
                  /\ JobBecomes(j, r)
                  /\ \/ r.status \in {"pending", "in_progress"}
                     \/ r.status = jobs[j].status /\ art'.vis = art.vis
        BY <2>1, Zenon DEF CleanupEffects
      <3> QED
        BY <3>1, <3>2, <3>3, Zenon
  <1>5. cclaims' \in 0..MaxClaims
    BY DEF CleanupEffects
  <1>6. CleanupTypeOK'
    BY <1>1, <1>2, <1>3, <1>5 DEF CleanupTypeOK, Artifact
  <1> QED
    BY <1>1, <1>2, <1>3, <1>4, <1>6 DEF CleanupInvariant

LEMMA CleanupCorrect == CleanupSpec => [](CleanupTypeOK /\ CleanupInvariant)
  <1>1. CleanupInit => CleanupTypeOK /\ CleanupInvariant
    <2> SUFFICES ASSUME CleanupInit PROVE CleanupTypeOK /\ CleanupInvariant
      OBVIOUS
    <2> DEFINE absent == [NewJob EXCEPT !.status = "absent"]
    <2>1. absent \in Job /\ absent.status = "absent" /\ absent.live = FALSE
      BY FreshJob DEF Job, JobStatus
    <2>2. jobs = [j \in 1..MaxJobs |-> absent]
      BY DEF CleanupInit
    <2> HIDE DEF absent
    <2>3. CleanupTypeOK
      BY <2>1, <2>2, RestingSweeper, JobConstants DEF CleanupInit, CleanupTypeOK
    <2> QED
      BY <2>1, <2>2, <2>3, RestingSweeper
         DEF CleanupInit, CleanupInvariant, CleaningHasJob, OpenJob, Artifact, Marks
  <1>2. CleanupTypeOK /\ CleanupInvariant /\ [CleanupNext]_cvars
          => (CleanupTypeOK /\ CleanupInvariant)'
    BY CleanupStep, CleanupKept
  <1> QED
    BY <1>1, <1>2, PTL DEF CleanupSpec

(* Jobs, artifact and sweepers keep their types; retries stay within       *)
(* max_retries although the cancelling of a job is not fenced.             *)
THEOREM CleanupTypes == CleanupSpec => []CleanupTypeOK
  BY CleanupCorrect, PTL

(* No record stays "cleaning" without a job to end that.                   *)
THEOREM CleaningIsAttended == CleanupSpec => []CleaningHasJob
  <1>1. CleanupInvariant => CleaningHasJob
    BY DEF CleanupInvariant
  <1> QED
    BY <1>1, CleanupCorrect, PTL

(* No step of a sweeper takes a publication back.                          *)
THEOREM PublicationIsForGood == CleanupSpec => PublicationStays
  <1>1. CleanupTypeOK /\ CleanupInvariant /\ [CleanupNext]_cvars
          => [/\ art.vis = "published" => art'.vis = "published"
              /\ art.pub = "published" => art'.pub = "published"]_cvars
    BY CleanupStep DEF CleanupEffects, MarksMove
  <1> QED
    BY <1>1, CleanupCorrect, PTL DEF CleanupSpec, PublicationStays

-----------------------------------------------------------------------------
(***************************************************************************)
(* The outbox, for every set of dispatchers, either store and any          *)
(* max_attempts: the entry tells the truth, settles for good, and the      *)
(* outbox implements EventDelivery.  OutboxTypeOK is inductive by itself;  *)
(* DeliveryInvariant is, given it, and says of every dispatcher how what   *)
(* it holds in its hands relates to the entry.                             *)
(***************************************************************************)
LEMMA NoneIsNoDispatcher == None \notin Dispatchers /\ MaxAttempts \in Nat
  BY OutboxAssumption

(* A dispatcher that goes on, or rests, is a dispatcher again.             *)
LEMMA GotoType ==
  ASSUME dis \in [Dispatchers -> Dispatcher], NEW d \in Dispatchers,
         NEW pc \in {"idle", "claim", "record", "settle", "fail"}
  PROVE  [dis EXCEPT ![d].pc = pc] \in [Dispatchers -> Dispatcher]
  BY DEF Dispatcher

LEMMA HandType ==
  ASSUME dis \in [Dispatchers -> Dispatcher], NEW d \in Dispatchers, NEW n \in Nat,
         NEW pc \in {"idle", "claim", "record", "settle", "fail"}
  PROVE  [dis EXCEPT ![d] = [pc |-> pc, seen |-> n]] \in [Dispatchers -> Dispatcher]
  BY DEF Dispatcher

LEMMA StopType ==
  ASSUME dis \in [Dispatchers -> Dispatcher], NEW d \in Dispatchers, Stop(d)
  PROVE  dis' \in [Dispatchers -> Dispatcher]
  BY HandType DEF Stop, Resting

(* Taking the entry counts an attempt, and hands it to the dispatcher.     *)
LEMMA TakeStep ==
  ASSUME OutboxTypeOK, NEW d \in Dispatchers, NEW n \in Nat, Take(d, n)
  PROVE  /\ item' \in Item /\ dis' \in [Dispatchers -> Dispatcher]
         /\ item'.status = "in_progress" /\ item'.attempts = item.attempts + 1
         /\ dis' = [dis EXCEPT ![d] = [pc |-> "record", seen |-> n]]
  <1>1. PICK live \in BOOLEAN :
          item' = [item EXCEPT !.status = "in_progress", !.attempts = @ + 1,
                               !.holder = d, !.live = live]
    BY DEF Take
  <1>2. PICK k \in Nat : k = item.attempts + 1
    BY DEF OutboxTypeOK, Item
  <1>3. item' = [item EXCEPT !.status = "in_progress", !.attempts = k,
                             !.holder = d, !.live = live]
    BY <1>1, <1>2
  <1>4. dis' = [dis EXCEPT ![d] = [pc |-> "record", seen |-> n]]
    BY DEF Take
  <1> QED
    BY <1>2, <1>3, <1>4, HandType DEF OutboxTypeOK, Item, OutboxStatus

(* Settling leaves the attempts alone.                                     *)
LEMMA SettledType ==
  ASSUME OutboxTypeOK, NEW status \in {"published", "failed", "pending"}
  PROVE  /\ Settled(status) \in Item
         /\ Settled(status).status = status /\ Settled(status).attempts = item.attempts
         /\ [Settled(status) EXCEPT !.wait = TRUE] \in Item
         /\ [Settled(status) EXCEPT !.wait = TRUE].status = status
         /\ [Settled(status) EXCEPT !.wait = TRUE].attempts = item.attempts
  BY DEF OutboxTypeOK, Item, OutboxStatus, Settled

LEMMA StagedType ==
  Staged \in Item /\ Staged.status = "pending" /\ Staged.attempts = 0
  BY DEF Staged, Item, OutboxStatus

-----------------------------------------------------------------------------
(* What a step of the outbox may do to the entry: it is not taken back     *)
(* once staged, its attempts do not fall, and neither is the event lost.   *)
Grows ==
    /\ item' \in Item /\ dis' \in [Dispatchers -> Dispatcher] /\ recorded' \in BOOLEAN
    /\ item.status # "absent" => item'.status # "absent"
    /\ item.attempts <= item'.attempts
    /\ recorded => recorded'

(* What a dispatcher knows of the entry while it works on it: the attempts *)
(* have not fallen below those it listed, its own claim is among them, and *)
(* what it is about to settle as published was recorded.                   *)
Knows(d) ==
    /\ dis[d].pc # "idle" => item.status # "absent"
    /\ dis[d].pc = "claim" => dis[d].seen <= item.attempts
    /\ dis[d].pc \in {"record", "settle", "fail"} => dis[d].seen + 1 <= item.attempts
    /\ dis[d].pc = "settle" => recorded

(* What the entry says is so, and one that is not staged was not claimed.  *)
Tells ==
    /\ OutboxTellsTheTruth
    /\ item.status = "absent" => item.attempts = 0

DeliveryInvariant == (\A d \in Dispatchers : Knows(d)) /\ Tells

(* A step that only one dispatcher takes keeps what the others know.       *)
LEMMA OneMoves ==
  ASSUME OutboxTypeOK, DeliveryInvariant, Grows, NEW d \in Dispatchers, Knows(d)',
         \A o \in Dispatchers \ {d} : dis'[o] = dis[o]
  PROVE  \A o \in Dispatchers : Knows(o)'
  <1> SUFFICES ASSUME NEW o \in Dispatchers, o # d
               PROVE  Knows(o)'
    OBVIOUS
  <1>1. dis'[o] = dis[o] /\ Knows(o)
    BY DEF DeliveryInvariant
  <1>2. dis[o].seen \in Nat /\ item.attempts \in Nat /\ item'.attempts \in Nat
    BY DEF OutboxTypeOK, Grows, Dispatcher, Item
  <1> QED
    BY <1>1, <1>2 DEF Knows, Grows

(* Nobody moves: time does.                                                *)
LEMMA NobodyMoves ==
  ASSUME OutboxTypeOK, DeliveryInvariant, Grows, dis' = dis
  PROVE  \A o \in Dispatchers : Knows(o)'
  <1> SUFFICES ASSUME NEW o \in Dispatchers
               PROVE  Knows(o)'
    OBVIOUS
  <1>1. dis'[o] = dis[o] /\ Knows(o)
    BY DEF DeliveryInvariant
  <1>2. dis[o].seen \in Nat /\ item.attempts \in Nat /\ item'.attempts \in Nat
    BY DEF OutboxTypeOK, Grows, Dispatcher, Item
  <1> QED
    BY <1>1, <1>2 DEF Knows, Grows

-----------------------------------------------------------------------------
(* A dispatcher that moves to a place, with nothing else of it changed.    *)
LEMMA GotoOnly ==
  ASSUME OutboxTypeOK, NEW d \in Dispatchers, NEW pc, Goto(d, pc)
  PROVE  /\ dis'[d].pc = pc /\ dis'[d].seen = dis[d].seen
         /\ \A o \in Dispatchers \ {d} : dis'[o] = dis[o]
  BY DEF OutboxTypeOK, Dispatcher, Goto

LEMMA StopOnly ==
  ASSUME OutboxTypeOK, NEW d \in Dispatchers, Stop(d)
  PROVE  /\ dis'[d].pc = "idle"
         /\ \A o \in Dispatchers \ {d} : dis'[o] = dis[o]
  BY DEF OutboxTypeOK, Dispatcher, Stop, Resting

(* A dispatcher that rests knows nothing.                                  *)
LEMMA Rested ==
  ASSUME OutboxTypeOK, DeliveryInvariant, Grows, NEW d \in Dispatchers, Stop(d),
         Tells'
  PROVE  DeliveryInvariant'
  <1>1. Knows(d)'
    BY StopOnly DEF Knows
  <1> QED
    BY <1>1, StopOnly, OneMoves DEF DeliveryInvariant

(* Whoever takes the entry holds one claim more than it has listed.        *)
LEMMA TakeKnows ==
  ASSUME OutboxTypeOK, DeliveryInvariant, NEW d \in Dispatchers, NEW n \in Nat,
         Take(d, n), n <= item.attempts, recorded' = recorded
  PROVE  Grows /\ DeliveryInvariant'
  <1>1. /\ item' \in Item /\ dis' \in [Dispatchers -> Dispatcher]
        /\ item'.status = "in_progress" /\ item'.attempts = item.attempts + 1
        /\ dis' = [dis EXCEPT ![d] = [pc |-> "record", seen |-> n]]
    BY TakeStep
  <1>2. dis'[d] = [pc |-> "record", seen |-> n]
        /\ \A o \in Dispatchers \ {d} : dis'[o] = dis[o]
    BY <1>1 DEF OutboxTypeOK
  <1>3. item.attempts \in Nat
    BY DEF OutboxTypeOK, Item
  <1>4. Grows
    BY <1>1, <1>3 DEF Grows, OutboxTypeOK
  <1>5. Knows(d)'
    BY <1>1, <1>2, <1>3 DEF Knows
  <1>6. Tells'
    BY <1>1 DEF Tells, OutboxTellsTheTruth
  <1> QED
    BY <1>2, <1>4, <1>5, <1>6, OneMoves DEF DeliveryInvariant

(* What a settled entry says is so, if it was so before.                   *)
LEMMA SettledTells ==
  ASSUME OutboxTypeOK, DeliveryInvariant, NEW d \in Dispatchers, dis[d].pc = "settle",
         recorded' = recorded,
         \/ item' = item
         \/ item' = IF Fenced(d) THEN Settled("published") ELSE item,
         dis' \in [Dispatchers -> Dispatcher]
  PROVE  Grows /\ Tells' /\ item'.attempts = item.attempts
  <1>1. Knows(d) /\ Tells
    BY DEF DeliveryInvariant
  <1>2. item.attempts \in Nat /\ item \in Item /\ recorded \in BOOLEAN
    BY DEF OutboxTypeOK, Item
  <1>3. CASE item' = item
    BY <1>1, <1>2, <1>3 DEF Grows, Tells, OutboxTellsTheTruth
  <1>4. CASE item' = Settled("published")
    <2>1. item' \in Item /\ item'.status = "published" /\ item'.attempts = item.attempts
      BY <1>4, SettledType
    <2>2. recorded'
      BY <1>1 DEF Knows
    <2> QED
      BY <1>2, <2>1, <2>2 DEF Grows, Tells, OutboxTellsTheTruth
  <1> QED
    BY <1>3, <1>4

(* An entry is given up by somebody who counts max_attempts claims, and as *)
(* many were made.                                                         *)
LEMMA SpentIsSpent ==
  ASSUME OutboxTypeOK, DeliveryInvariant, NEW d \in Dispatchers, dis[d].pc = "fail",
         Spent(d)
  PROVE  item.attempts >= MaxAttempts
  <1>1. dis[d].seen + 1 <= item.attempts
    BY DEF DeliveryInvariant, Knows
  <1>2. dis[d].seen \in Nat /\ item.attempts \in Nat
    BY DEF OutboxTypeOK, Dispatcher, Item
  <1> QED
    BY <1>1, <1>2, NoneIsNoDispatcher DEF Spent

-----------------------------------------------------------------------------
(* Every step keeps the entry growing and the invariant, one action after  *)
(* the other.                                                              *)
LEMMA StagingKeeps ==
  ASSUME OutboxTypeOK, DeliveryInvariant, TagOperation \/ StageOutboxEvent
  PROVE  Grows /\ DeliveryInvariant'
  <1>1. item.status = "absent" /\ item' = Staged /\ dis' = dis /\ (recorded => recorded')
        /\ recorded' \in BOOLEAN
    BY DEF TagOperation, StageOutboxEvent, OutboxTypeOK
  <1>2. item.attempts = 0
    BY <1>1 DEF DeliveryInvariant, Tells
  <1>3. item' \in Item /\ item'.status = "pending" /\ item'.attempts = 0
    BY <1>1, StagedType
  <1>4. Grows
    BY <1>1, <1>2, <1>3 DEF Grows, OutboxTypeOK
  <1>5. Tells'
    BY <1>3 DEF Tells, OutboxTellsTheTruth
  <1> QED
    BY <1>1, <1>4, <1>5, NobodyMoves DEF DeliveryInvariant

LEMMA ListKeeps ==
  ASSUME OutboxTypeOK, DeliveryInvariant, NEW d \in Dispatchers, List(d)
  PROVE  Grows /\ DeliveryInvariant'
  <1>1. item.attempts \in Nat /\ item.status # "absent" /\ recorded' = recorded
    BY DEF OutboxTypeOK, Item, List, Free
  <1>2. CASE Backend = "memory"
    <2>1. Take(d, item.attempts)
      BY <1>2 DEF List
    <2> QED
      BY <1>1, <2>1, TakeKnows
  <1>3. CASE Backend # "memory"
    <2>1. item' = item /\ dis' = [dis EXCEPT ![d] = [pc |-> "claim", seen |-> item.attempts]]
      BY <1>3 DEF List
    <2>2. dis'[d] = [pc |-> "claim", seen |-> item.attempts]
          /\ \A o \in Dispatchers \ {d} : dis'[o] = dis[o]
      BY <2>1 DEF OutboxTypeOK
    <2>3. dis' \in [Dispatchers -> Dispatcher]
      BY <1>1, <2>1, HandType DEF OutboxTypeOK
    <2>4. Grows
      BY <1>1, <2>1, <2>3 DEF Grows, OutboxTypeOK
    <2>5. Knows(d)'
      BY <1>1, <2>1, <2>2 DEF Knows
    <2>6. Tells'
      BY <1>1, <2>1 DEF DeliveryInvariant, Tells, OutboxTellsTheTruth
    <2> QED
      BY <2>2, <2>4, <2>5, <2>6, OneMoves DEF DeliveryInvariant
  <1> QED
    BY <1>2, <1>3

LEMMA ClaimKeeps ==
  ASSUME OutboxTypeOK, DeliveryInvariant, NEW d \in Dispatchers, Claim(d)
  PROVE  Grows /\ DeliveryInvariant'
  <1>1. dis[d].seen \in Nat /\ item.attempts \in Nat
    BY DEF OutboxTypeOK, Dispatcher, Item
  <1>2. dis[d].seen <= item.attempts /\ recorded' = recorded
    BY DEF Claim, DeliveryInvariant, Knows
  <1>3. CASE Take(d, dis[d].seen)
    BY <1>1, <1>2, <1>3, TakeKnows
  <1>4. CASE Stop(d) /\ item' = item
    <2>1. Grows
      BY <1>1, <1>2, <1>4, StopType DEF Grows, OutboxTypeOK
    <2>2. Tells'
      BY <1>2, <1>4 DEF DeliveryInvariant, Tells, OutboxTellsTheTruth
    <2> QED
      BY <1>4, <2>1, <2>2, Rested
  <1> QED
    BY <1>3, <1>4 DEF Claim

LEMMA RecordKeeps ==
  ASSUME OutboxTypeOK, DeliveryInvariant, NEW d \in Dispatchers,
         RecordActivityEvent(d) \/ RecordRaises(d)
  PROVE  Grows /\ DeliveryInvariant'
  <1>1. PICK pc \in {"settle", "fail"} : Goto(d, pc) /\ (pc = "settle" => recorded')
    BY DEF RecordActivityEvent, RecordRaises
  <1>2. item' = item /\ (recorded => recorded') /\ recorded' \in BOOLEAN
        /\ dis[d].pc = "record"
    BY DEF RecordActivityEvent, RecordRaises, OutboxTypeOK
  <1>3. /\ dis'[d].pc = pc /\ dis'[d].seen = dis[d].seen
        /\ \A o \in Dispatchers \ {d} : dis'[o] = dis[o]
    BY <1>1, GotoOnly
  <1>4. dis' \in [Dispatchers -> Dispatcher]
    BY <1>1, GotoType DEF Goto, OutboxTypeOK
  <1>5. Grows
    BY <1>2, <1>4 DEF Grows, OutboxTypeOK, Item
  <1>6. Knows(d)'
    BY <1>1, <1>2, <1>3 DEF DeliveryInvariant, Knows
  <1>7. Tells'
    BY <1>2 DEF DeliveryInvariant, Tells, OutboxTellsTheTruth
  <1> QED
    BY <1>3, <1>5, <1>6, <1>7, OneMoves DEF DeliveryInvariant

LEMMA CompleteKeeps ==
  ASSUME OutboxTypeOK, DeliveryInvariant, NEW d \in Dispatchers,
         Complete(d) \/ CompletionRaises(d)
  PROVE  Grows /\ DeliveryInvariant'
  <1>1. CASE Complete(d)
    <2>1. dis' \in [Dispatchers -> Dispatcher]
      BY <1>1, StopType DEF Complete, OutboxTypeOK
    <2>2. Grows /\ Tells'
      BY <1>1, <2>1, SettledTells DEF Complete
    <2> QED
      BY <1>1, <2>2, Rested DEF Complete
  <1>2. CASE CompletionRaises(d)
    <2>1. dis' \in [Dispatchers -> Dispatcher]
      BY <1>2, GotoType DEF CompletionRaises, Goto, OutboxTypeOK
    <2>2. Grows /\ Tells' /\ item'.attempts = item.attempts
      BY <1>2, <2>1, SettledTells DEF CompletionRaises
    <2>3. /\ dis'[d].pc = "fail" /\ dis'[d].seen = dis[d].seen
          /\ \A o \in Dispatchers \ {d} : dis'[o] = dis[o]
      BY <1>2, GotoOnly DEF CompletionRaises
    <2>4. Knows(d)'
      BY <1>2, <2>2, <2>3 DEF CompletionRaises, DeliveryInvariant, Knows, Grows
    <2> QED
      BY <2>2, <2>3, <2>4, OneMoves DEF DeliveryInvariant
  <1> QED
    BY <1>1, <1>2

LEMMA FailKeeps ==
  ASSUME OutboxTypeOK, DeliveryInvariant, NEW d \in Dispatchers, Fail(d)
  PROVE  Grows /\ DeliveryInvariant'
  <1>1. dis[d].pc = "fail" /\ Stop(d) /\ recorded' = recorded
    BY DEF Fail
  <1>2. item.attempts \in Nat /\ item \in Item /\ recorded \in BOOLEAN
        /\ item.status # "absent"
    BY <1>1 DEF OutboxTypeOK, Item, DeliveryInvariant, Knows
  <1>3. dis' \in [Dispatchers -> Dispatcher]
    BY <1>1, StopType DEF OutboxTypeOK
  <1>4. Grows /\ Tells'
    <2>1. CASE item' = item
      BY <1>1, <1>2, <1>3, <2>1 DEF Grows, DeliveryInvariant, Tells, OutboxTellsTheTruth
    <2>2. CASE item' # item
      <3>1. PICK status \in {"failed", "pending"} :
              /\ item' = [Settled(status) EXCEPT !.wait = TRUE]
              /\ status = "failed" => Spent(d)
        BY <2>2 DEF Fail
      <3>2. item' \in Item /\ item'.status = status /\ item'.attempts = item.attempts
        BY <3>1, SettledType
      <3>3. status = "failed" => item.attempts >= MaxAttempts
        BY <1>1, <3>1, SpentIsSpent
      <3> QED
        BY <1>1, <1>2, <1>3, <3>2, <3>3 DEF Grows, Tells, OutboxTellsTheTruth
    <2> QED
      BY <2>1, <2>2
  <1> QED
    BY <1>1, <1>4, Rested

LEMMA DieKeeps ==
  ASSUME OutboxTypeOK, DeliveryInvariant, NEW d \in Dispatchers, Die(d)
  PROVE  Grows /\ DeliveryInvariant'
  <1>1. Stop(d) /\ recorded' = recorded
        /\ item' \in Item /\ item'.status = item.status /\ item'.attempts = item.attempts
    BY DEF Die, OutboxTypeOK, Item
  <1>2. Grows
    BY <1>1, StopType DEF Grows, OutboxTypeOK, Item
  <1>3. Tells'
    BY <1>1 DEF DeliveryInvariant, Tells, OutboxTellsTheTruth
  <1> QED
    BY <1>1, <1>2, <1>3, Rested

LEMMA TimeKeeps ==
  ASSUME OutboxTypeOK, DeliveryInvariant, LeaseExpires \/ BackoffElapses \/ UNCHANGED ovars
  PROVE  Grows /\ DeliveryInvariant'
  <1>1. dis' = dis /\ recorded' = recorded
        /\ item' \in Item /\ item'.status = item.status /\ item'.attempts = item.attempts
    BY DEF LeaseExpires, BackoffElapses, ovars, OutboxTypeOK, Item
  <1>2. Grows
    BY <1>1 DEF Grows, OutboxTypeOK, Item
  <1>3. Tells'
    BY <1>1 DEF DeliveryInvariant, Tells, OutboxTellsTheTruth
  <1> QED
    BY <1>1, <1>2, <1>3, NobodyMoves DEF DeliveryInvariant

-----------------------------------------------------------------------------
(* Every step of the outbox keeps both.                                    *)
LEMMA OutboxStep ==
  ASSUME OutboxTypeOK, DeliveryInvariant, [Next]_ovars
  PROVE  Grows /\ DeliveryInvariant'
  <1>1. CASE \E d \in Dispatchers : Dispatch(d)
    <2>1. PICK d \in Dispatchers : Dispatch(d)
      BY <1>1
    <2> QED
      BY <2>1, ListKeeps, ClaimKeeps, RecordKeeps, CompleteKeeps, FailKeeps, DieKeeps
      DEF Dispatch
  <1>2. CASE \/ TagOperation \/ StageOutboxEvent
             \/ LeaseExpires \/ BackoffElapses \/ UNCHANGED ovars
    BY <1>2, StagingKeeps, TimeKeeps
  <1> QED
    BY <1>1, <1>2 DEF Next

LEMMA OutboxInit ==
  ASSUME Init
  PROVE  OutboxTypeOK /\ DeliveryInvariant
  <1>1. item \in Item /\ item.status = "absent" /\ item.attempts = 0
    BY DEF Init, Staged, Item, OutboxStatus
  <1>2. recorded = FALSE /\ dis \in [Dispatchers -> Dispatcher]
        /\ \A d \in Dispatchers : dis[d].pc = "idle"
    BY DEF Init, Resting, Dispatcher
  <1> QED
    BY <1>1, <1>2 DEF OutboxTypeOK, DeliveryInvariant, Knows, Tells, OutboxTellsTheTruth

(* Every reachable state is well typed, and in it every dispatcher knows   *)
(* what the invariant says (dispatch_outbox_events).                       *)
THEOREM OutboxCorrect == Spec => [](OutboxTypeOK /\ DeliveryInvariant)
  <1>1. Init => OutboxTypeOK /\ DeliveryInvariant
    BY OutboxInit
  <1>2. OutboxTypeOK /\ DeliveryInvariant /\ [Next]_ovars
          => (OutboxTypeOK /\ DeliveryInvariant)'
    BY OutboxStep DEF OutboxTypeOK, Grows
  <1> QED
    BY <1>1, <1>2, PTL DEF Spec

(* A published event was recorded, and one that was given up was claimed   *)
(* max_attempts times, whoever counted (complete_tx, fail_tx).             *)
THEOREM OutboxIsTruthful == Spec => []OutboxTellsTheTruth
  <1>1. DeliveryInvariant => OutboxTellsTheTruth
    BY DEF DeliveryInvariant, Tells
  <1> QED
    BY <1>1, OutboxCorrect, PTL

-----------------------------------------------------------------------------
(* A settled entry passes no fence and is not free, so no step reaches it. *)
LEMMA SettledStays ==
  ASSUME OutboxTypeOK, item.status \in {"published", "failed"}, Next
  PROVE  item'.status = item.status
  <1>1. ~Free /\ item.status # "absent" /\ \A d \in Dispatchers : ~Fenced(d)
    BY DEF Free, Fenced
  <1>2. CASE \E d \in Dispatchers : List(d) \/ Claim(d)
    BY <1>1, <1>2 DEF List, Claim
  <1>3. CASE \E d \in Dispatchers : RecordActivityEvent(d) \/ RecordRaises(d)
    BY <1>3 DEF RecordActivityEvent, RecordRaises
  <1>4. CASE \E d \in Dispatchers : Complete(d) \/ CompletionRaises(d) \/ Fail(d)
    BY <1>1, <1>4 DEF Complete, CompletionRaises, Fail
  <1>5. CASE (\E d \in Dispatchers : Die(d)) \/ LeaseExpires \/ BackoffElapses
    BY <1>5 DEF Die, LeaseExpires, BackoffElapses, OutboxTypeOK, Item
  <1>6. CASE TagOperation \/ StageOutboxEvent
    BY <1>1, <1>6 DEF TagOperation, StageOutboxEvent
  <1> QED
    BY <1>2, <1>3, <1>4, <1>5, <1>6 DEF Next, Dispatch

(* An entry that was published or given up stays so.                       *)
THEOREM SettledForGood == Spec => SettledIsFinal
  <1>1. OutboxTypeOK /\ [Next]_ovars =>
          [item.status \in {"published", "failed"} => item'.status = item.status]_ovars
    BY SettledStays
  <1> QED
    BY <1>1, OutboxCorrect, PTL DEF Spec, SettledIsFinal

-----------------------------------------------------------------------------
(* Step by step, the outbox does what EventDelivery allows.                *)
LEMMA TakeIsTry ==
  ASSUME OutboxTypeOK, NEW d \in Dispatchers, NEW n \in Nat, Take(d, n), Free,
         recorded' = recorded
  PROVE  Delivery!Try
  <1>1. item'.status = "in_progress" /\ item'.attempts = item.attempts + 1
    BY TakeStep
  <1> QED
    BY <1>1 DEF Free, Delivery!Try, StageOfItem

LEMMA DispatchDelivers ==
  ASSUME OutboxTypeOK, DeliveryInvariant, NEW d \in Dispatchers, Dispatch(d)
  PROVE  Delivery!Next \/ UNCHANGED Delivery!evars
  <1>1. item.attempts \in Nat /\ dis[d].seen \in Nat /\ Knows(d)
    BY DEF OutboxTypeOK, Item, Dispatcher, DeliveryInvariant
  <1>2. CASE List(d)
    BY <1>1, <1>2, TakeIsTry DEF List, Delivery!Next, Delivery!evars, StageOfItem
  <1>3. CASE Claim(d)
    BY <1>1, <1>3, TakeIsTry DEF Claim, Delivery!Next, Delivery!evars, StageOfItem
  <1>4. CASE RecordActivityEvent(d) \/ RecordRaises(d)
    <2>1. item' = item /\ item.status # "absent" /\ recorded' \in {recorded, TRUE}
      BY <1>1, <1>4 DEF RecordActivityEvent, RecordRaises, Knows
    <2> QED
      BY <2>1 DEF Delivery!Next, Delivery!Record, Delivery!evars, StageOfItem
  <1>5. CASE Complete(d) \/ CompletionRaises(d)
    <2>1. recorded /\ recorded' = recorded
      BY <1>1, <1>5 DEF Complete, CompletionRaises, Knows
    <2>2. CASE item' = item
      BY <2>1, <2>2 DEF Delivery!evars, StageOfItem
    <2>3. CASE item' # item
      <3>1. Fenced(d) /\ item' = Settled("published")
        BY <1>5, <2>3 DEF Complete, CompletionRaises
      <3>2. item'.status = "published" /\ item'.attempts = item.attempts
        BY <3>1, SettledType
      <3> QED
        BY <2>1, <3>1, <3>2 DEF Fenced, Delivery!Next, Delivery!Publish, StageOfItem
    <2> QED
      BY <2>2, <2>3
  <1>6. CASE Fail(d)
    <2>1. recorded' = recorded /\ dis[d].pc = "fail"
      BY <1>6 DEF Fail
    <2>2. CASE item' = item
      BY <2>1, <2>2 DEF Delivery!evars, StageOfItem
    <2>3. CASE item' # item
      <3>1. PICK status \in {"failed", "pending"} :
              /\ Fenced(d) /\ item' = [Settled(status) EXCEPT !.wait = TRUE]
              /\ status = "failed" => Spent(d)
        BY <1>6, <2>3 DEF Fail
      <3>2. item'.status = status /\ item'.attempts = item.attempts
        BY <3>1, SettledType
      <3>3. status = "failed" => item.attempts >= MaxAttempts
        BY <2>1, <3>1, SpentIsSpent
      <3> QED
        BY <2>1, <3>1, <3>2, <3>3
        DEF Fenced, Delivery!Next, Delivery!GiveUp, Delivery!evars, StageOfItem
    <2> QED
      BY <2>2, <2>3
  <1>7. CASE Die(d)
    BY <1>7 DEF Die, OutboxTypeOK, Item, Delivery!evars, StageOfItem
  <1> QED
    BY <1>2, <1>3, <1>4, <1>5, <1>6, <1>7 DEF Dispatch

(* The outbox implements EventDelivery: an event is staged once, published *)
(* when it is recorded, and given up after max_attempts claims, whatever   *)
(* leases, listings and deaths lie in between.                             *)
THEOREM OutboxDelivers == Spec => DeliveryIsImplemented
  <1>1. Init => Delivery!Init
    BY DEF Init, Staged, Delivery!Init, StageOfItem
  <1>2. OutboxTypeOK /\ DeliveryInvariant /\ [Next]_ovars => [Delivery!Next]_(Delivery!evars)
    <2> SUFFICES ASSUME OutboxTypeOK, DeliveryInvariant, [Next]_ovars
                 PROVE  Delivery!Next \/ UNCHANGED Delivery!evars
      OBVIOUS
    <2>1. CASE TagOperation \/ StageOutboxEvent
      <3>1. item.status = "absent" /\ item' = Staged /\ recorded' \in BOOLEAN
        BY <2>1 DEF TagOperation, StageOutboxEvent, OutboxTypeOK
      <3>2. item.attempts = 0
        BY <3>1 DEF DeliveryInvariant, Tells
      <3> QED
        BY <3>1, <3>2, StagedType DEF Delivery!Next, Delivery!Stage, StageOfItem
    <2>2. CASE \E d \in Dispatchers : Dispatch(d)
      BY <2>2, DispatchDelivers
    <2>3. CASE LeaseExpires \/ BackoffElapses \/ UNCHANGED ovars
      BY <2>3 DEF LeaseExpires, BackoffElapses, ovars, OutboxTypeOK, Item,
                  Delivery!evars, StageOfItem
    <2> QED
      BY <2>1, <2>2, <2>3 DEF Next
  <1> QED
    BY <1>1, <1>2, OutboxCorrect, PTL DEF Spec, DeliveryIsImplemented, Delivery!Spec

-----------------------------------------------------------------------------
(***************************************************************************)
(* The diagnosis of a Run, for every number of processes, generations and  *)
(* revisions: whatever a caller is told of was committed, and a call that  *)
(* claims never commits over a diagnosis of its own generation.            *)
(* DiagnosisInvariant says why comparing the revision is enough for the    *)
(* second: the revision a call read is never ahead of the Run's, and as    *)
(* long as it is the Run's, nobody has diagnosed since the call looked.    *)
(***************************************************************************)
(* A call never knows more than the Run.                                   *)
Behind(p) == call[p].gen <= run.gen /\ call[p].rev <= run.rev

(* A claiming call that looked, found nothing and is still up to date.     *)
Undiagnosed(p) ==
    call[p].claims /\ call[p].pc \in {"claim", "poll", "engine", "commit"}
        /\ call[p].rev = run.rev => run.latest # call[p].gen

(* The claim a call goes on with is of the generation it diagnoses.        *)
Matching(p) ==
    call[p].claims /\ call[p].pc \in {"engine", "commit"} /\ HoldsClaim(p)
        => claim.gen = call[p].gen

DiagnosisInvariant ==
    /\ RememberedIsCommitted
    /\ run.latest <= run.gen
    /\ \A p \in Processes :
          /\ call[p].pc # "idle" => call[p].gen \in Generations
          /\ Behind(p) /\ Undiagnosed(p) /\ Matching(p)

-----------------------------------------------------------------------------
LEMMA NoCallType == NoCall \in Call
  BY DEF NoCall, Call

LEMMA ReturnStep ==
  ASSUME DiagnosisTypeOK, NEW p \in Processes, call' = Return(p)
  PROVE  /\ call' \in [Processes -> Call]
         /\ call'[p].pc = "idle" /\ ~call'[p].claims /\ call'[p].gen = 0 /\ call'[p].rev = 0
         /\ \A q \in Processes \ {p} : call'[q] = call[q]
  <1>1. NoCall.pc = "idle" /\ ~NoCall.claims /\ NoCall.gen = 0 /\ NoCall.rev = 0
    BY DEF NoCall
  <1> QED
    BY <1>1, NoCallType DEF DiagnosisTypeOK, Return

LEMMA GotoStep ==
  ASSUME DiagnosisTypeOK, NEW p \in Processes, NEW pc, call' = GoOn(p, pc),
         pc \in {"claim", "poll", "engine", "commit", "fail"}
  PROVE  /\ call' \in [Processes -> Call]
         /\ call'[p].pc = pc /\ call'[p].claims = call[p].claims
         /\ call'[p].gen = call[p].gen /\ call'[p].rev = call[p].rev
         /\ \A q \in Processes \ {p} : call'[q] = call[q]
  BY DEF DiagnosisTypeOK, GoOn, Call

LEMMA RememberStep ==
  ASSUME DiagnosisTypeOK, NEW p \in Processes, call[p].gen \in docs, 
         RememberedIsCommitted
  PROVE  /\ Remember(p) \in [Processes -> SUBSET Generations]
         /\ \A q \in Processes : Remember(p)[q] \subseteq docs
  BY DEF DiagnosisTypeOK, RememberedIsCommitted, Remember

LEMMA InitDiagnosis ==
  ASSUME DiagnosisInit PROVE DiagnosisTypeOK /\ DiagnosisInvariant
  <1>1. 1 \in Generations
    BY DiagnosisAssumption DEF Generations
  <1>2. run = [gen |-> 1, rev |-> 0, latest |-> 0] /\ docs = {}
        /\ claim = [status |-> "none", gen |-> 0, holder |-> Nobody, live |-> FALSE]
        /\ call = [p \in Processes |-> NoCall] /\ cache = [p \in Processes |-> {}]
        /\ troubles = 0
    BY DEF DiagnosisInit
  <1>3. run \in Run /\ claim \in DiagnosisClaim
    BY <1>1, <1>2 DEF Run, DiagnosisClaim
  <1>4. call \in [Processes -> Call] /\ cache \in [Processes -> SUBSET Generations]
    BY <1>2, NoCallType
  <1>5. \A p \in Processes : call[p].pc = "idle" /\ ~call[p].claims /\ call[p].gen = 0
                             /\ call[p].rev = 0
    BY <1>2 DEF NoCall
  <1>6. DiagnosisTypeOK
    BY <1>2, <1>3, <1>4, DiagnosisAssumption DEF DiagnosisTypeOK
  <1>7. RememberedIsCommitted
    BY <1>2 DEF RememberedIsCommitted
  <1> QED
    BY <1>2, <1>5, <1>6, <1>7 DEF DiagnosisInvariant, Behind, Undiagnosed, Matching

-----------------------------------------------------------------------------
(* A step in which the Run stays, whatever is remembered was committed,    *)
(* and a call that goes on looked before: the invariant stays.             *)
LEMMA CallKeeps ==
  ASSUME DiagnosisTypeOK, DiagnosisInvariant, NEW p \in Processes,
         RememberedIsCommitted', UNCHANGED run,
         \A q \in Processes \ {p} : call'[q] = call[q] /\ (Matching(q) => Matching(q)'),
         call'[p].pc # "idle" => call'[p].gen \in Generations,
         Behind(p)', Undiagnosed(p)', Matching(p)'
  PROVE  DiagnosisInvariant'
  <1>1. run' = run
    OBVIOUS
  <1>2. ASSUME NEW q \in Processes \ {p}
        PROVE  /\ call'[q].pc # "idle" => call'[q].gen \in Generations
               /\ Behind(q)' /\ Undiagnosed(q)' /\ Matching(q)'
    BY <1>1 DEF DiagnosisInvariant, Behind, Undiagnosed
  <1> QED
    BY <1>1, <1>2 DEF DiagnosisInvariant

(* Returning is always safe.                                               *)
LEMMA ReturnKeeps ==
  ASSUME DiagnosisTypeOK, DiagnosisInvariant, NEW p \in Processes, call' = Return(p),
         RememberedIsCommitted', UNCHANGED run,
         \A q \in Processes \ {p} : Matching(q) => Matching(q)'
  PROVE  DiagnosisInvariant'
  <1>1. /\ call'[p].pc = "idle" /\ ~call'[p].claims /\ call'[p].gen = 0 /\ call'[p].rev = 0
        /\ \A q \in Processes \ {p} : call'[q] = call[q]
    BY ReturnStep
  <1>2. run.gen \in Nat /\ run.rev \in Nat
    BY DEF DiagnosisTypeOK, Run, Generations
  <1>3. Behind(p)' /\ Undiagnosed(p)' /\ Matching(p)'
    BY <1>1, <1>2 DEF Behind, Undiagnosed, Matching
  <1> QED
    BY <1>1, <1>3, CallKeeps

LEMMA BeginStep ==
  ASSUME DiagnosisTypeOK, DiagnosisInvariant, NEW p \in Processes, NEW claims \in BOOLEAN,
         Begin(p, claims)
  PROVE  DiagnosisTypeOK' /\ DiagnosisInvariant' /\ UNCHANGED run
  <1> DEFINE pc == IF claims THEN "lookup" ELSE "engine"
             c == [pc |-> pc, claims |-> claims, gen |-> run.gen, rev |-> run.rev]
  <1>1. call' = [call EXCEPT ![p] = c] /\ UNCHANGED <<run, docs, claim, cache, troubles>>
    BY DEF Begin
  <1>2. run.gen \in Generations /\ run.rev \in Nat /\ run.gen \in Nat
    BY DEF DiagnosisTypeOK, Run, Generations
  <1>3. /\ c \in Call /\ c.gen = run.gen /\ c.rev = run.rev /\ c.claims = claims
        /\ claims => c.pc = "lookup"
    BY <1>2 DEF Call
  <1> HIDE DEF c
  <1>4. /\ call' \in [Processes -> Call] /\ call'[p] = c
        /\ \A q \in Processes \ {p} : call'[q] = call[q]
    BY <1>1, <1>3 DEF DiagnosisTypeOK
  <1>5. DiagnosisTypeOK' /\ RememberedIsCommitted'
    BY <1>1, <1>4 DEF DiagnosisTypeOK, DiagnosisInvariant, RememberedIsCommitted
  <1>6. Behind(p)' /\ Undiagnosed(p)' /\ Matching(p)'
    BY <1>1, <1>2, <1>3, <1>4 DEF Behind, Undiagnosed, Matching
  <1>7. \A q \in Processes \ {p} : Matching(q) => Matching(q)'
    BY <1>1, <1>4 DEF Matching, HoldsClaim
  <1> QED
    BY <1>1, <1>2, <1>3, <1>4, <1>5, <1>6, <1>7, CallKeeps

(* A call that found or was told of a document remembers it.               *)
LEMMA TellStep ==
  ASSUME DiagnosisTypeOK, DiagnosisInvariant, NEW p \in Processes, call' = Return(p),
         call[p].gen \in docs, cache' = Remember(p), UNCHANGED <<run, docs, claim, troubles>>
  PROVE  DiagnosisTypeOK' /\ DiagnosisInvariant'
  <1>1. cache' \in [Processes -> SUBSET Generations] /\ \A q \in Processes : cache'[q] \subseteq docs
    BY RememberStep DEF DiagnosisInvariant
  <1>2. DiagnosisTypeOK' /\ RememberedIsCommitted'
    BY <1>1, ReturnStep DEF DiagnosisTypeOK, DiagnosisInvariant, RememberedIsCommitted
  <1>3. \A q \in Processes \ {p} : Matching(q) => Matching(q)'
    BY ReturnStep DEF Matching, HoldsClaim
  <1> QED
    BY <1>2, <1>3, ReturnKeeps

LEMMA LookupStep ==
  ASSUME DiagnosisTypeOK, DiagnosisInvariant, NEW p \in Processes, GetDiagnosis(p)
  PROVE  DiagnosisTypeOK' /\ DiagnosisInvariant' /\ UNCHANGED run
  <1>1. CASE Found(p)
    <2>1. call[p].gen \in docs
      BY <1>1 DEF GetDiagnosis, Found, DiagnosisInvariant, RememberedIsCommitted, Generations
    <2> QED
      BY <1>1, <2>1, TellStep DEF GetDiagnosis
  <1>2. CASE ~Found(p)
    <2>1. /\ call[p].pc = "lookup" /\ call' = GoOn(p, "claim")
          /\ UNCHANGED <<run, docs, claim, cache, troubles>>
      BY <1>2 DEF GetDiagnosis
    <2>2. /\ call' \in [Processes -> Call] /\ call'[p].pc = "claim"
          /\ call'[p].gen = call[p].gen /\ call'[p].rev = call[p].rev
          /\ \A q \in Processes \ {p} : call'[q] = call[q]
      BY <2>1, GotoStep
    <2>3. DiagnosisTypeOK' /\ RememberedIsCommitted'
      BY <2>1, <2>2 DEF DiagnosisTypeOK, DiagnosisInvariant, RememberedIsCommitted
    <2>4. Behind(p)' /\ Undiagnosed(p)' /\ Matching(p)'
      BY <1>2, <2>1, <2>2 DEF DiagnosisInvariant, Behind, Undiagnosed, Matching, Found
    <2>5. \A q \in Processes \ {p} : Matching(q) => Matching(q)'
      BY <2>1, <2>2 DEF Matching, HoldsClaim
    <2>6. call'[p].gen \in Generations
      BY <2>1, <2>2 DEF DiagnosisInvariant
    <2> QED
      BY <2>1, <2>2, <2>3, <2>4, <2>5, <2>6, CallKeeps
  <1> QED
    BY <1>1, <1>2 DEF GetDiagnosis

LEMMA ClaimStep ==
  ASSUME DiagnosisTypeOK, DiagnosisInvariant, NEW p \in Processes, ClaimRunDiagnosis(p)
  PROVE  DiagnosisTypeOK' /\ DiagnosisInvariant' /\ UNCHANGED run
  <1>1. call[p].pc = "claim" /\ UNCHANGED <<run, docs, troubles>>
    BY DEF ClaimRunDiagnosis
  <1>2. call[p].gen \in Generations
    BY <1>1 DEF DiagnosisInvariant
  <1>3. CASE call' = Return(p) /\ UNCHANGED <<claim, cache>>
    <2>1. DiagnosisTypeOK' /\ RememberedIsCommitted'
      BY <1>1, <1>3, ReturnStep DEF DiagnosisTypeOK, DiagnosisInvariant, RememberedIsCommitted
    <2>2. \A q \in Processes \ {p} : Matching(q) => Matching(q)'
      BY <1>3, ReturnStep DEF Matching, HoldsClaim
    <2> QED
      BY <1>1, <1>3, <2>1, <2>2, ReturnKeeps
  <1>4. CASE Done(p) /\ call' = Return(p) /\ cache' = Remember(p) /\ UNCHANGED claim
    BY <1>1, <1>4, TellStep DEF Done
  <1>5. CASE call' = GoOn(p, "poll") /\ UNCHANGED <<claim, cache>>
    <2>1. /\ call' \in [Processes -> Call] /\ call'[p].pc = "poll"
          /\ call'[p].claims = call[p].claims
          /\ call'[p].gen = call[p].gen /\ call'[p].rev = call[p].rev
          /\ \A q \in Processes \ {p} : call'[q] = call[q]
      BY <1>5, GotoStep
    <2>2. DiagnosisTypeOK' /\ RememberedIsCommitted'
      BY <1>1, <1>5, <2>1 DEF DiagnosisTypeOK, DiagnosisInvariant, RememberedIsCommitted
    <2>3. Behind(p)' /\ Undiagnosed(p)' /\ Matching(p)'
      BY <1>1, <2>1 DEF DiagnosisInvariant, Behind, Undiagnosed, Matching
    <2>4. \A q \in Processes \ {p} : Matching(q) => Matching(q)'
      BY <1>5, <2>1 DEF Matching, HoldsClaim
    <2> QED
      BY <1>1, <1>2, <2>1, <2>2, <2>3, <2>4, CallKeeps
  <1>6. CASE /\ claim' = [status |-> "running", gen |-> call[p].gen, holder |-> p, live |-> TRUE]
             /\ call' = GoOn(p, "engine") /\ UNCHANGED cache
    <2>1. /\ call' \in [Processes -> Call] /\ call'[p].pc = "engine"
          /\ call'[p].claims = call[p].claims
          /\ call'[p].gen = call[p].gen /\ call'[p].rev = call[p].rev
          /\ \A q \in Processes \ {p} : call'[q] = call[q]
      BY <1>6, GotoStep
    <2>2. /\ claim' \in DiagnosisClaim /\ claim'.status = "running" /\ claim'.gen = call[p].gen
          /\ claim'.holder = p
      BY <1>2, <1>6 DEF DiagnosisClaim
    <2>3. DiagnosisTypeOK' /\ RememberedIsCommitted'
      BY <1>1, <1>6, <2>1, <2>2 DEF DiagnosisTypeOK, DiagnosisInvariant, RememberedIsCommitted
    <2>4. Behind(p)' /\ Undiagnosed(p)' /\ Matching(p)'
      BY <1>1, <2>1, <2>2 DEF DiagnosisInvariant, Behind, Undiagnosed, Matching
    <2>5. \A q \in Processes \ {p} : Matching(q)'
      BY <2>1, <2>2 DEF Matching, HoldsClaim
    <2> QED
      BY <1>1, <1>2, <2>1, <2>3, <2>4, <2>5, CallKeeps
  <1> QED
    BY <1>3, <1>4, <1>5, <1>6 DEF ClaimRunDiagnosis

LEMMA PollStep ==
  ASSUME DiagnosisTypeOK, DiagnosisInvariant, NEW p \in Processes, Poll(p)
  PROVE  DiagnosisTypeOK' /\ DiagnosisInvariant' /\ UNCHANGED run
  <1>1. /\ call[p].pc = "poll" /\ call' = Return(p)
        /\ cache' = cache \/ (Found(p) /\ cache' = Remember(p))
        /\ UNCHANGED <<run, docs, claim, troubles>>
    BY DEF Poll
  <1>2. CASE cache' = cache
    <2>1. DiagnosisTypeOK' /\ RememberedIsCommitted'
      BY <1>1, <1>2, ReturnStep DEF DiagnosisTypeOK, DiagnosisInvariant, RememberedIsCommitted
    <2>2. \A q \in Processes \ {p} : Matching(q) => Matching(q)'
      BY <1>1, ReturnStep DEF Matching, HoldsClaim
    <2> QED
      BY <1>1, <2>1, <2>2, ReturnKeeps
  <1>3. CASE Found(p) /\ cache' = Remember(p)
    <2>1. call[p].gen \in docs
      BY <1>1, <1>3 DEF Found, DiagnosisInvariant, RememberedIsCommitted, Generations
    <2> QED
      BY <1>1, <1>3, <2>1, TellStep
  <1> QED
    BY <1>1, <1>2, <1>3

-----------------------------------------------------------------------------
(* A call that goes on to commit or to its failure, or is over.            *)
LEMMA MoveStep ==
  ASSUME DiagnosisTypeOK, DiagnosisInvariant, NEW p \in Processes,
         call[p].pc \in {"engine", "commit"},
         \/ call[p].pc = "engine" /\ call' = GoOn(p, "commit")
         \/ call' = GoOn(p, "fail") \/ call' = Return(p),
         UNCHANGED <<run, docs, claim, cache>>, troubles' \in 0..MaxTroubles
  PROVE  DiagnosisTypeOK' /\ DiagnosisInvariant'
  <1>1. CASE call' = Return(p)
    <2>1. DiagnosisTypeOK' /\ RememberedIsCommitted'
      BY <1>1, ReturnStep DEF DiagnosisTypeOK, DiagnosisInvariant, RememberedIsCommitted
    <2>2. \A q \in Processes \ {p} : Matching(q) => Matching(q)'
      BY <1>1, ReturnStep DEF Matching, HoldsClaim
    <2> QED
      BY <1>1, <2>1, <2>2, ReturnKeeps
  <1>2. ASSUME NEW pc \in {"commit", "fail"}, call' = GoOn(p, pc),
               pc = "commit" => call[p].pc = "engine"
        PROVE  DiagnosisTypeOK' /\ DiagnosisInvariant'
    <2>1. /\ call' \in [Processes -> Call] /\ call'[p].pc = pc
          /\ call'[p].claims = call[p].claims
          /\ call'[p].gen = call[p].gen /\ call'[p].rev = call[p].rev
          /\ \A q \in Processes \ {p} : call'[q] = call[q]
      BY <1>2, GotoStep
    <2>2. DiagnosisTypeOK' /\ RememberedIsCommitted'
      BY <2>1 DEF DiagnosisTypeOK, DiagnosisInvariant, RememberedIsCommitted
    <2>3. Behind(p)' /\ Undiagnosed(p)'
      BY <1>2, <2>1 DEF DiagnosisInvariant, Behind, Undiagnosed
    <2>4. Matching(p)'
      BY <1>2, <2>1 DEF DiagnosisInvariant, Matching, HoldsClaim
    <2>5. \A q \in Processes \ {p} : Matching(q) => Matching(q)'
      BY <2>1 DEF Matching, HoldsClaim
    <2>6. call'[p].gen \in Generations
      BY <2>1 DEF DiagnosisInvariant
    <2> QED
      BY <2>1, <2>2, <2>3, <2>4, <2>5, <2>6, CallKeeps
  <1> QED
    BY <1>1, <1>2

(* The commit itself: a new revision, which every call that had read the   *)
(* old one can see.                                                        *)
LEMMA CommittedStep ==
  ASSUME DiagnosisTypeOK, DiagnosisInvariant, NEW p \in Processes,
         call[p].pc = "commit", AsRead(p), call[p].claims => HoldsClaim(p), Committed(p),
         call' = Return(p) \/ call' = GoOn(p, "fail"),
         cache' = cache \/ cache' = Remember(p), troubles' \in 0..MaxTroubles
  PROVE  /\ DiagnosisTypeOK' /\ DiagnosisInvariant'
         /\ run'.latest = run.gen /\ (call[p].claims => run.latest # run.gen)
  <1>1. /\ run' = [run EXCEPT !.rev = @ + 1, !.latest = call[p].gen]
        /\ docs' = docs \cup {call[p].gen}
        /\ claim' = IF call[p].claims
                    THEN [claim EXCEPT !.status = "completed", !.live = FALSE] ELSE claim
    BY DEF Committed
  <1>2. run \in Run /\ run.gen \in Nat /\ run.rev \in Nat /\ run.gen \in Generations
        /\ call[p].gen = run.gen /\ call[p].rev = run.rev
    BY DEF DiagnosisTypeOK, Run, Generations, AsRead
  <1>3. PICK k \in Nat : k = run.rev + 1
    BY <1>2
  <1>4. PICK g \in Generations : g = run.gen
    BY <1>2
  <1>5. /\ run' \in Run /\ run'.rev = k /\ run'.latest = g /\ run'.gen = g
    <2>1. run' = [run EXCEPT !.rev = k, !.latest = g]
      BY <1>1, <1>2, <1>3, <1>4
    <2> QED
      BY <1>2, <1>4, <2>1 DEF Run
  <1>6. docs' = docs \cup {g}
    BY <1>1, <1>2, <1>4
  <1>7. /\ claim' \in DiagnosisClaim /\ claim'.gen = claim.gen
        /\ claim'.status = "running" => claim.status = "running" /\ claim'.holder = claim.holder
        /\ claim'.status = "completed" => claim.status = "completed" \/ call[p].claims
    <2>1. CASE call[p].claims
      <3>1. claim' = [claim EXCEPT !.status = "completed", !.live = FALSE]
        BY <1>1, <2>1
      <3> QED
        BY <2>1, <3>1 DEF DiagnosisTypeOK, DiagnosisClaim
    <2>2. CASE ~call[p].claims
      BY <1>1, <2>2 DEF DiagnosisTypeOK
    <2> QED
      BY <2>1, <2>2
  <1>8. call[p].claims => claim.gen = g
    BY <1>2, <1>4 DEF DiagnosisInvariant, Matching
  <1>9. /\ call' \in [Processes -> Call] /\ call'[p].pc \in {"idle", "fail"}
        /\ call'[p].gen \in {0, call[p].gen} /\ call'[p].rev \in {0, call[p].rev}
        /\ \A q \in Processes \ {p} : call'[q] = call[q]
        /\ call'[p].pc # "idle" => call'[p].gen = call[p].gen
    BY ReturnStep, GotoStep
  <1>10. /\ cache' \in [Processes -> SUBSET Generations]
         /\ \A q \in Processes : cache'[q] \subseteq docs'
    <2>1. CASE cache' = cache
      BY <1>6, <2>1 DEF DiagnosisTypeOK, DiagnosisInvariant, RememberedIsCommitted
    <2>2. CASE cache' = Remember(p)
      BY <1>2, <1>4, <1>6, <2>2
         DEF Remember, DiagnosisTypeOK, DiagnosisInvariant, RememberedIsCommitted
    <2> QED
      BY <2>1, <2>2
  <1>11. DiagnosisTypeOK'
    BY <1>4, <1>5, <1>6, <1>7, <1>9, <1>10 DEF DiagnosisTypeOK
  <1>12. RememberedIsCommitted'
    BY <1>5, <1>6, <1>7, <1>8, <1>10 DEF DiagnosisInvariant, RememberedIsCommitted
  <1>13. ASSUME NEW q \in Processes
         PROVE  /\ call'[q].pc # "idle" => call'[q].gen \in Generations
                /\ Behind(q)' /\ Undiagnosed(q)' /\ Matching(q)'
    <2>1. call[q].gen <= run.gen /\ call[q].rev <= run.rev /\ call[q].rev \in Nat
          /\ call[q].gen \in Nat
      BY DEF DiagnosisInvariant, Behind, DiagnosisTypeOK, Call, Generations
    <2>2. CASE q = p
      BY <1>2, <1>3, <1>4, <1>5, <1>9, <2>1, <2>2 DEF Behind, Undiagnosed, Matching
    <2>3. CASE q # p
      <3>1. call'[q] = call[q]
        BY <1>9, <2>3
      <3>2. Behind(q)' /\ Undiagnosed(q)'
        BY <1>2, <1>3, <1>4, <1>5, <2>1, <3>1 DEF Behind, Undiagnosed
      <3>3. Matching(q)'
        BY <1>7, <3>1 DEF DiagnosisInvariant, Matching, HoldsClaim
      <3> QED
        BY <3>1, <3>2, <3>3 DEF DiagnosisInvariant
    <2> QED
      BY <2>2, <2>3
  <1>14. DiagnosisInvariant'
    BY <1>2, <1>4, <1>5, <1>12, <1>13 DEF DiagnosisInvariant
  <1>15. call[p].claims => run.latest # run.gen
    BY <1>2 DEF DiagnosisInvariant, Undiagnosed
  <1> QED
    BY <1>4, <1>5, <1>11, <1>14, <1>15

LEMMA FailStep ==
  ASSUME DiagnosisTypeOK, DiagnosisInvariant, NEW p \in Processes, FailRunDiagnosisClaim(p)
  PROVE  DiagnosisTypeOK' /\ DiagnosisInvariant' /\ UNCHANGED run
  <1>1. call' = Return(p) /\ UNCHANGED <<run, docs, cache, troubles>>
    BY DEF FailRunDiagnosisClaim
  <1>2. /\ claim' \in DiagnosisClaim /\ claim'.gen = claim.gen
        /\ claim'.status = "running" => claim.status = "running" /\ claim'.holder = claim.holder
        /\ claim'.status = "completed" => claim.status = "completed"
    <2>1. CASE HoldsClaim(p) /\ claim.live
      BY <2>1 DEF FailRunDiagnosisClaim, DiagnosisTypeOK, DiagnosisClaim
    <2>2. CASE ~(HoldsClaim(p) /\ claim.live)
      BY <2>2 DEF FailRunDiagnosisClaim, DiagnosisTypeOK
    <2> QED
      BY <2>1, <2>2
  <1>3. DiagnosisTypeOK' /\ RememberedIsCommitted'
    BY <1>1, <1>2, ReturnStep DEF DiagnosisTypeOK, DiagnosisInvariant, RememberedIsCommitted
  <1>4. \A q \in Processes \ {p} : Matching(q) => Matching(q)'
    BY <1>1, <1>2, ReturnStep DEF Matching, HoldsClaim
  <1> QED
    BY <1>1, <1>3, <1>4, ReturnKeeps

LEMMA DieStep ==
  ASSUME DiagnosisTypeOK, DiagnosisInvariant, NEW p \in Processes,
         ProcessDies(p)
  PROVE  DiagnosisTypeOK' /\ DiagnosisInvariant' /\ UNCHANGED run
  <1>1. /\ call' = Return(p) /\ cache' = [cache EXCEPT ![p] = {}]
        /\ UNCHANGED <<run, docs>> /\ troubles < MaxTroubles /\ troubles' = troubles + 1
    BY DEF ProcessDies
  <1>2. /\ claim' \in DiagnosisClaim /\ claim'.gen = claim.gen /\ claim'.status = claim.status
        /\ claim'.holder \in {claim.holder, Nobody}
    <2>1. CASE claim.holder = p
      BY <2>1 DEF ProcessDies, DiagnosisTypeOK, DiagnosisClaim
    <2>2. CASE claim.holder # p
      BY <2>2 DEF ProcessDies, DiagnosisTypeOK
    <2> QED
      BY <2>1, <2>2
  <1>3. troubles' \in 0..MaxTroubles
    BY <1>1, DiagnosisAssumption DEF DiagnosisTypeOK
  <1>4. cache' \in [Processes -> SUBSET Generations] /\ \A q \in Processes : cache'[q] \subseteq docs
    BY <1>1 DEF DiagnosisTypeOK, DiagnosisInvariant, RememberedIsCommitted
  <1>5. DiagnosisTypeOK' /\ RememberedIsCommitted'
    BY <1>1, <1>2, <1>3, <1>4, ReturnStep
       DEF DiagnosisTypeOK, DiagnosisInvariant, RememberedIsCommitted
  <1>6. \A q \in Processes \ {p} : Matching(q) => Matching(q)'
    <2>1. ASSUME NEW q \in Processes \ {p}, Matching(q), HoldsClaim(q)' PROVE HoldsClaim(q)
      <3>1. claim'.holder = q /\ q # Nobody /\ claim'.status = "running"
        BY <2>1, DiagnosisAssumption DEF HoldsClaim
      <3> QED
        BY <1>2, <3>1 DEF HoldsClaim
    <2> QED
      BY <1>1, <1>2, <2>1, ReturnStep DEF Matching
  <1> QED
    BY <1>1, <1>5, <1>6, ReturnKeeps

(* The steps that are no call's.                                           *)
LEMMA GenerationStep ==
  ASSUME DiagnosisTypeOK, DiagnosisInvariant, NewGeneration
  PROVE  DiagnosisTypeOK' /\ DiagnosisInvariant' /\ run'.rev = run.rev
  <1>1. /\ run.gen < MaxGeneration /\ run' = [run EXCEPT !.gen = @ + 1]
        /\ UNCHANGED <<docs, claim, call, cache, troubles>>
    BY DEF NewGeneration
  <1>2. run \in Run /\ run.gen \in Nat /\ run.gen >= 1
    BY DEF DiagnosisTypeOK, Run, Generations
  <1>3. PICK g \in Generations : g = run.gen + 1
    BY <1>1, <1>2, DiagnosisAssumption DEF Generations
  <1>4. run' \in Run /\ run'.gen = g /\ run'.rev = run.rev /\ run'.latest = run.latest
    <2>1. run' = [run EXCEPT !.gen = g]
      BY <1>1, <1>3
    <2> QED
      BY <1>2, <2>1 DEF Run
  <1>5. DiagnosisTypeOK' /\ RememberedIsCommitted'
    BY <1>1, <1>4 DEF DiagnosisTypeOK, DiagnosisInvariant, RememberedIsCommitted
  <1>6. run.latest \in Nat /\ \A p \in Processes : call[p].gen \in Nat
    BY DEF DiagnosisTypeOK, Run, Call, Generations
  <1> QED
    BY <1>1, <1>2, <1>3, <1>4, <1>5, <1>6
       DEF DiagnosisInvariant, Behind, Undiagnosed, Matching, HoldsClaim

LEMMA ExpiryStep ==
  ASSUME DiagnosisTypeOK, DiagnosisInvariant, ClaimExpires
  PROVE  DiagnosisTypeOK' /\ DiagnosisInvariant' /\ UNCHANGED run
  <1>1. claim' = [claim EXCEPT !.live = FALSE] /\ UNCHANGED <<run, docs, call, cache>>
    BY DEF ClaimExpires
  <1>2. troubles' \in 0..MaxTroubles
    BY DiagnosisAssumption DEF ClaimExpires, DiagnosisTypeOK
  <1>3. /\ claim' \in DiagnosisClaim /\ claim'.gen = claim.gen /\ claim'.status = claim.status
        /\ claim'.holder = claim.holder
    BY <1>1 DEF DiagnosisTypeOK, DiagnosisClaim
  <1> QED
    BY <1>1, <1>2, <1>3 DEF DiagnosisTypeOK, DiagnosisInvariant, RememberedIsCommitted,
       Behind, Undiagnosed, Matching, HoldsClaim

LEMMA ForgetStep ==
  ASSUME DiagnosisTypeOK, DiagnosisInvariant, NEW p \in Processes, CacheExpires(p)
  PROVE  DiagnosisTypeOK' /\ DiagnosisInvariant' /\ UNCHANGED run
  <1>1. PICK g \in cache[p] : cache' = [cache EXCEPT ![p] = @ \ {g}]
    BY DEF CacheExpires
  <1>2. UNCHANGED <<run, docs, claim, call, troubles>>
    BY DEF CacheExpires
  <1>3. cache' \in [Processes -> SUBSET Generations] /\ \A q \in Processes : cache'[q] \subseteq docs
    BY <1>1 DEF DiagnosisTypeOK, DiagnosisInvariant, RememberedIsCommitted
  <1> QED
    BY <1>2, <1>3 DEF DiagnosisTypeOK, DiagnosisInvariant, RememberedIsCommitted,
       Behind, Undiagnosed, Matching, HoldsClaim

-----------------------------------------------------------------------------
(* Only the commit of a call that is up to date advances the revision.     *)
FirstOfItsGeneration(p) ==
    /\ call[p].pc = "commit" /\ run'.latest = run.gen
    /\ call[p].claims => run.latest # run.gen
    /\ \A q \in Processes \ {p} : call'[q] = call[q]

LEMMA DiagnosisStep ==
  ASSUME DiagnosisTypeOK, DiagnosisInvariant, [DiagnosisNext]_dvars
  PROVE  /\ DiagnosisTypeOK' /\ DiagnosisInvariant'
         /\ run'.rev = run.rev \/ \E p \in Processes : FirstOfItsGeneration(p)
  <1> DEFINE Kept == /\ DiagnosisTypeOK' /\ DiagnosisInvariant'
                     /\ run'.rev = run.rev \/ \E p \in Processes : FirstOfItsGeneration(p)
  <1>1. ASSUME NEW p \in Processes, DiagnoseRun(p) \/ DiagnoseRunForRun(p) PROVE Kept
    BY <1>1, BeginStep DEF DiagnoseRun, DiagnoseRunForRun
  <1>2. ASSUME troubles < MaxTroubles, troubles' = troubles + 1
        PROVE  troubles' \in 0..MaxTroubles
    BY <1>2, DiagnosisAssumption DEF DiagnosisTypeOK
  <1>3. ASSUME NEW p \in Processes, Engine(p) \/ EngineRaises(p) PROVE Kept
    <2>1. /\ call[p].pc = "engine"
          /\ call' = GoOn(p, "commit") \/ call' = GoOn(p, "fail") \/ call' = Return(p)
          /\ UNCHANGED <<run, docs, claim, cache>>
      BY <1>3 DEF Engine, EngineRaises
    <2>2. troubles' \in 0..MaxTroubles
      BY <1>2, <1>3 DEF Engine, EngineRaises, DiagnosisTypeOK
    <2> QED
      BY <2>1, <2>2, MoveStep
  <1>4. ASSUME NEW p \in Processes, Commit(p) \/ CommitRaises(p) PROVE Kept
    <2>1. /\ call[p].pc = "commit"
          /\ call' = GoOn(p, "fail") \/ call' = Return(p)
          /\ cache' = cache \/ cache' = Remember(p)
          /\ \/ AsRead(p) /\ (call[p].claims => HoldsClaim(p)) /\ Committed(p)
             \/ UNCHANGED <<run, docs, claim, cache>>
      BY <1>4 DEF Commit, CommitRaises
    <2>2. troubles' \in 0..MaxTroubles
      BY <1>2, <1>4 DEF Commit, CommitRaises, DiagnosisTypeOK
    <2>3. CASE UNCHANGED <<run, docs, claim, cache>>
      BY <2>1, <2>2, <2>3, MoveStep
    <2>4. CASE AsRead(p) /\ (call[p].claims => HoldsClaim(p)) /\ Committed(p)
      <3>1. /\ DiagnosisTypeOK' /\ DiagnosisInvariant'
            /\ run'.latest = run.gen /\ (call[p].claims => run.latest # run.gen)
        BY <2>1, <2>2, <2>4, CommittedStep
      <3>2. \A q \in Processes \ {p} : call'[q] = call[q]
        BY <2>1, ReturnStep, GotoStep
      <3> QED
        BY <2>1, <3>1, <3>2 DEF FirstOfItsGeneration
    <2> QED
      BY <2>1, <2>3, <2>4
  <1>5. ASSUME NEW p \in Processes,
               \/ GetDiagnosis(p) \/ ClaimRunDiagnosis(p) \/ Poll(p)
               \/ FailRunDiagnosisClaim(p) \/ ProcessDies(p) \/ CacheExpires(p)
        PROVE  Kept
    BY <1>5, LookupStep, ClaimStep, PollStep, FailStep, DieStep, ForgetStep
  <1>6. CASE NewGeneration \/ ClaimExpires
    BY <1>6, GenerationStep, ExpiryStep
  <1>7. CASE UNCHANGED dvars
    BY <1>7 DEF dvars, DiagnosisTypeOK, DiagnosisInvariant, RememberedIsCommitted,
       Behind, Undiagnosed, Matching, HoldsClaim
  <1> QED
    BY <1>1, <1>3, <1>4, <1>5, <1>6, <1>7 DEF DiagnosisNext, Advance

(* services/diagnosis_service.py keeps Run, claim and calls well formed,   *)
(* and what a call read of the Run is never ahead of it.                   *)
THEOREM DiagnosisCorrect == DiagnosisSpec => [](DiagnosisTypeOK /\ DiagnosisInvariant)
  <1>1. DiagnosisInit => DiagnosisTypeOK /\ DiagnosisInvariant
    BY InitDiagnosis
  <1>2. DiagnosisTypeOK /\ DiagnosisInvariant /\ [DiagnosisNext]_dvars
          => (DiagnosisTypeOK /\ DiagnosisInvariant)'
    BY DiagnosisStep
  <1> QED
    BY <1>1, <1>2, PTL DEF DiagnosisSpec

(* Caches, completed claims and the Run's pointer name diagnoses that were *)
(* committed (get_diagnosis, claim_run_diagnosis, the process cache).      *)
THEOREM CommittedIsRemembered == DiagnosisSpec => []RememberedIsCommitted
  <1>1. DiagnosisInvariant => RememberedIsCommitted
    BY DEF DiagnosisInvariant
  <1> QED
    BY <1>1, DiagnosisCorrect, PTL

(* A call that claims commits the first diagnosis of the generation that   *)
(* stands, or none (atomic_commit_diagnosis_with_claim).                   *)
THEOREM ClaimedIsFirst == DiagnosisSpec => ClaimedDiagnosisIsFirst
  <1>1. DiagnosisTypeOK /\ DiagnosisInvariant /\ [DiagnosisNext]_dvars
          => [\A p \in Processes :
                call[p].pc = "commit" /\ call[p].claims /\ run'.rev # run.rev
                    /\ call'[p].pc # "commit"
                => run.latest # run'.latest /\ run'.latest = run.gen]_dvars
    BY DiagnosisStep DEF FirstOfItsGeneration
  <1> QED
    BY <1>1, DiagnosisCorrect, PTL DEF DiagnosisSpec, ClaimedDiagnosisIsFirst
=============================================================================
