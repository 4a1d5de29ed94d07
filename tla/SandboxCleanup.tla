--------------------------- MODULE SandboxCleanup ---------------------------
(***************************************************************************)
(* The cascade that deletes an ephemeral sandbox space                     *)
(* (delete_sandbox_cascade of FirestoreStore in services/storage.py, called *)
(* by the teardown endpoint and by the sweep of expired sandboxes): a job  *)
(* with a lease goes through five phases, blobs first, then the child      *)
(* collections batch by batch, then a verification, then the space itself. *)
(* Several calls may work on one space: each claims the job, and writes to *)
(* it under a fence.  The batches of deletions are not fenced, and nobody  *)
(* who adds a document to the space looks at its cleanup_status.           *)
(*                                                                         *)
(* Beside it files are written, in two orders: an upload or a copy saves   *)
(* the record of its intent and then the bytes (services/file_service.py), *)
(* a worker that delivers an artifact the bytes and then the record        *)
(* (services/deliverable_service.py).  An id has one writer at a time;     *)
(* writers of one id that cross, and the cleaners of pending uploads, are  *)
(* in UploadLifecycle and ActionExecution.                                 *)
(***************************************************************************)
EXTENDS Naturals, FiniteSets

CONSTANTS
    Cleaners,     \* calls of delete_sandbox_cascade that may be under way
    Collections,  \* number of child collections; the first holds the files
    Ids,          \* document ids, in the order of __name__
    Batch,        \* batch_size
    Nobody,         \* nobody
    MaxWrites,    \* bound on the documents added while the space is deleted
    MaxFailures   \* bound on the calls that fail, die or outlive their lease

ASSUME SandboxAssumption ==
    /\ Collections \in Nat \ {0} /\ Ids \subseteq Nat \ {0} /\ IsFiniteSet(Ids)
    /\ Batch \in Nat \ {0} /\ Nobody \notin Cleaners
    /\ MaxWrites \in Nat /\ MaxFailures \in Nat

VARIABLES
    space,    \* spaces/<id>: is it there, and its server-managed marks
    docs,     \* docs[c]: the documents of the space in collection c
    blobs,    \* the bytes of its files
    writer,   \* writer[d]: where the writer of file d is, or has died
    job,      \* sandbox_cleanup_jobs/<id>
    work,     \* local state of every call
    cached,   \* the process that answers verify-empty has the space in memory
    late,     \* documents written where a verification had already been
    missed,   \* files written behind the inventory of blobs
    writes, failures

cvars == <<space, docs, blobs, writer, job, work, cached, late, missed, writes, failures>>

Colls == 1..Collections
Files == 1

Phases == {"pending", "blobs", "children", "verifying", "finalizing", "completed"}
Space == [there: BOOLEAN, sandbox: BOOLEAN, expired: BOOLEAN, deleting: BOOLEAN]
Job == [there: BOOLEAN, phase: Phases, coll: 1..Collections + 1, cursor: Ids \cup {0},
        holder: Cleaners \cup {Nobody}, live: BOOLEAN, wait: BOOLEAN]
Work == [pc: {"idle", "mark", "inventory", "erase", "leave", "sweep", "save", "next",
              "check", "verify", "confirm", "finalize"},
         coll: 1..Collections + 1, cursor: Ids \cup {0}, full: BOOLEAN, found: SUBSET Ids]
Stages == {"none", "intent", "written", "drop", "stored"}
AtRest == [pc |-> "idle", coll |-> 1, cursor |-> 0, full |-> FALSE, found |-> {}]

(* Operators marked "mutant" stand for a bug in the definition after them  *)
(* and are used by no specification; PROJECT.json lists what each breaks,  *)
(* or its comment says so.                                                 *)

-----------------------------------------------------------------------------
(* Mutant: a lease that ran out still fences.                              *)
HoldsExpired(c) == job.holder = c \/ ~job.live

(* The fence of _fenced_update_cleanup_job: owner, token, version and an   *)
(* unexpired lease.  Every call is an owner of its own.                    *)
Holds(c) == job.holder = c /\ job.live

Over(c) == [work EXCEPT ![c] = AtRest]
Goto(c, pc) == [work EXCEPT ![c].pc = pc]

(* A fenced update renews the lease; without the fence the call is over.   *)
FencedUpdate(c, newJob, newWork) ==
    IF Holds(c) THEN job' = newJob /\ work' = newWork
                ELSE job' = job /\ work' = Over(c)

(* Mutant: a job in verification is taken for a verified one (and a call   *)
(* that resumes it leaves documents that were there).                      *)
ResumeVerified(phase) ==
    CASE phase = "pending" -> "mark"
      [] phase = "blobs" -> "inventory"
      [] phase = "children" -> IF job.coll \in Colls THEN "sweep" ELSE "check"
      [] OTHER -> "finalize"

(* A new claim of an unfinished verification starts it again, and a new    *)
(* claim in the blob phase takes the inventory again.                      *)
Resume(phase) ==
    CASE phase = "pending" -> "mark"
      [] phase = "blobs" -> "inventory"
      [] phase = "children" -> IF job.coll \in Colls THEN "sweep" ELSE "check"
      [] phase = "verifying" -> "verify"
      [] OTHER -> "finalize"

(* Mutant: only a released lease is free.                                  *)
ClaimableIfReleased == job.holder = Nobody /\ ~job.live /\ ~job.wait

(* A held lease and a backoff refuse a claim; a lease that ran out is free.*)
Claimable == ~job.live /\ ~job.wait

(* _claim_cleanup_lease: the space becomes "deleting" with the claim.  A   *)
(* completed job of a space that is still there goes to its finalization.  *)
ClaimCleanupLease(c) ==
    LET stranded == job.phase = "completed"
        phase == IF ~job.there THEN "pending" ELSE IF stranded THEN "finalizing" ELSE job.phase
        pc == Resume(phase)
    IN
    /\ work[c].pc = "idle" /\ space.there /\ space.sandbox
    /\ job.there /\ ~stranded => Claimable
    /\ job' = [there |-> TRUE, phase |-> phase, coll |-> IF stranded THEN 1 ELSE job.coll,
               cursor |-> IF stranded THEN 0 ELSE job.cursor,
               holder |-> c, live |-> TRUE, wait |-> FALSE]
    /\ work' = [work EXCEPT ![c] = [AtRest EXCEPT !.pc = pc,
                   !.coll = IF pc \in {"sweep", "check"} THEN job.coll ELSE 1,
                   !.cursor = IF pc = "sweep" THEN job.cursor ELSE 0]]
    /\ space' = [space EXCEPT !.deleting = TRUE]
    /\ late' = IF phase = "finalizing" THEN late ELSE {}
    /\ missed' = IF phase \in {"pending", "blobs"} THEN {} ELSE missed
    /\ UNCHANGED <<docs, blobs, writer, cached, writes, failures>>

(* sweep_expired_sandboxes lists what has expired and what is half done.   *)
Sweep(c) == (space.expired \/ space.deleting) /\ ClaimCleanupLease(c)

-----------------------------------------------------------------------------
spared == <<space, writer, late, missed, writes, failures>>

MarkBlobs(c) ==
    /\ work[c].pc = "mark"
    /\ FencedUpdate(c, [job EXCEPT !.phase = "blobs"], Goto(c, "inventory"))
    /\ UNCHANGED <<docs, blobs, cached, spared>>

Inventory(c) ==
    /\ work[c].pc = "inventory"
    /\ work' = [work EXCEPT ![c].pc = "erase", ![c].found = docs[Files]]
    /\ UNCHANGED <<docs, blobs, job, cached, spared>>

Erase(c) ==
    /\ work[c].pc = "erase"
    /\ blobs' = blobs \ work[c].found
    /\ work' = [work EXCEPT ![c].pc = "leave", ![c].found = {}]
    /\ UNCHANGED <<docs, job, cached, spared>>

LeaveBlobs(c) ==
    /\ work[c].pc = "leave"
    /\ FencedUpdate(c, [job EXCEPT !.phase = "children", !.coll = 1, !.cursor = 0],
                     Goto(c, "sweep"))
    /\ UNCHANGED <<docs, blobs, cached, spared>>

(* One page after the cursor is deleted, fence or no fence.                *)
Ahead(c) == {d \in docs[work[c].coll] : d > work[c].cursor}
Page(c) == {d \in Ahead(c) : Cardinality({e \in Ahead(c) : e < d}) < Batch}

DeletePage(c) ==
    /\ work[c].pc = "sweep"
    /\ docs' = [docs EXCEPT ![work[c].coll] = @ \ Page(c)]
    /\ \/ Page(c) = {} /\ work' = Goto(c, "next")
       \/ \E last \in Page(c) :
             /\ \A d \in Page(c) : d <= last
             /\ work' = [work EXCEPT ![c].pc = "save", ![c].cursor = last,
                                     ![c].full = Cardinality(Page(c)) = Batch]
    /\ UNCHANGED <<blobs, job, cached, spared>>

SaveCursor(c) ==
    /\ work[c].pc = "save"
    /\ FencedUpdate(c, [job EXCEPT !.cursor = work[c].cursor],
                     Goto(c, IF work[c].full THEN "sweep" ELSE "next"))
    /\ UNCHANGED <<docs, blobs, cached, spared>>

NextCollection(c) ==
    LET n == work[c].coll + 1 IN
    /\ work[c].pc = "next"
    /\ FencedUpdate(c, [job EXCEPT !.coll = n, !.cursor = 0],
                     [work EXCEPT ![c] = [AtRest EXCEPT !.coll = n,
                          !.pc = IF n \in Colls THEN "sweep" ELSE "check"]])
    /\ UNCHANGED <<docs, blobs, cached, spared>>

(* The call clears the memory of its own process on the way, which is or   *)
(* is not the process that will answer verify-empty.                       *)
BeginVerification(c) ==
    /\ work[c].pc = "check"
    /\ FencedUpdate(c, [job EXCEPT !.phase = "verifying"],
                     [work EXCEPT ![c] = [AtRest EXCEPT !.pc = "verify"]])
    /\ cached' \in {cached, FALSE}
    /\ UNCHANGED <<docs, blobs, spared>>

(* A collection that is not empty sends the job back to it; the call ends  *)
(* and keeps its lease.                                                    *)
VerifyCollection(c) ==
    LET n == work[c].coll IN
    /\ work[c].pc = "verify"
    /\ IF docs[n] = {}
       THEN /\ work' = [work EXCEPT ![c].coll = n + 1,
                   ![c].pc = IF n + 1 \in Colls THEN "verify" ELSE "confirm"]
            /\ UNCHANGED <<job, late>>
       ELSE /\ FencedUpdate(c, [job EXCEPT !.phase = "children", !.coll = n, !.cursor = 0],
                             Over(c))
            /\ late' = IF Holds(c) THEN {} ELSE late
    /\ UNCHANGED <<docs, blobs, cached, space, writer, missed, writes, failures>>

Confirm(c) ==
    /\ work[c].pc = "confirm"
    /\ FencedUpdate(c, [job EXCEPT !.phase = "finalizing"], Goto(c, "finalize"))
    /\ UNCHANGED <<docs, blobs, cached, spared>>

(* One transaction deletes the space and completes the job.                *)
Finalize(c) ==
    /\ work[c].pc = "finalize"
    /\ IF Holds(c)
       THEN /\ space' = [space EXCEPT !.there = FALSE]
            /\ job' = [job EXCEPT !.phase = "completed", !.holder = Nobody, !.live = FALSE]
       ELSE UNCHANGED <<space, job>>
    /\ work' = Over(c)
    /\ UNCHANGED <<docs, blobs, writer, cached, late, missed, writes, failures>>

AdvanceCascade(c) ==
    \/ MarkBlobs(c) \/ Inventory(c) \/ Erase(c) \/ LeaveBlobs(c)
    \/ DeletePage(c) \/ SaveCursor(c) \/ NextCollection(c)
    \/ BeginVerification(c) \/ VerifyCollection(c) \/ Confirm(c) \/ Finalize(c)

-----------------------------------------------------------------------------
(* Mutant: a blob that cannot be deleted does not stop the cascade (and    *)
(* BlobsGoFirst fails).                                                    *)
RaisesAndGoesOn(c) ==
    /\ job' = job
    /\ work' = IF work[c].pc = "erase" THEN Goto(c, "leave") ELSE Over(c)

(* A query or a deletion raises: some blobs may be gone, the failure is    *)
(* recorded under the fence, with a backoff, and the lease is released.    *)
RecordFailure(c) ==
    /\ job' = IF Holds(c) THEN [job EXCEPT !.holder = Nobody, !.live = FALSE, !.wait = TRUE]
              ELSE job
    /\ work' = Over(c)

CallRaises(c) ==
    /\ failures < MaxFailures
    /\ work[c].pc \in {"inventory", "erase", "sweep", "check", "verify", "finalize"}
    /\ RecordFailure(c)
    /\ blobs' \in {blobs \ gone : gone \in SUBSET work[c].found}
    /\ failures' = failures + 1
    /\ UNCHANGED <<space, docs, writer, cached, late, missed, writes>>

(* The process dies: nobody has its owner id again.                        *)
CallDies(c) ==
    /\ failures < MaxFailures /\ work[c].pc # "idle"
    /\ work' = Over(c)
    /\ job' = IF job.holder = c THEN [job EXCEPT !.holder = Nobody] ELSE job
    /\ failures' = failures + 1
    /\ UNCHANGED <<space, docs, blobs, writer, cached, late, missed, writes>>

(* A lease runs out, under a call that took longer than five minutes for   *)
(* a step or after one that left it behind.                                *)
Abandoned == \A c \in Cleaners : job.holder = c => work[c].pc = "idle"

CleanupLeaseExpires ==
    /\ job.live
    /\ IF Abandoned THEN UNCHANGED failures
       ELSE failures < MaxFailures /\ failures' = failures + 1
    /\ job' = [job EXCEPT !.live = FALSE]
    /\ UNCHANGED <<docs, blobs, work, cached, space, writer, late, missed, writes>>

CleanupBackoffElapses ==
    /\ job.wait
    /\ job' = [job EXCEPT !.wait = FALSE]
    /\ UNCHANGED <<docs, blobs, work, cached, spared>>

SandboxExpires ==
    /\ space.there /\ space.sandbox /\ ~space.expired
    /\ space' = [space EXCEPT !.expired = TRUE]
    /\ UNCHANGED <<docs, blobs, writer, job, work, cached, late, missed, writes, failures>>

-----------------------------------------------------------------------------
(* The members of the space and the dispatchers write on.                  *)
Passed(n) ==
    \/ job.phase \in {"finalizing", "completed"}
    \/ \E c \in Cleaners : Holds(c) /\ work[c].pc \in {"verify", "confirm"} /\ work[c].coll > n

(* File d is written where no inventory of blobs will find it any more.    *)
Escapes(d) ==
    \/ job.phase \in {"children", "verifying", "finalizing", "completed"}
    \/ \E c \in Cleaners :
          /\ Holds(c)
          /\ work[c].pc = "leave" \/ (work[c].pc = "erase" /\ d \notin work[c].found)

MissedIfLate(d) == IF Escapes(d) THEN missed \cup {d} ELSE missed

Land(n, d) ==
    /\ docs' = [docs EXCEPT ![n] = @ \cup {d}]
    /\ late' = IF Passed(n) THEN late \cup {<<n, d>>} ELSE late

AddDocument(n, d) ==
    /\ writes < MaxWrites /\ n # Files /\ d \notin docs[n]
    /\ Land(n, d)
    /\ writes' = writes + 1
    /\ UNCHANGED <<space, blobs, writer, job, work, cached, missed, failures>>

(* upload_file and copy_file_to_space, under a file id of their own: the   *)
(* intent, the bytes, and the commit, which is refused without a record.   *)
SaveIntent(d) ==
    /\ writes < MaxWrites /\ writer[d] = "none" /\ d \notin docs[Files] \cup blobs
    /\ Land(Files, d)
    /\ writer' = [writer EXCEPT ![d] = "intent"]
    /\ writes' = writes + 1
    /\ UNCHANGED <<space, blobs, job, work, cached, missed, failures>>

WriteBytes(d) ==
    /\ writer[d] = "intent"
    /\ blobs' = blobs \cup {d} /\ missed' = MissedIfLate(d)
    /\ writer' = [writer EXCEPT ![d] = "written"]
    /\ UNCHANGED <<space, docs, job, work, cached, late, writes, failures>>

CommitUpload(d) ==
    /\ writer[d] = "written" /\ d \in docs[Files]
    /\ writer' = [writer EXCEPT ![d] = "none"]
    /\ UNCHANGED <<space, docs, blobs, job, work, cached, late, missed, writes, failures>>

(* _compensate_failed_intent, when the bytes cannot be written, the        *)
(* heartbeat failed or the commit is refused: bytes first, then the record.*)
(* When the bytes cannot be deleted both are left, as after a death.       *)
UploadFails(d) ==
    /\ writer[d] \in {"intent", "written"}
    /\ blobs' = blobs \ {d}
    /\ writer' = [writer EXCEPT ![d] = "drop"]
    /\ UNCHANGED <<space, docs, job, work, cached, late, missed, writes, failures>>

DropIntent(d) ==
    /\ writer[d] = "drop"
    /\ docs' = [docs EXCEPT ![Files] = @ \ {d}]
    /\ writer' = [writer EXCEPT ![d] = "none"]
    /\ UNCHANGED <<space, blobs, job, work, cached, late, missed, writes, failures>>

(* execute_action stores the bytes of its artifact, over those of an       *)
(* earlier attempt, and then registers the file, or discards the bytes     *)
(* when its lease is lost, whether the earlier attempt had registered it   *)
(* or not.                                                                 *)
StoreBytes(d) ==
    /\ writes < MaxWrites /\ writer[d] \in {"none", "stored"}
    /\ blobs' = blobs \cup {d} /\ missed' = MissedIfLate(d)
    /\ writer' = [writer EXCEPT ![d] = "stored"]
    /\ writes' = writes + 1
    /\ UNCHANGED <<space, docs, job, work, cached, late, failures>>

RegisterFile(d) ==
    /\ writer[d] = "stored"
    /\ Land(Files, d) /\ missed' = MissedIfLate(d)
    /\ writer' = [writer EXCEPT ![d] = "none"]
    /\ UNCHANGED <<space, blobs, job, work, cached, writes, failures>>

DiscardBytes(d) ==
    /\ writer[d] = "stored"
    /\ blobs' = blobs \ {d}
    /\ writer' = [writer EXCEPT ![d] = "none"]
    /\ UNCHANGED <<space, docs, job, work, cached, late, missed, writes, failures>>

WriteFile(d) ==
    \/ SaveIntent(d) \/ WriteBytes(d) \/ CommitUpload(d) \/ UploadFails(d) \/ DropIntent(d)
    \/ StoreBytes(d) \/ RegisterFile(d) \/ DiscardBytes(d)

(* Adding, changing or archiving a tag writes the space back without its   *)
(* server-managed marks, and puts it into the memory of the process.       *)
TagOperation ==
    /\ space.there /\ space.sandbox
    /\ space' = [space EXCEPT !.sandbox = FALSE, !.expired = FALSE, !.deleting = FALSE]
    /\ cached' \in {cached, TRUE}
    /\ UNCHANGED <<docs, blobs, writer, job, work, late, missed, writes, failures>>

-----------------------------------------------------------------------------
NoJob == [there |-> FALSE, phase |-> "pending", coll |-> 1, cursor |-> 0,
          holder |-> Nobody, live |-> FALSE, wait |-> FALSE]

SandboxInit ==
    /\ space = [there |-> TRUE, sandbox |-> TRUE, expired |-> FALSE, deleting |-> FALSE]
    /\ docs = [n \in Colls |-> Ids \ {1}]
    /\ blobs = Ids \ {1} /\ writer = [d \in Ids |-> "none"]
    /\ job = NoJob
    /\ work = [c \in Cleaners |-> AtRest]
    /\ cached \in BOOLEAN
    /\ late = {} /\ missed = {}
    /\ writes = 0 /\ failures = 0

Members ==
    \/ \E n \in Colls, d \in Ids : AddDocument(n, d)
    \/ \E d \in Ids : WriteFile(d)
    \/ TagOperation

SandboxNext ==
    \/ \E c \in Cleaners : ClaimCleanupLease(c) \/ AdvanceCascade(c) \/ CallRaises(c) \/ CallDies(c)
    \/ CleanupLeaseExpires \/ CleanupBackoffElapses \/ SandboxExpires
    \/ Members

SandboxSpec == SandboxInit /\ [][SandboxNext]_cvars

(* The scheduler calls the sweep for ever, a call goes on unless it dies,  *)
(* and time passes: leases that were left behind run out, backoffs elapse. *)
CascadeFairness ==
    /\ WF_cvars(\E c \in Cleaners : Sweep(c))
    /\ \A c \in Cleaners : WF_cvars(AdvanceCascade(c))
    /\ WF_cvars(Abandoned /\ CleanupLeaseExpires)
    /\ WF_cvars(CleanupBackoffElapses)

FairSandboxSpec == SandboxSpec /\ CascadeFairness

-----------------------------------------------------------------------------
SandboxTypeOK ==
    /\ space \in Space /\ job \in Job /\ work \in [Cleaners -> Work]
    /\ docs \in [Colls -> SUBSET Ids]
    /\ blobs \subseteq Ids /\ missed \subseteq Ids /\ writer \in [Ids -> Stages]
    /\ cached \in BOOLEAN /\ late \subseteq Colls \X Ids
    /\ writes \in 0..MaxWrites /\ failures \in 0..MaxFailures

(* When the space is gone, whatever is left of it was written after the    *)
(* verification had been to its collection.                                *)
OnlyLateDocumentsAreLeft ==
    ~space.there => \A n \in Colls : \A d \in docs[n] : <<n, d>> \in late

(* A record goes after the bytes of its file, except when the file was     *)
(* registered, or its bytes written, behind the inventory of blobs.        *)
BlobsGoFirst == \A d \in docs[Files] \ docs'[Files] : d \in blobs => d \in missed

(* Whoever works on the job, dies, resumes it or is overtaken: no step     *)
(* skips a document that was there, to leave it behind with the space gone,*)
(* and none takes the record of bytes that an inventory could have found.  *)
TeardownIsOrderly == [][OnlyLateDocumentsAreLeft' /\ BlobsGoFirst]_cvars

(* A sandbox that has expired, or whose deletion has begun, is torn down in *)
(* the end, whatever call died or failed on the way, unless a tag          *)
(* operation makes an ordinary space of it.                                *)
SandboxIsTornDown ==
    space.sandbox /\ (space.expired \/ space.deleting) ~> ~space.there \/ ~space.sandbox

-----------------------------------------------------------------------------
(* What one might expect besides and the code does not give.               *)
NothingIsLeft == ~space.there => \A n \in Colls : docs[n] = {}

(* "deletes GCS physical blobs FIRST ...  If any blob fails, halts BEFORE   *)
(* metadata removal!"  But the bytes of an upload whose intent was listed  *)
(* may come after the erasure, which found none, and the record, committed *)
(* or not, goes before them.                                               *)
BytesKeepTheirRecord == [][\A d \in docs[Files] \ docs'[Files] : d \notin blobs]_cvars

DeletionIsFinished == space.deleting ~> ~space.there

(* The Firestore versions of verify_sandbox_empty and                      *)
(* get_sandbox_cleanup_job are nested in check_storage_readiness, so that  *)
(* FirestoreStore inherits MemoryStore's, which look into the memory of    *)
(* the process that answers.                                               *)
SaysEmpty == ~cached

VerifyEmptyTellsTheTruth ==
    SaysEmpty => ~space.there /\ \A n \in Colls : docs[n] = {}
=============================================================================
