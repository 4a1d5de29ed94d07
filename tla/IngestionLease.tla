--------------------------- MODULE IngestionLease ---------------------------
(***************************************************************************)
(* The indexing of one committed file, generation by generation, with      *)
(* Firestore and Cloud Tasks: whoever submits an ingestion or reclaims a   *)
(* stalled one, the workers that tasks are delivered to (execute_ingestion *)
(* _job), the cleanup of generations that were given up and its sweeper,   *)
(* the deletion of the file, and the readers of its chunks (services/      *)
(* ingestion_runner.py over the files, document_chunks and pending_        *)
(* generation_cleanups collections of services/storage.py).                *)
(*                                                                         *)
(* Every allocation sets ingestion_job_id and max_allocated_generation     *)
(* together, so that the generation names the job.  Chunk ids are fixed by *)
(* generation and position: writing a batch again changes nothing.         *)
(***************************************************************************)
EXTENDS Naturals

CONSTANTS
    Submitters,  \* calls of submit_ingestion and recover_expired_leases
    Workers,     \* concurrent deliveries of ingestion tasks
    Sweepers,    \* calls of sweep_pending_generation_cleanups
    Readers,     \* calls of get_document_chunks
    Batches,     \* transactions the chunks of a generation take
    MaxGen,      \* bound on the generations allocated
    MaxRetries,  \* retry ceiling of a pending cleanup
    Deletion     \* "none", "fenced" by the cleanup, or "plain"

ASSUME IngestionAssumption ==
    /\ Batches \in Nat \ {0}
    /\ MaxGen \in Nat \ {0}
    /\ MaxRetries \in Nat
    /\ Deletion \in {"none", "fenced", "plain"}
    /\ Workers \cap Sweepers = {}

VARIABLES
    rec,      \* files/<id>: its ingestion half
    chunks,   \* chunks[g]: the batches of generation g in document_chunks
    queue,    \* generations a task was enqueued for
    pgc,      \* pgc[g]: the pending cleanup of generation g
    sb,       \* local state of every submitter
    wk,       \* local state of every worker and sweeper
    del,      \* program counter of the deletion
    rd        \* generation a reader is about to query, 0 when idle

ivars == <<rec, chunks, queue, pgc, sb, wk, del, rd>>

Gens == 1..MaxGen
Parts == 1..Batches

Record == [there: BOOLEAN,
           status: {"pending", "extracting", "ready", "needs_ocr", "failed", "not_enqueued"},
           active: 0..MaxGen, job: 0..MaxGen, reclaimer: BOOLEAN,
           lease: {"none", "live", "expired"},
           cleaning: SUBSET Gens, deleted: SUBSET Gens, fenced: BOOLEAN]
Fresh == [there |-> TRUE, status |-> "pending", active |-> 0, job |-> 0,
          reclaimer |-> FALSE, lease |-> "none", cleaning |-> {}, deleted |-> {},
          fenced |-> FALSE]

Submission == [pc: {"idle", "acquire", "enqueue", "fail"}, gen: 0..MaxGen]
Free == [pc |-> "idle", gen |-> 0]

Work == [pc: {"idle", "extract", "save", "commit", "prune", "event", "fail", "compensate",
              "authorize", "purge", "release", "record", "claim", "complete", "backoff"},
         gen: 0..MaxGen, batch: 0..Batches, fresh: BOOLEAN]
Resting == [pc |-> "idle", gen |-> 0, batch |-> 0, fresh |-> FALSE]

Cleanup == [status: {"none", "pending", "in_progress"}, live: BOOLEAN,
            holder: Sweepers \cup {"none"}, retries: 0..MaxRetries, wait: BOOLEAN]
NoCleanup == [status |-> "none", live |-> FALSE, holder |-> "none",
              retries |-> 0, wait |-> FALSE]
NewCleanup == [NoCleanup EXCEPT !.status = "pending"]

Goto(w, pc) == wk' = [wk EXCEPT ![w].pc = pc]
End(w) == wk' = [wk EXCEPT ![w] = Resting]

(* Operators marked "mutant" stand for a bug in the definition after them  *)
(* and are used by no specification; PROJECT.json lists what each breaks.  *)

-----------------------------------------------------------------------------
(* Allocating a generation opens a job and its lease.                      *)
Allocate(reclaimer) ==
    rec' = [rec EXCEPT !.job = @ + 1, !.status = "extracting",
                       !.reclaimer = reclaimer, !.lease = "live"]

(* An upload or a reindex asks for an ingestion ...                        *)
Submit(s) ==
    /\ sb[s].pc = "idle"
    /\ rec.there
    /\ ~(rec.status = "extracting" /\ rec.lease = "live")
    /\ sb' = [sb EXCEPT ![s].pc = "acquire"]
    /\ UNCHANGED <<rec, chunks, queue, pgc, wk, del, rd>>

(* Mutant: a stalled file is taken up again once it has been indexed.      *)
IsStalledIndexed ==
    \/ rec.status = "extracting" /\ rec.lease = "expired" /\ rec.active > 0
    \/ rec.status = "not_enqueued"
    \/ rec.status = "pending" /\ rec.active = 0

IsStalled ==
    \/ rec.status = "extracting" /\ rec.lease = "expired"
    \/ rec.status = "not_enqueued"
    \/ rec.status = "pending" /\ rec.active = 0

(* ... or the maintenance endpoint reclaims a stalled one.                 *)
Reclaim(s) ==
    /\ sb[s].pc = "idle"
    /\ rec.there /\ IsStalled
    /\ rec.job < MaxGen
    /\ Allocate(TRUE)
    /\ sb' = [sb EXCEPT ![s].pc = "acquire"]
    /\ UNCHANGED <<chunks, queue, pgc, wk, del, rd>>

(* acquire_ingestion_lease: a job in flight is left alone, unless it is a  *)
(* reclaimer's.                                                            *)
InFlight == rec.status = "extracting" /\ rec.lease = "live" /\ ~rec.reclaimer

Acquire(s) ==
    /\ sb[s].pc = "acquire"
    /\ IF rec.there /\ ~InFlight
       THEN /\ rec.job < MaxGen
            /\ Allocate(FALSE)
            /\ sb' = [sb EXCEPT ![s] = [pc |-> "enqueue", gen |-> rec.job + 1]]
       ELSE sb' = [sb EXCEPT ![s] = Free] /\ UNCHANGED rec
    /\ UNCHANGED <<chunks, queue, pgc, wk, del, rd>>

Enqueue(s) ==
    /\ sb[s].pc = "enqueue"
    /\ queue' = queue \cup {sb[s].gen}
    /\ sb' = [sb EXCEPT ![s] = Free]
    /\ UNCHANGED <<rec, chunks, pgc, wk, del, rd>>

(* create_task raises, whether the task was enqueued or not.               *)
EnqueueRaises(s) ==
    /\ sb[s].pc = "enqueue"
    /\ queue' \in {queue, queue \cup {sb[s].gen}}
    /\ sb' = [sb EXCEPT ![s].pc = "fail"]
    /\ UNCHANGED <<rec, chunks, pgc, wk, del, rd>>

(* Mutant: the lease of the failed job is left.                            *)
FailedWithLease(gen, status) ==
    IF rec.there /\ rec.job = gen THEN [rec EXCEPT !.status = status] ELSE rec

(* fail_ingestion_generation compares the job, and nothing else.           *)
Failed(gen, status) ==
    IF rec.there /\ rec.job = gen
    THEN [rec EXCEPT !.status = status, !.reclaimer = FALSE, !.lease = "none"]
    ELSE rec

FailSubmission(s) ==
    /\ sb[s].pc = "fail"
    /\ rec' = Failed(sb[s].gen, "not_enqueued")
    /\ sb' = [sb EXCEPT ![s] = Free]
    /\ UNCHANGED <<chunks, queue, pgc, wk, del, rd>>

SubmitterDies(s) ==
    /\ sb[s].pc # "idle"
    /\ sb' = [sb EXCEPT ![s] = Free]
    /\ UNCHANGED <<rec, chunks, queue, pgc, wk, del, rd>>

-----------------------------------------------------------------------------
(* A delivery.  The queue delivers at least once, again while a delivery   *)
(* fails, and perhaps late: a task that was enqueued may always come.      *)
(* (READY_PARTIAL counts as ready; a generation that needs OCR does not,   *)
(* and another delivery of its task extracts it again.)                    *)
Indexed(g) == rec.active = g /\ rec.status = "ready"

Deliver(w, g) ==
    /\ wk[w].pc = "idle"
    /\ g \in queue
    /\ rec.there /\ ~Indexed(g)
    /\ rec.job = g
    /\ rec.lease # "expired"
    /\ wk' = [wk EXCEPT ![w] = [Resting EXCEPT !.pc = "extract", !.gen = g]]
    /\ UNCHANGED <<rec, chunks, queue, pgc, sb, del, rd>>

(* The lease is judged by the time at which saving began.                  *)
Extract(w) ==
    /\ wk[w].pc = "extract"
    /\ wk' = [wk EXCEPT ![w].pc = "save", ![w].batch = 1, ![w].fresh = rec.lease = "live"]
    /\ UNCHANGED <<rec, chunks, queue, pgc, sb, del, rd>>

(* The document cannot be parsed, or a call raises.                        *)
ExtractFails(w) ==
    /\ wk[w].pc = "extract"
    /\ Goto(w, "fail")
    /\ UNCHANGED <<rec, chunks, queue, pgc, sb, del, rd>>

(* Mutant: neither deletion nor cleanup is looked at.                      *)
WritableUnfenced(g, fresh) ==
    /\ rec.there /\ ~Indexed(g)
    /\ rec.status = "extracting" /\ rec.job = g /\ fresh

Writable(g, fresh) ==
    /\ rec.there /\ ~rec.fenced
    /\ ~Indexed(g)
    /\ rec.status = "extracting" /\ rec.job = g /\ fresh
    /\ g \notin rec.cleaning \cup rec.deleted

SaveBatch(w) ==
    LET g == wk[w].gen
        b == wk[w].batch
    IN
    /\ wk[w].pc = "save"
    /\ IF Writable(g, wk[w].fresh)
       THEN /\ chunks' = [chunks EXCEPT ![g] = @ \cup {b}]
            /\ wk' = [wk EXCEPT ![w].batch = IF b < Batches THEN b + 1 ELSE b,
                                ![w].pc = IF b < Batches THEN "save" ELSE "commit"]
       ELSE /\ wk' = [wk EXCEPT ![w] = IF b > 1 THEN [@ EXCEPT !.pc = "compensate"]
                                                ELSE Resting]
            /\ UNCHANGED chunks
    /\ UNCHANGED <<rec, queue, pgc, sb, del, rd>>

(* The except clause compensates too, with batch 0.                        *)
SaveRaises(w) ==
    /\ wk[w].pc = "save"
    /\ wk' = [wk EXCEPT ![w] = IF wk[w].batch > 1
                               THEN [@ EXCEPT !.pc = "compensate", !.batch = 0] ELSE Resting]
    /\ UNCHANGED <<rec, chunks, queue, pgc, sb, del, rd>>

(* Mutant: any job may commit.                                             *)
CommittableAnyJob(g) ==
    /\ rec.there /\ rec.status = "extracting"
    /\ rec.lease # "expired"
    /\ g \notin rec.cleaning \cup rec.deleted

Committable(g) ==
    /\ rec.there /\ rec.job = g /\ rec.status = "extracting"
    /\ rec.lease # "expired"
    /\ g \notin rec.cleaning \cup rec.deleted

CommitGeneration(w) ==
    /\ wk[w].pc = "commit"
    /\ IF Committable(wk[w].gen)
       THEN /\ \E status \in {"ready", "needs_ocr"} :
                  rec' = [rec EXCEPT !.active = wk[w].gen, !.status = status,
                                     !.reclaimer = FALSE, !.lease = "none"]
            /\ Goto(w, "prune")
       ELSE End(w) /\ UNCHANGED rec
    /\ UNCHANGED <<chunks, queue, pgc, sb, del, rd>>

(* Mutant: the generation committed is pruned with the older ones.         *)
PrunedUpTo(g) == [h \in Gens |-> IF h <= g THEN {} ELSE chunks[h]]

Pruned(g) == [h \in Gens |-> IF h < g THEN {} ELSE chunks[h]]

Prune(w) ==
    /\ wk[w].pc = "prune"
    /\ chunks' = Pruned(wk[w].gen)
    /\ Goto(w, "event")
    /\ UNCHANGED <<rec, queue, pgc, sb, del, rd>>

RecordEvent(w) ==
    /\ wk[w].pc = "event"
    /\ End(w)
    /\ UNCHANGED <<rec, chunks, queue, pgc, sb, del, rd>>

EventRaises(w) ==
    /\ wk[w].pc = "event"
    /\ Goto(w, "fail")
    /\ UNCHANGED <<rec, chunks, queue, pgc, sb, del, rd>>

FailIngestion(w) ==
    /\ wk[w].pc = "fail"
    /\ rec' = Failed(wk[w].gen, "failed")
    /\ End(w)
    /\ UNCHANGED <<chunks, queue, pgc, sb, del, rd>>

ProcessDies(w) ==
    /\ wk[w].pc # "idle"
    /\ End(w)
    /\ UNCHANGED <<rec, chunks, queue, pgc, sb, del, rd>>

-----------------------------------------------------------------------------
(* _safe_compensating_delete spares the active generation ...              *)
Compensate(w) ==
    /\ wk[w].pc = "compensate"
    /\ IF rec.there /\ rec.active = wk[w].gen THEN End(w) ELSE Goto(w, "authorize")
    /\ UNCHANGED <<rec, chunks, queue, pgc, sb, del, rd>>

(* Mutant: the check above is taken for enough.                            *)
MayCleanAny(g) == rec.there

MayClean(g) == rec.there /\ rec.active # g

(* ... and so does delete_generation_document_chunks, which workers and    *)
(* sweepers share: mark, delete, leave a tombstone.                        *)
Authorize(w) ==
    LET g == wk[w].gen IN
    /\ wk[w].pc = "authorize"
    /\ IF MayClean(g)
       THEN rec' = [rec EXCEPT !.cleaning = @ \cup {g}] /\ Goto(w, "purge")
       ELSE /\ Goto(w, IF w \in Workers THEN "record" ELSE "complete")
            /\ UNCHANGED rec
    /\ UNCHANGED <<chunks, queue, pgc, sb, del, rd>>

Purge(w) ==
    /\ wk[w].pc = "purge"
    /\ chunks' = [chunks EXCEPT ![wk[w].gen] = {}]
    /\ Goto(w, "release")
    /\ UNCHANGED <<rec, queue, pgc, sb, del, rd>>

CleaningRaises(w) ==
    /\ wk[w].pc \in {"authorize", "purge"}
    /\ Goto(w, IF w \in Workers THEN "record" ELSE "backoff")
    /\ UNCHANGED <<rec, chunks, queue, pgc, sb, del, rd>>

Tombstone(w) ==
    LET g == wk[w].gen
        next == IF w \in Workers THEN Resting ELSE [wk[w] EXCEPT !.pc = "complete"]
    IN
    /\ wk[w].pc = "release"
    /\ rec' \in {rec, IF rec.there THEN [rec EXCEPT !.deleted = @ \cup {g},
                                                    !.cleaning = @ \ {g}] ELSE rec}
    /\ wk' = [wk EXCEPT ![w] = next]
    /\ UNCHANGED <<chunks, queue, pgc, sb, del, rd>>

(* A cleanup that failed is recorded (the records of one generation are    *)
(* taken as one); when that fails too, the except clause of the save       *)
(* compensates once more, and after it the job fails.                      *)
RecordPendingCleanup(w) ==
    LET g == wk[w].gen IN
    /\ wk[w].pc = "record"
    /\ \/ /\ pgc' = [pgc EXCEPT ![g] = IF @.status = "none" THEN NewCleanup ELSE @]
          /\ End(w)
       \/ /\ wk' = [wk EXCEPT ![w].pc = IF wk[w].batch > 0 THEN "compensate" ELSE "fail",
                               ![w].batch = 0]
          /\ UNCHANGED pgc
    /\ UNCHANGED <<rec, chunks, queue, sb, del, rd>>

-----------------------------------------------------------------------------
(* sweep_pending_generation_cleanups.                                      *)
ListCleanup(w, g) ==
    /\ wk[w].pc = "idle"
    /\ pgc[g].status # "none" /\ ~pgc[g].live /\ ~pgc[g].wait
    /\ pgc[g].retries < MaxRetries
    /\ wk' = [wk EXCEPT ![w] = [Resting EXCEPT !.pc = "claim", !.gen = g]]
    /\ UNCHANGED <<rec, chunks, queue, pgc, sb, del, rd>>

(* (Bound: the claim, which does not look at the ceiling, stops at it.)    *)
ClaimCleanup(w) ==
    LET g == wk[w].gen IN
    /\ wk[w].pc = "claim"
    /\ IF pgc[g].status # "none" /\ ~pgc[g].live /\ pgc[g].retries < MaxRetries
       THEN /\ pgc' = [pgc EXCEPT ![g].status = "in_progress", ![g].live = TRUE,
                                  ![g].holder = w, ![g].retries = @ + 1]
            /\ Goto(w, "authorize")
       ELSE End(w) /\ UNCHANGED pgc
    /\ UNCHANGED <<rec, chunks, queue, sb, del, rd>>

CompleteCleanup(w) ==
    LET g == wk[w].gen IN
    /\ wk[w].pc = "complete"
    /\ pgc' = IF pgc[g].holder = w THEN [pgc EXCEPT ![g] = NoCleanup] ELSE pgc
    /\ End(w)
    /\ UNCHANGED <<rec, chunks, queue, sb, del, rd>>

BackOff(w) ==
    LET g == wk[w].gen IN
    /\ wk[w].pc = "backoff"
    /\ pgc' = IF pgc[g].holder = w
              THEN [pgc EXCEPT ![g].status = "pending", ![g].live = FALSE,
                               ![g].holder = "none", ![g].wait = TRUE]
              ELSE pgc
    /\ End(w)
    /\ UNCHANGED <<rec, chunks, queue, sb, del, rd>>

-----------------------------------------------------------------------------
(* delete_cleanup_file_with_lease fences the file, delete_file does not;   *)
(* both drop the chunks and then the record.                               *)
BeginDelete ==
    /\ del = "no" /\ Deletion # "none"
    /\ del' = "purge"
    /\ rec' = [rec EXCEPT !.fenced = Deletion = "fenced"]
    /\ UNCHANGED <<chunks, queue, pgc, sb, wk, rd>>

DeleteAllChunks ==
    /\ del = "purge"
    /\ del' = "drop"
    /\ chunks' = [g \in Gens |-> {}]
    /\ UNCHANGED <<rec, queue, pgc, sb, wk, rd>>

DeleteFile ==
    /\ del = "drop"
    /\ del' = "done"
    /\ rec' = [Fresh EXCEPT !.there = FALSE]
    /\ UNCHANGED <<chunks, queue, pgc, sb, wk, rd>>

ReadActive(r) ==
    /\ rd[r] = 0
    /\ rec.there /\ rec.active > 0
    /\ rd' = [rd EXCEPT ![r] = rec.active]
    /\ UNCHANGED <<rec, chunks, queue, pgc, sb, wk, del>>

QueryChunks(r) ==
    /\ rd[r] > 0
    /\ rd' = [rd EXCEPT ![r] = 0]
    /\ UNCHANGED <<rec, chunks, queue, pgc, sb, wk, del>>

IngestionLeaseExpires ==
    /\ rec.lease = "live"
    /\ rec' = [rec EXCEPT !.lease = "expired"]
    /\ UNCHANGED <<chunks, queue, pgc, sb, wk, del, rd>>

SweepLeaseExpires(g) ==
    /\ pgc[g].live
    /\ pgc' = [pgc EXCEPT ![g].live = FALSE]
    /\ UNCHANGED <<rec, chunks, queue, sb, wk, del, rd>>

SweepComesDue(g) ==
    /\ pgc[g].wait
    /\ pgc' = [pgc EXCEPT ![g].wait = FALSE]
    /\ UNCHANGED <<rec, chunks, queue, sb, wk, del, rd>>

-----------------------------------------------------------------------------
IngestionInit ==
    /\ rec = Fresh
    /\ chunks = [g \in Gens |-> {}]
    /\ queue = {}
    /\ pgc = [g \in Gens |-> NoCleanup]
    /\ sb = [s \in Submitters |-> Free]
    /\ wk = [w \in Workers \cup Sweepers |-> Resting]
    /\ del = "no"
    /\ rd = [r \in Readers |-> 0]

Ingest(w) ==
    \/ Extract(w) \/ SaveBatch(w) \/ CommitGeneration(w) \/ Prune(w) \/ RecordEvent(w)
    \/ FailIngestion(w) \/ Compensate(w) \/ RecordPendingCleanup(w)

CleanGeneration(w) == Authorize(w) \/ Purge(w) \/ Tombstone(w)

SweepGeneration(w) == ClaimCleanup(w) \/ CompleteCleanup(w) \/ BackOff(w)

IngestionNext ==
    \/ \E s \in Submitters :
          \/ Submit(s) \/ Reclaim(s) \/ Acquire(s) \/ Enqueue(s)
          \/ EnqueueRaises(s) \/ FailSubmission(s) \/ SubmitterDies(s)
    \/ \E g \in Gens :
          \/ SweepLeaseExpires(g) \/ SweepComesDue(g)
          \/ \E w \in Workers : Deliver(w, g)
          \/ \E w \in Sweepers : ListCleanup(w, g)
    \/ \E w \in Workers : Ingest(w) \/ ExtractFails(w) \/ SaveRaises(w) \/ EventRaises(w)
    \/ \E w \in Sweepers : SweepGeneration(w)
    \/ \E w \in Workers \cup Sweepers :
          CleanGeneration(w) \/ CleaningRaises(w) \/ ProcessDies(w)
    \/ BeginDelete \/ DeleteAllChunks \/ DeleteFile
    \/ \E r \in Readers : ReadActive(r) \/ QueryChunks(r)
    \/ IngestionLeaseExpires

IngestionSpec == IngestionInit /\ [][IngestionNext]_ivars

(* A submitter goes on unless it dies, a lease runs out in time, and the   *)
(* maintenance endpoint is called for ever: in the end a call finds the    *)
(* file stalled.                                                           *)
IngestionFairness ==
    /\ \A s \in Submitters :
          WF_ivars(Acquire(s) \/ Enqueue(s) \/ FailSubmission(s))
    /\ SF_ivars(\E s \in Submitters : Reclaim(s))
    /\ WF_ivars(IngestionLeaseExpires)

FairIngestionSpec == IngestionSpec /\ IngestionFairness

-----------------------------------------------------------------------------
(* Every variable stays in its type; a lease is there exactly while a job  *)
(* is under way.                                                           *)
IngestionTypeOK ==
    /\ rec \in Record
    /\ rec.lease # "none" <=> rec.status = "extracting"
    /\ rec.active <= rec.job
    /\ chunks \in [Gens -> SUBSET Parts]
    /\ queue \subseteq Gens
    /\ pgc \in [Gens -> Cleanup]
    /\ sb \in [Submitters -> Submission]
    /\ wk \in [Workers \cup Sweepers -> Work]
    /\ del \in {"no", "purge", "drop", "done"}
    /\ rd \in [Readers -> 0..MaxGen]

(* The active generation is whole until the file is deleted: no worker     *)
(* that lost its job, no compensation and no sweeper takes a chunk of it,  *)
(* and none is made active before all of it is there.                      *)
ActiveIsWhole == del = "no" /\ rec.active > 0 => chunks[rec.active] = Parts

(* A tombstone is final: no delayed worker writes chunks into a generation *)
(* that was cleaned, where nothing would delete them, and none that is or  *)
(* is being cleaned is the active one.                                     *)
TombstonesAreEmpty ==
    /\ \A g \in rec.deleted : chunks[g] = {}
    /\ rec.active \notin rec.cleaning \cup rec.deleted

(* A commit makes the newest job's generation active: generations only     *)
(* grow, and a worker whose job was taken over never wins.                 *)
NewestJobCommits ==
    [][rec'.there /\ rec'.active # rec.active
          => rec'.active = rec.job /\ rec'.active > rec.active]_ivars

(* Once the record of a fenced file is gone, so are its chunks.            *)
NoOrphanChunks == ~rec.there => \A g \in Gens : chunks[g] = {}

(* A job that stalls is committed, failed, or taken up again under a new   *)
(* generation.                                                             *)
StalledJobEnds ==
    \A g \in 1..(MaxGen - 1) :
        rec.status = "extracting" /\ rec.job = g
            ~> rec.status # "extracting" \/ rec.job > g

(* An indexed file does not fail: it stays ready until it is indexed anew. *)
ReadyStaysReady ==
    [][rec.status = "ready" /\ rec'.there => rec'.status \in {"ready", "extracting"}]_ivars

(* A reader gets all chunks of the generation it saw active.               *)
ReadIsWhole ==
    [][\A r \in Readers : rd[r] > 0 /\ rd'[r] = 0 /\ del = "no"
          => chunks[rd[r]] = Parts]_ivars
=============================================================================
