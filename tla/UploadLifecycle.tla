-------------------------- MODULE UploadLifecycle --------------------------
(***************************************************************************)
(* One file id from the intent of its upload to its removal: the two-phase *)
(* commit of upload_file and copy_file_to_space with its heartbeat and its *)
(* compensation, the cleaners of retry_pending_cleanups under a lease, and *)
(* the DELETE route (services/file_service.py over the files collection of *)
(* services/storage.py).  A file of a user has a fresh id: one upload.  A  *)
(* file of a Run's bundle has an id of its own, which every approval that  *)
(* bundles the Run uploads to.                                             *)
(***************************************************************************)
EXTENDS Naturals

CONSTANTS
    Uploaders,          \* calls of upload_file for this id
    Cleaners,           \* calls of retry_pending_cleanups, over and over
    Deleters,           \* calls of delete_file_permanently, once each
    None,               \* no cleaner
    MaxUploads,         \* bound on the intents saved
    MaxCleanupRetries   \* max_cleanup_retries

ASSUME UploadAssumption ==
    /\ None \notin Cleaners
    /\ MaxUploads \in Nat \ {0}
    /\ MaxCleanupRetries \in Nat \ {0}

VARIABLES
    file,     \* files/<id>
    blob,     \* bytes at the storage path of the id
    up,       \* local state of every uploader and its heartbeat thread
    cl,       \* local state of every cleaner
    dl,       \* program counter of every deleter
    uploads   \* intents saved: the source of fencing tokens

uvars == <<file, blob, up, cl, dl, uploads>>

Lease == {"none", "live", "expired"}

(* A cleanup token is named after its cleaner, who holds one at a time.    *)
FileRecord == [there: BOOLEAN, status: {"none", "pending_upload", "committed", "failed"},
               token: 0..MaxUploads, lease: Lease, pending: BOOLEAN,
               cleanup: {"pending", "in_progress", "deleting", "failed"},
               holder: Cleaners \cup {None}, until: Lease, retries: 0..MaxCleanupRetries,
               wait: BOOLEAN]
NoRecord == [there |-> FALSE, status |-> "none", token |-> 0, lease |-> "none",
             pending |-> FALSE, cleanup |-> "pending", holder |-> None,
             until |-> "none", retries |-> 0, wait |-> FALSE]
Intent(t) == [NoRecord EXCEPT !.there = TRUE, !.status = "pending_upload",
                              !.token = t, !.lease = "live"]
Committed == [NoRecord EXCEPT !.there = TRUE, !.status = "committed"]

Upload == [pc: {"idle", "intent", "write", "stop", "commit", "erase", "drop", "mark"},
           token: 0..MaxUploads, beat: {"off", "good", "bad", "refused"}]
Idle == [pc |-> "idle", token |-> 0, beat |-> "off"]
Cleaner == [pc: {"idle", "claim", "mark", "erase", "fence", "final", "release"},
            retries: 0..MaxCleanupRetries]
Rest == [pc |-> "idle", retries |-> 0]

(* Operators marked "mutant" stand for a bug in the definition after them  *)
(* and are used by no specification; PROJECT.json lists what each breaks.  *)

-----------------------------------------------------------------------------
(* upload_file.  An existing record ends the call; a new one is an intent. *)
CheckExisting(u) ==
    /\ up[u].pc = "idle"
    /\ ~file.there
    /\ uploads < MaxUploads
    /\ up' = [up EXCEPT ![u].pc = "intent"]
    /\ UNCHANGED <<file, blob, cl, dl, uploads>>

SaveIntent(u) ==
    /\ up[u].pc = "intent"
    /\ uploads < MaxUploads
    /\ uploads' = uploads + 1
    /\ file' = Intent(uploads + 1)
    /\ up' = [up EXCEPT ![u] = [pc |-> "write", token |-> uploads + 1, beat |-> "good"]]
    /\ UNCHANGED <<blob, cl, dl>>

WriteBlob(u) ==
    /\ up[u].pc = "write"
    /\ blob' = TRUE
    /\ up' = [up EXCEPT ![u].pc = "stop"]
    /\ UNCHANGED <<file, cl, dl, uploads>>

WriteFails(u) ==
    /\ up[u].pc = "write"
    /\ up' = [up EXCEPT ![u].pc = "erase", ![u].beat = "off"]
    /\ UNCHANGED <<file, blob, cl, dl, uploads>>

(* Mutant: neither the queue for cleanup nor its outcome is looked at.     *)
MineRegardless(u) ==
    file.there /\ file.status = "pending_upload" /\ file.token = up[u].token

(* What renewal and commit ask of the record ...                           *)
Mine(u) ==
    /\ file.there /\ file.status = "pending_upload" /\ file.token = up[u].token
    /\ file.cleanup \notin {"deleting", "failed"}
    /\ ~file.pending

(* ... and what compensation asks.                                         *)
StillOwned(u) ==
    /\ file.there /\ file.status = "pending_upload" /\ file.token = up[u].token
    /\ file.cleanup \notin {"in_progress", "deleting"}

(* The heartbeat thread; a beat in flight may outlast the join.            *)
AfterBeat(u, beat) == IF up[u].pc \in {"write", "stop"} THEN beat ELSE "off"

Renew(u) ==
    /\ up[u].beat \in {"good", "bad"}
    /\ file' = IF Mine(u) THEN [file EXCEPT !.lease = "live"] ELSE file
    /\ up' = [up EXCEPT ![u].beat = AfterBeat(u, IF Mine(u) THEN "good" ELSE "refused")]
    /\ UNCHANGED <<blob, cl, dl, uploads>>

RenewRaises(u) ==
    /\ up[u].beat \in {"good", "bad"}
    /\ up' = [up EXCEPT ![u].beat = AfterBeat(u, "bad")]
    /\ UNCHANGED <<file, blob, cl, dl, uploads>>

StopHeartbeat(u) ==
    /\ up[u].pc = "stop"
    /\ up' = [up EXCEPT ![u].pc = IF up[u].beat = "good" THEN "commit" ELSE "erase",
                        ![u].beat = "off"]
    /\ UNCHANGED <<file, blob, cl, dl, uploads>>

StopTimesOut(u) ==
    /\ up[u].pc = "stop"
    /\ up' = [up EXCEPT ![u].pc = "erase"]
    /\ UNCHANGED <<file, blob, cl, dl, uploads>>

(* A refused commit is compensated; one that raises is not (UploaderDies). *)
CommitUpload(u) ==
    /\ up[u].pc = "commit"
    /\ IF Mine(u)
       THEN /\ file' = [file EXCEPT !.status = "committed", !.pending = FALSE,
                                  !.token = 0, !.lease = "none"]
            /\ up' = [up EXCEPT ![u] = Idle]
       ELSE /\ up' = [up EXCEPT ![u].pc = "erase"]
            /\ UNCHANGED file
    /\ UNCHANGED <<blob, cl, dl, uploads>>

(* _compensate_failed_intent: erase by name, then drop what is owned.      *)
CompensateFailedIntent(u) ==
    /\ up[u].pc = "erase"
    /\ \/ blob' = FALSE /\ up' = [up EXCEPT ![u].pc = "drop"]
       \/ blob' = blob /\ up' = [up EXCEPT ![u].pc = "mark"]
    /\ UNCHANGED <<file, cl, dl, uploads>>

DropIntent(u) ==
    /\ up[u].pc = "drop"
    /\ \/ /\ file' = IF StillOwned(u) THEN NoRecord ELSE file
          /\ up' = [up EXCEPT ![u] = Idle]
       \/ file' = file /\ up' = [up EXCEPT ![u].pc = "mark"]
    /\ UNCHANGED <<blob, cl, dl, uploads>>

MarkFailed(u) ==
    /\ up[u].pc = "mark"
    /\ file' = IF StillOwned(u)
              THEN [file EXCEPT !.status = "failed", !.pending = TRUE, !.token = 0]
              ELSE file
    /\ up' = [up EXCEPT ![u] = Idle]
    /\ UNCHANGED <<blob, cl, dl, uploads>>

UploaderDies(u) ==
    /\ up[u].pc # "idle"
    /\ up' = [up EXCEPT ![u] = Idle]
    /\ UNCHANGED <<file, blob, cl, dl, uploads>>

-----------------------------------------------------------------------------
(* retry_pending_cleanups.                                                 *)
Cleanable ==
    \/ file.pending
    \/ file.status = "failed"
    \/ file.status = "pending_upload" /\ file.lease = "expired"

ListPending(c) ==
    /\ cl[c].pc = "idle"
    /\ file.there /\ Cleanable /\ file.cleanup # "failed" /\ file.until # "live"
    /\ cl' = [cl EXCEPT ![c].pc = "claim"]
    /\ UNCHANGED <<file, blob, up, dl, uploads>>

(* Mutant: a claim is not taken over.                                      *)
MayClaimOnce ==
    /\ file.there /\ Cleanable
    /\ file.status = "pending_upload" => file.lease = "expired"
    /\ file.cleanup = "pending"
    /\ file.retries < MaxCleanupRetries
    /\ ~file.wait

MayClaim ==
    /\ file.there /\ Cleanable
    /\ file.status = "pending_upload" => file.lease = "expired"
    /\ file.cleanup \in {"in_progress", "deleting"} => file.until # "live"
    /\ file.cleanup # "failed"
    /\ file.retries < MaxCleanupRetries
    /\ ~file.wait

ClaimCleanupFile(c) ==
    /\ cl[c].pc = "claim"
    /\ IF MayClaim
       THEN /\ file' = [file EXCEPT !.pending = TRUE, !.cleanup = "in_progress",
                                  !.holder = c, !.until = "live"]
            /\ cl' = [cl EXCEPT ![c] = [pc |-> "mark", retries |-> file.retries]]
       ELSE cl' = [cl EXCEPT ![c] = Rest] /\ UNCHANGED file
    /\ UNCHANGED <<blob, up, dl, uploads>>

(* Mutant: only the end of a lease is looked at, not whose it is.          *)
HoldsUnlessExpired(c) == file.there /\ file.until # "expired"

HoldsCleanup(c) == file.there /\ file.holder = c /\ file.until = "live"

MarkDeleting(c) ==
    LET marked == HoldsCleanup(c) /\ file.cleanup \in {"in_progress", "deleting"} IN
    /\ cl[c].pc = "mark"
    /\ file' = IF marked THEN [file EXCEPT !.cleanup = "deleting"] ELSE file
    /\ cl' = [cl EXCEPT ![c] = IF marked THEN [@ EXCEPT !.pc = "erase"] ELSE Rest]
    /\ UNCHANGED <<blob, up, dl, uploads>>

EraseFile(c) ==
    /\ cl[c].pc = "erase"
    /\ blob' = FALSE
    /\ cl' = [cl EXCEPT ![c].pc = "fence"]
    /\ UNCHANGED <<file, up, dl, uploads>>

(* delete_cleanup_file_with_lease fences, purges the chunks and drops.     *)
FenceDrop(c) ==
    /\ cl[c].pc = "fence"
    /\ file' = IF HoldsCleanup(c) THEN [file EXCEPT !.cleanup = "deleting"] ELSE file
    /\ cl' = [cl EXCEPT ![c] = IF HoldsCleanup(c) THEN [@ EXCEPT !.pc = "final"] ELSE Rest]
    /\ UNCHANGED <<blob, up, dl, uploads>>

DropFile(c) ==
    /\ cl[c].pc = "final"
    /\ file' = IF HoldsCleanup(c) /\ file.cleanup \in {"in_progress", "deleting"}
              THEN NoRecord ELSE file
    /\ cl' = [cl EXCEPT ![c] = Rest]
    /\ UNCHANGED <<blob, up, dl, uploads>>

CleanupRaises(c) ==
    /\ cl[c].pc \in {"erase", "fence", "final"}
    /\ cl' = [cl EXCEPT ![c].pc = "release"]
    /\ UNCHANGED <<file, blob, up, dl, uploads>>

(* Whether a failure is the last is judged by the copy that was claimed.   *)
LastCleanup(c) == cl[c].retries + 1 >= MaxCleanupRetries

ReleaseCleanup(c) ==
    /\ cl[c].pc = "release"
    /\ file' = IF HoldsCleanup(c)
              THEN [file EXCEPT !.retries = @ + 1, !.holder = None, !.until = "none",
                               !.cleanup = IF LastCleanup(c) THEN "failed" ELSE "pending",
                               !.wait = TRUE]
              ELSE file
    /\ cl' = [cl EXCEPT ![c] = Rest]
    /\ UNCHANGED <<blob, up, dl, uploads>>

CleanerDies(c) ==
    /\ cl[c].pc # "idle"
    /\ cl' = [cl EXCEPT ![c] = Rest]
    /\ UNCHANGED <<file, blob, up, dl, uploads>>

-----------------------------------------------------------------------------
(* The DELETE route, which serves committed files only.                    *)
Visible == file.there /\ file.status = "committed" /\ ~file.pending

GetFile(d) ==
    /\ dl[d] = "idle"
    /\ Visible
    /\ dl' = [dl EXCEPT ![d] = "erase"]
    /\ UNCHANGED <<file, blob, up, cl, uploads>>

DeleteBytes(d) ==
    /\ dl[d] = "erase"
    /\ \/ blob' = FALSE /\ dl' = [dl EXCEPT ![d] = "drop"]
       \/ blob' = blob /\ dl' = [dl EXCEPT ![d] = "save"]
    /\ UNCHANGED <<file, up, cl, uploads>>

DeleteRecord(d) ==
    /\ dl[d] = "drop"
    /\ file' = NoRecord
    /\ dl' = [dl EXCEPT ![d] = "over"]
    /\ UNCHANGED <<blob, up, cl, uploads>>

(* The copy that was read is saved, whatever became of the record; all     *)
(* committed records that are not pending are alike.                       *)
QueueForCleanup(d) ==
    /\ dl[d] = "save"
    /\ file' = [Committed EXCEPT !.pending = TRUE]
    /\ dl' = [dl EXCEPT ![d] = "over"]
    /\ UNCHANGED <<blob, up, cl, uploads>>

DeleterDies(d) ==
    /\ dl[d] \in {"erase", "drop", "save"}
    /\ dl' = [dl EXCEPT ![d] = "over"]
    /\ UNCHANGED <<file, blob, up, cl, uploads>>

-----------------------------------------------------------------------------
UploadLeaseExpires ==
    /\ file.lease = "live"
    /\ file' = [file EXCEPT !.lease = "expired"]
    /\ UNCHANGED <<blob, up, cl, dl, uploads>>

HolderLeaseExpires ==
    /\ file.until = "live"
    /\ file' = [file EXCEPT !.until = "expired"]
    /\ UNCHANGED <<blob, up, cl, dl, uploads>>

RetryComesDue ==
    /\ file.wait
    /\ file' = [file EXCEPT !.wait = FALSE]
    /\ UNCHANGED <<blob, up, cl, dl, uploads>>

UploadInit ==
    /\ file = NoRecord
    /\ blob = FALSE
    /\ up = [u \in Uploaders |-> Idle]
    /\ cl = [c \in Cleaners |-> Rest]
    /\ dl = [d \in Deleters |-> "idle"]
    /\ uploads = 0

Transfer(u) ==
    \/ SaveIntent(u) \/ WriteBlob(u) \/ StopHeartbeat(u) \/ CommitUpload(u)
    \/ CompensateFailedIntent(u) \/ DropIntent(u) \/ MarkFailed(u)

Clean(c) ==
    \/ ListPending(c) \/ ClaimCleanupFile(c) \/ MarkDeleting(c) \/ EraseFile(c)
    \/ FenceDrop(c) \/ DropFile(c) \/ ReleaseCleanup(c)

Delete(d) == GetFile(d) \/ DeleteBytes(d) \/ DeleteRecord(d) \/ QueueForCleanup(d)

UploadNext ==
    \/ \E u \in Uploaders :
          \/ CheckExisting(u) \/ Transfer(u) \/ WriteFails(u) \/ StopTimesOut(u)
          \/ Renew(u) \/ RenewRaises(u) \/ UploaderDies(u)
    \/ \E c \in Cleaners : Clean(c) \/ CleanupRaises(c) \/ CleanerDies(c)
    \/ \E d \in Deleters : Delete(d) \/ DeleterDies(d)
    \/ UploadLeaseExpires \/ HolderLeaseExpires \/ RetryComesDue

UploadSpec == UploadInit /\ [][UploadNext]_uvars

Effective(c) == cl[c].pc \notin {"idle", "claim"} => HoldsCleanup(c)

(* Calls go on unless they die, time passes, and the maintenance endpoint  *)
(* is called again and again: no step of a sweep is for ever hit by a      *)
(* death or by the end of its lease.                                       *)
UploadFairness ==
    /\ \A u \in Uploaders : WF_uvars(Transfer(u))
    /\ \A c \in Cleaners : WF_uvars(cl[c].pc # "idle" /\ Clean(c))
    /\ WF_uvars(UploadLeaseExpires) /\ WF_uvars(HolderLeaseExpires)
    /\ WF_uvars(RetryComesDue)
    /\ \A pc \in {"idle", "claim", "mark", "erase", "fence", "final", "release"} :
          SF_uvars(\E c \in Cleaners : cl[c].pc = pc /\ Effective(c) /\ Clean(c))

FairUploadSpec == UploadSpec /\ UploadFairness

-----------------------------------------------------------------------------
(* Every variable stays in its type; a cleanup lease is there exactly      *)
(* while a cleanup is under way, and a cleanup is given up exactly when    *)
(* every retry was spent, though a cleaner judges that by its own copy.    *)
UploadTypeOK ==
    /\ file \in FileRecord
    /\ file.holder # None <=> file.cleanup \in {"in_progress", "deleting"}
    /\ file.holder # None <=> file.until # "none"
    /\ file.cleanup = "failed" <=> file.retries >= MaxCleanupRetries
    /\ blob \in BOOLEAN
    /\ up \in [Uploaders -> Upload]
    /\ cl \in [Cleaners -> Cleaner]
    /\ dl \in [Deleters -> {"idle", "erase", "drop", "save", "over"}]
    /\ uploads \in 0..MaxUploads

Requested == \E d \in Deleters : dl[d] # "idle"

(* A file that is listed, searched and served has its bytes until its      *)
(* deletion is asked for: neither a cleaner that is late nor the            *)
(* compensation of a call that failed erases them.                         *)
VisibleHasBytes == Visible => blob \/ Requested

(* A file once queued for cleanup never comes back, so that an upload      *)
(* whose lease ran out cannot commit any more; and no cleaner hides a file *)
(* that is visible, however old its list: only a requested deletion does.  *)
CleanupIsOneWay ==
    [][/\ file.pending => ~file'.there \/ file'.pending
       /\ Visible /\ ~Requested => Visible']_uvars

(* An upload does not stay pending: it commits, it is removed, or its      *)
(* cleanup is given up.                                                    *)
PendingUploadEnds ==
    file.status = "pending_upload" ~> file.status # "pending_upload" \/ file.cleanup = "failed"

(* Bytes whose record is gone are those of a call that is still running:   *)
(* failed calls leave no orphans behind.                                   *)
NoOrphanBytes == blob /\ ~file.there => \E u \in Uploaders : up[u].pc # "idle"
=============================================================================
