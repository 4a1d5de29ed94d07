-------------------------- MODULE ActionExecution --------------------------
(***************************************************************************)
(* One confirmed action of StudioTower, executed by Cloud Tasks workers    *)
(* under a lease.  The store (services/storage.py) keeps one execution     *)
(* record; every store call is one transaction, hence one action here.     *)
(* Between two store calls a worker (DeliverableExecutionService.          *)
(* execute_action) holds only its own copies, so calls of several workers, *)
(* of the reclaimer and of the clock interleave freely.                    *)
(*                                                                         *)
(* uuid4 tokens are numbered by the claim that drew them (lease_owner is   *)
(* drawn afresh with the token, so the token stands for the pair).  Time   *)
(* is abstracted to what the code compares: a lease is absent, live or     *)
(* expired, and next_retry_at is in the future or not.                     *)
(***************************************************************************)
EXTENDS Naturals, FiniteSets

CONSTANTS
    Workers,       \* concurrent calls of execute_action
    Backend,       \* "firestore" (production) or "memory" (MemoryStore)
    Critical,      \* is_critical_risk of the generated deliverable
    MaxAttempts,   \* max_attempts of the record and of the reclaimer
    MaxVersion,    \* bound: no heartbeat is taken at this state_version
    MaxGeneration  \* bound: highest dispatch generation that names a task

ASSUME ConstantsAssumption ==
    /\ Backend \in {"firestore", "memory"}
    /\ Critical \in BOOLEAN
    /\ MaxAttempts \in Nat \ {0}
    /\ MaxVersion \in Nat
    /\ MaxGeneration \in Nat \ {0, 1}

VARIABLES
    exec,    \* action_executions/<action_id>: the execution half of the record
    disp,    \* the dispatch half of the same record
    run,     \* runs/<run_id>
    art,     \* the deliverable: artifacts/<id>, files/<id> and its bytes
    tasks,   \* the Cloud Tasks queue: one deduplicating name per generation
    wk,      \* local state of every call of execute_action
    scan,    \* rows a reclaimer has listed and not finished with
    claims   \* number of leases granted so far: the source of fresh tokens

vars == <<exec, disp, run, art, tasks, wk, scan, claims>>

NoToken == 0

ExecStatus == {"pending", "running", "awaiting_approval", "completed", "failed"}
RunStatus  == {"none", "running", "awaiting_approval", "completed", "failed"}
GateStatus == {"none", "pending", "approving", "approved", "rejected", "failed"}
Visibility == {"none", "pending_approval", "published", "rejected",
               "cleaning", "purged", "failed"}

ExecRecord == [status: ExecStatus, version: Nat, attempts: Nat, token: Nat,
               lease: {"none", "live", "expired"}, retryWait: BOOLEAN]
DispRecord == [status: {"pending", "dispatching", "dispatched",
                        "confirmation_pending", "failed"},
               version: Nat, generation: Nat, token: Nat, live: BOOLEAN,
               wait: BOOLEAN, named: BOOLEAN]
RunRecord  == [status: RunStatus, gate: GateStatus, dtoken: Nat, dlive: BOOLEAN,
               commit: {"none", "uncertain", "committed", "aborted"}]
ArtRecord  == [vis: Visibility, pub: Visibility, blob: BOOLEAN]
Row        == [token: Nat, terminal: BOOLEAN, reclaimed: BOOLEAN]

Created == [status |-> "pending", version |-> 1, attempts |-> 0,
            token |-> NoToken, lease |-> "none", retryWait |-> FALSE]
Dispatched == [status |-> "dispatched", version |-> 2, generation |-> 2,
               token |-> NoToken, live |-> FALSE, wait |-> FALSE, named |-> TRUE]
NoRun == [status |-> "none", gate |-> "none", dtoken |-> NoToken,
          dlive |-> FALSE, commit |-> "none"]
NoArt == [vis |-> "none", pub |-> "none", blob |-> FALSE]

(* The steps of execute_action, named for what the call does next.         *)
Working  == {"get_run", "generate", "verify"}
Saving   == {"save_file", "save_artifact", "cas_run", "save_exec", "emit"}
Failing  == {"compensate", "fail_exec", "fail_run"}
Steps    == {"idle", "leaked"} \cup Working \cup Saving \cup Failing

WorkerState == [pc: Steps, task: Nat, rec: ExecRecord, disp: DispRecord,
                version: Nat, hb: {"off", "on", "lost", "late"}, blobSaved: BOOLEAN]

Idle == [pc |-> "idle", task |-> 0, rec |-> Created, disp |-> Dispatched,
         version |-> 0, hb |-> "off", blobSaved |-> FALSE]

Goto(w, step) == wk' = [wk EXCEPT ![w].pc = step]

(* Operators marked "mutant" stand for a bug in the definition after them  *)
(* and are used by no specification; PROJECT.json lists what each breaks.  *)

(* Mutant: the next version is counted from the copy.                      *)
WrittenBackOverCopy(c, status) ==
    [c EXCEPT !.status    = status,
              !.version   = c.version + 1,
              !.lease     = IF exec.lease = "live" THEN "live" ELSE "expired",
              !.retryWait = c.retryWait /\ exec.retryWait]

(***************************************************************************)
(* The record as a worker with copy c writes it back: every field of the   *)
(* copy, the next version, and a lease_until that is no later than the one *)
(* the store holds.  (Only a RUNNING record's lease is ever looked at, and *)
(* nothing shortens it: a copy's lease lives at most while the store's     *)
(* does, and is taken to live as long.)                                    *)
(***************************************************************************)
WrittenBack(c, status) ==
    [c EXCEPT !.status    = status,
              !.version   = exec.version + 1,
              !.lease     = IF exec.lease = "live" THEN "live" ELSE "expired",
              !.retryWait = c.retryWait /\ exec.retryWait]

(* Its dispatch half: the copy again (ActionLifecycle lets its lease age). *)
WrittenBackDisp(c) == [c EXCEPT !.wait = c.wait /\ disp.wait]

(* Mutant: a FAILED record is claimed however often it was tried.          *)
ClaimableUnbounded ==
    \/ exec.status = "pending"
    \/ exec.status = "running" /\ exec.lease # "live" /\ exec.attempts < MaxAttempts
    \/ exec.status = "failed" /\ ~exec.retryWait

(* Mutant: a RUNNING record is claimed under a live lease.                 *)
ClaimableWhileHeld ==
    \/ exec.status = "pending"
    \/ exec.status \in {"running", "failed"} /\ exec.attempts < MaxAttempts

(* claim_action_execution grants a lease exactly to these records.         *)
Claimable ==
    \/ exec.status = "pending"
    \/ exec.status = "running" /\ exec.lease # "live" /\ exec.attempts < MaxAttempts
    \/ exec.status = "failed" /\ exec.attempts < MaxAttempts /\ ~exec.retryWait

(* ... fails these for good ...                                            *)
Exhausted ==
    exec.status = "running" /\ exec.lease # "live" /\ exec.attempts >= MaxAttempts

(* ... and a heartbeat of the holder of token t extends these.             *)
Beats(t) == exec.status = "running" /\ exec.token = t /\ exec.lease = "live"

-----------------------------------------------------------------------------
(* A task is delivered: Cloud Tasks keeps it queued until a 2xx response,  *)
(* so it may be delivered again while, or after, a call is processing it.  *)

(* Mutant: the claim does not advance state_version.                       *)
GrantedSameVersion ==
    [exec EXCEPT !.status = "running", !.lease = "live", !.token = claims + 1,
                 !.attempts = exec.attempts + 1]

(* The record under its next lease.                                        *)
Granted ==
    [exec EXCEPT !.status = "running", !.lease = "live", !.token = claims + 1,
                 !.attempts = exec.attempts + 1, !.version = exec.version + 1]

(* The delivery wins the lease; the heartbeat tracker starts.              *)
ClaimAction(w, g) ==
    /\ wk[w].pc = "idle"
    /\ tasks[g] = "queued"
    /\ Claimable
    /\ claims' = claims + 1
    /\ exec' = Granted
    /\ wk' = [wk EXCEPT ![w] = [pc |-> "get_run", task |-> g, rec |-> exec',
                                disp |-> disp, version |-> exec'.version,
                                hb |-> "on", blobSaved |-> FALSE]]
    /\ UNCHANGED <<disp, run, art, tasks, scan>>

(* The lease is held, or the action is terminal: a safe no-op, answered    *)
(* with 200, so the task leaves the queue.                                 *)
ClaimRefused(w, g) ==
    /\ wk[w].pc = "idle"
    /\ tasks[g] = "queued"
    /\ ~Claimable
    /\ exec' = IF Exhausted THEN [exec EXCEPT !.status = "failed"] ELSE exec
    /\ tasks' = [tasks EXCEPT ![g] = "done"]
    /\ UNCHANGED <<disp, run, art, wk, scan, claims>>

(* The linked Run is fetched, and created if this is the first attempt.    *)
GetRun(w) ==
    /\ wk[w].pc = "get_run"
    /\ run' = IF run.status = "none" THEN [run EXCEPT !.status = "running"] ELSE run
    /\ Goto(w, "generate")
    /\ UNCHANGED <<exec, disp, art, tasks, scan, claims>>

(* The store is unavailable there: the exception leaves execute_action     *)
(* outside its try block, and nothing stops the heartbeat thread.          *)
GetRunRaises(w) ==
    /\ wk[w].pc = "get_run"
    /\ wk' = [wk EXCEPT ![w].pc = "leaked"]
    /\ UNCHANGED <<exec, disp, run, art, tasks, scan, claims>>

(* The content is generated and its bytes are uploaded, or either fails,   *)
(* the upload perhaps after the bytes were written.                        *)
UploadBlob(w) ==
    /\ wk[w].pc = "generate"
    /\ art' = [art EXCEPT !.blob = TRUE]
    /\ wk' = [wk EXCEPT ![w].pc = "verify", ![w].blobSaved = TRUE]
    /\ UNCHANGED <<exec, disp, run, tasks, scan, claims>>

GenerateFails(w) ==
    /\ wk[w].pc = "generate"
    /\ wk' = [wk EXCEPT ![w].pc = "compensate", ![w].hb = "off"]
    /\ art' \in {art, [art EXCEPT !.blob = TRUE]}
    /\ UNCHANGED <<exec, disp, run, tasks, scan, claims>>

(* stop_and_verify: healthy, and the version the tracker saw is the fence. *)
VerifyLease(w) ==
    /\ wk[w].pc = "verify"
    /\ wk[w].hb = "on"
    /\ wk' = [wk EXCEPT ![w].pc = "save_file", ![w].hb = "off"]
    /\ UNCHANGED <<exec, disp, run, art, tasks, scan, claims>>

(* A beat was lost, or the beat in flight outlasts the join: the uploaded  *)
(* bytes are deleted (object and cache) and the call fails.                *)
VerifyFails(w) ==
    /\ wk[w].pc = "verify"
    /\ wk[w].hb \in {"on", "lost"}
    /\ art' = [art EXCEPT !.blob = FALSE]
    /\ wk' = [wk EXCEPT ![w].pc = "compensate",
                        ![w].hb = IF @ = "on" THEN "late" ELSE "off"]
    /\ UNCHANGED <<exec, disp, run, tasks, scan, claims>>

(* Mutants: is_critical_risk is not looked at.                             *)
PendingRegardless == "pending_approval"
PublishedRegardless == "published"

(* save_file and save_artifact_record are plain writes.                    *)
Published == IF Critical THEN "pending_approval" ELSE "published"

SaveFile(w) ==
    /\ wk[w].pc = "save_file"
    /\ art' = [art EXCEPT !.pub = Published]
    /\ Goto(w, "save_artifact")
    /\ UNCHANGED <<exec, disp, run, tasks, scan, claims>>

SaveArtifact(w) ==
    /\ wk[w].pc = "save_artifact"
    /\ art' = [art EXCEPT !.vis = Published]
    /\ Goto(w, "cas_run")
    /\ UNCHANGED <<exec, disp, run, tasks, scan, claims>>

(* The status the action and its Run end the attempt with.                 *)
Outcome == IF Critical THEN "awaiting_approval" ELSE "completed"

(* A critical deliverable opens a new gate, which nobody is deciding.      *)
Closed(r) ==
    IF Critical
    THEN [r EXCEPT !.status = Outcome, !.gate = "pending",
                   !.dtoken = NoToken, !.dlive = FALSE]
    ELSE [r EXCEPT !.status = Outcome]

(* Mutant: the Run is saved whatever has become of it.                     *)
MayCloseAlways == TRUE

(* MemoryStore hands out the live Run, which is assigned before the CAS;   *)
(* Firestore changes it only by the CAS from RUNNING.                      *)
MayClose == Backend = "memory" \/ run.status = "running"

CasRun(w) ==
    /\ wk[w].pc = "cas_run"
    /\ run' = IF MayClose THEN Closed(run) ELSE run
    /\ Goto(w, "save_exec")
    /\ UNCHANGED <<exec, disp, art, tasks, scan, claims>>

(* Mutant: the outcome is fenced by the version alone.                     *)
FencedByVersion(w) == exec.version = wk[w].version

Fenced(w) == exec.version = wk[w].version /\ exec.token = wk[w].rec.token

(* save_action_execution_fenced with version, owner and token: the whole   *)
(* record, its dispatch half included, is replaced by the worker's copy.   *)
SaveExec(w) ==
    /\ wk[w].pc = "save_exec"
    /\ IF Fenced(w)
       THEN /\ exec' = WrittenBack(wk[w].rec, Outcome)
            /\ disp' = WrittenBackDisp(wk[w].disp)
            /\ Goto(w, "emit")
       ELSE /\ Goto(w, "compensate")
            /\ UNCHANGED <<exec, disp>>
    /\ UNCHANGED <<run, art, tasks, scan, claims>>

(* The activity event is recorded and the task answered with 200.          *)
EmitEvent(w) ==
    /\ wk[w].pc = "emit"
    /\ tasks' = [tasks EXCEPT ![wk[w].task] = "done"]
    /\ wk' = [wk EXCEPT ![w] = Idle]
    /\ UNCHANGED <<exec, disp, run, art, scan, claims>>

(* The store is unavailable for one of these calls.                        *)
StoreRaises(w) ==
    /\ wk[w].pc \in Saving
    /\ Goto(w, "compensate")
    /\ UNCHANGED <<exec, disp, run, art, tasks, scan, claims>>

(* The except path: delete_artifact_blob drops the cached bytes, which are *)
(* the only ones when no object store lies behind the cache ...            *)
Compensate(w) ==
    /\ wk[w].pc = "compensate"
    /\ art' = IF wk[w].blobSaved /\ Backend = "memory"
              THEN [art EXCEPT !.blob = FALSE] ELSE art
    /\ Goto(w, "fail_exec")
    /\ UNCHANGED <<exec, disp, run, tasks, scan, claims>>

(* ... the record is written FAILED, fenced by the version alone ...       *)
FailExec(w) ==
    /\ wk[w].pc = "fail_exec"
    /\ IF exec.version = wk[w].version
       THEN /\ exec' = WrittenBack(wk[w].rec, "failed")
            /\ disp' = WrittenBackDisp(wk[w].disp)
       ELSE UNCHANGED <<exec, disp>>
    /\ Goto(w, "fail_run")
    /\ UNCHANGED <<run, art, tasks, scan, claims>>

(* ... an error of that write being swallowed ...                          *)
FailExecRaises(w) ==
    /\ wk[w].pc = "fail_exec"
    /\ Goto(w, "fail_run")
    /\ UNCHANGED <<exec, disp, run, art, tasks, scan, claims>>

(* ... and the Run is assigned FAILED; save_run creates, never updates, so *)
(* Firestore keeps the Run it has.  The 500 leaves the task in the queue.  *)
(* (A beat still in flight is taken to end first: it concerns other data.) *)
FailRun(w) ==
    /\ wk[w].pc = "fail_run"
    /\ wk[w].hb # "late"
    /\ run' = IF Backend = "memory" THEN [run EXCEPT !.status = "failed"] ELSE run
    /\ wk' = [wk EXCEPT ![w] = Idle]
    /\ UNCHANGED <<exec, disp, art, tasks, scan, claims>>

-----------------------------------------------------------------------------
(* The heartbeat thread.                                                   *)
Heartbeat(w) ==
    /\ wk[w].hb = "on"
    /\ Beats(wk[w].rec.token)
    /\ exec.version < MaxVersion
    /\ exec' = [exec EXCEPT !.version = @ + 1]
    /\ wk' = [wk EXCEPT ![w].version = exec'.version]
    /\ UNCHANGED <<disp, run, art, tasks, scan, claims>>

(* The store refuses the beat, or cannot be reached: the thread ends.      *)
HeartbeatLost(w) ==
    /\ wk[w].hb = "on"
    /\ wk' = [wk EXCEPT ![w].hb = "lost"]
    /\ UNCHANGED <<exec, disp, run, art, tasks, scan, claims>>

(* The beat that outlasted the join is applied after all; the tracker may  *)
(* or may not have its version when the except path reads it.              *)
HeartbeatLate(w) ==
    /\ wk[w].hb = "late"
    /\ exec' = IF Beats(wk[w].rec.token)
               THEN [exec EXCEPT !.version = @ + 1] ELSE exec
    /\ \E v \in {wk[w].version, exec'.version} :
          wk' = [wk EXCEPT ![w].hb = "off",
                           ![w].version = IF exec' = exec THEN @ ELSE v]
    /\ UNCHANGED <<disp, run, art, tasks, scan, claims>>

(* The process of a worker dies, its heartbeat thread with it.             *)
Crash(w) ==
    /\ wk[w].pc # "idle"
    /\ wk' = [wk EXCEPT ![w] = Idle]
    /\ UNCHANGED <<exec, disp, run, art, tasks, scan, claims>>

(* Time passes.                                                            *)
LeaseExpires ==
    /\ exec.lease = "live"
    /\ exec' = [exec EXCEPT !.lease = "expired"]
    /\ UNCHANGED <<disp, run, art, tasks, wk, scan, claims>>

BackoffElapses ==
    /\ exec.retryWait
    /\ exec' = [exec EXCEPT !.retryWait = FALSE]
    /\ UNCHANGED <<disp, run, art, tasks, wk, scan, claims>>

-----------------------------------------------------------------------------
(* Mutant: only records with attempts left are listed.                     *)
ListableForRetry ==
    exec.status = "running" /\ exec.lease = "expired" /\ exec.attempts < MaxAttempts

Listable == exec.status = "running" /\ exec.lease = "expired"

Listed == [token |-> exec.token, reclaimed |-> FALSE,
           terminal |-> exec.attempts >= MaxAttempts]

(* reclaim_stalled_action_executions: list, then per row reclaim and       *)
(* re-dispatch, each a call of its own.                                    *)
ListStalled ==
    /\ Listable
    /\ scan' = scan \cup {Listed}
    /\ UNCHANGED <<exec, disp, run, art, tasks, wk, claims>>

(* Mutant: a status that ExecutionStatus does not have.                    *)
ReleasedAsStalled(status, wait) ==
    [exec EXCEPT !.status = "stalled", !.token = NoToken, !.lease = "none",
                 !.retryWait = wait]

Released(status, wait) ==
    [exec EXCEPT !.status = status, !.token = NoToken, !.lease = "none",
                 !.retryWait = wait]

(* The terminal branch.  In Firestore its transaction reads the Run after  *)
(* it has written the execution, which the client refuses: nothing is      *)
(* written and the exception ends the scan.                                *)
ReclaimTerminal(s) ==
    /\ s \in scan
    /\ s.terminal
    /\ scan' = scan \ {s}
    /\ IF Backend = "memory" /\ exec.token = s.token
       THEN /\ exec' = Released("failed", exec.retryWait)
            /\ run' = IF run.status = "running"
                      THEN [run EXCEPT !.status = "failed"] ELSE run
       ELSE UNCHANGED <<exec, run>>
    /\ UNCHANGED <<disp, art, tasks, wk, claims>>

(* Mutant: the token that was listed is not compared.                      *)
MayReleaseAnyToken(s) == exec.lease # "live"

MayRelease(s) == exec.token = s.token /\ exec.lease # "live"

ReclaimForRetry(s) ==
    /\ s \in scan
    /\ ~s.terminal
    /\ ~s.reclaimed
    /\ IF MayRelease(s)
       THEN /\ exec' = Released("pending", TRUE)
            /\ scan' = (scan \ {s}) \cup {[s EXCEPT !.reclaimed = TRUE]}
       ELSE /\ scan' = scan \ {s}
            /\ UNCHANGED exec
    /\ UNCHANGED <<disp, run, art, tasks, wk, claims>>

(* dispatch_action with the default dispatch_generation 1: create_task, or *)
(* AlreadyExists absorbed when the name was used before.                   *)
Redispatch(s) ==
    /\ s \in scan
    /\ s.reclaimed
    /\ scan' = scan \ {s}
    /\ tasks' = [tasks EXCEPT ![1] = IF @ = "absent" THEN "queued" ELSE @]
    /\ UNCHANGED <<exec, disp, run, art, wk, claims>>

(* The reclaimer dies, or its dispatch raises and is logged.               *)
ReclaimerStops(s) ==
    /\ s \in scan
    /\ scan' = scan \ {s}
    /\ UNCHANGED <<exec, disp, run, art, tasks, wk, claims>>

-----------------------------------------------------------------------------
(* A confirmed action whose task is in the queue.                          *)
Init ==
    /\ exec = Created
    /\ disp = Dispatched
    /\ run = NoRun
    /\ art = NoArt
    /\ tasks = [g \in 1..MaxGeneration |-> IF g = 2 THEN "queued" ELSE "absent"]
    /\ wk = [w \in Workers |-> Idle]
    /\ scan = {}
    /\ claims = 0

Deliver(w) == \E g \in 1..MaxGeneration : ClaimAction(w, g) \/ ClaimRefused(w, g)

(* What a call does next when nothing goes wrong outside it.               *)
Proceed(w) ==
    \/ GetRun(w) \/ UploadBlob(w) \/ VerifyLease(w) \/ VerifyFails(w)
    \/ SaveFile(w) \/ SaveArtifact(w) \/ CasRun(w) \/ SaveExec(w) \/ EmitEvent(w)
    \/ Compensate(w) \/ FailExec(w) \/ FailRun(w)

Disturb(w) ==
    \/ GetRunRaises(w) \/ GenerateFails(w) \/ StoreRaises(w) \/ FailExecRaises(w)
    \/ HeartbeatLost(w) \/ HeartbeatLate(w) \/ Crash(w)

Recover(s) == ReclaimTerminal(s) \/ ReclaimForRetry(s) \/ Redispatch(s)

Next ==
    \/ \E w \in Workers : Deliver(w) \/ Proceed(w) \/ Disturb(w) \/ Heartbeat(w)
    \/ LeaseExpires \/ BackoffElapses \/ ListStalled
    \/ \E s \in scan : Recover(s) \/ ReclaimerStops(s)

Spec == Init /\ [][Next]_vars

(***************************************************************************)
(* Fairness: a running call goes on, a queued task is delivered, backoff   *)
(* elapses, the maintenance endpoint keeps scanning, and a scan does not   *)
(* die before the same row each time (strong fairness: every death takes   *)
(* the row away); a lease runs out once no heartbeat thread extends it.    *)
(***************************************************************************)
Unattended == \A w \in Workers : wk[w].hb # "on"

Fairness ==
    /\ \A w \in Workers :
          /\ WF_vars(Deliver(w)) /\ WF_vars(Proceed(w))
          /\ WF_vars(HeartbeatLate(w))
    /\ WF_vars(Unattended /\ LeaseExpires)
    /\ WF_vars(BackoffElapses)
    /\ WF_vars(ListStalled)
    /\ \A t \in 1..MaxAttempts :
          SF_vars(\E s \in scan : s.token = t /\ Recover(s))

FairSpec == Spec /\ Fairness
-----------------------------------------------------------------------------
(* Every variable stays in its type; the values are those of the models in *)
(* models/action_proposal.py, models/run.py and models/file_record.py.     *)
TypeOK ==
    /\ exec \in ExecRecord
    /\ disp \in DispRecord
    /\ run \in RunRecord
    /\ art \in ArtRecord
    /\ tasks \in [1..MaxGeneration -> {"absent", "queued", "done"}]
    /\ wk \in [Workers -> WorkerState]
    /\ scan \subseteq Row
    /\ claims \in Nat

(***************************************************************************)
(* Why the properties below hold, as an inductive invariant.  A claim      *)
(* advances the attempts, the token and the version together, so a call    *)
(* whose token is not the newest has lost the version fence for good; and  *)
(* a row listed by the reclaimer concerns the lease that was listed, which *)
(* never comes to life again.                                              *)
(***************************************************************************)
Active(w) == wk[w].pc # "idle"

CallLease(w) ==
    /\ wk[w].rec.token \in 1..claims
    /\ wk[w].rec.attempts = wk[w].rec.token
    /\ wk[w].version <= exec.version
    /\ wk[w].rec.token < claims => wk[w].version < exec.version

RowLease(s) ==
    /\ s.token \in 1..claims
    /\ ~s.terminal => s.token < MaxAttempts
    /\ s.token = exec.token => exec.lease # "live"

RecordLease ==
    /\ exec.attempts = claims
    /\ claims <= MaxAttempts
    /\ exec.token \in {NoToken, claims}
    /\ exec.token = NoToken => exec.lease # "live"
    /\ exec.status = "running" => exec.token = claims /\ claims > 0
    /\ exec.status = "pending" => claims < MaxAttempts

LeaseInvariant ==
    /\ RecordLease
    /\ \A w \in Workers : Active(w) => CallLease(w)
    /\ \A s \in scan : RowLease(s)

(* The deliverable is generated under at most MaxAttempts leases in all,   *)
(* although failing workers write back whole copies of the record and the  *)
(* reclaimer makes it claimable again without looking at its status.       *)
LeasesBounded == claims <= MaxAttempts

(* A worker that lost its lease to a newer claim can no longer pass the    *)
(* version fence, which is all that guards its FAILED write.               *)
StaleWorkerFenced ==
    \A w \in Workers :
        (wk[w].pc # "idle" /\ exec.status = "running" /\ wk[w].rec.token # exec.token)
            => wk[w].version < exec.version

(* Under Firestore a COMPLETED action has a COMPLETED Run and a published  *)
(* artifact and file, whichever of its workers wrote each of them.         *)
CompletedIsPublished ==
    exec.status = "completed" =>
        run.status = "completed" /\ art.vis = "published" /\ art.pub = "published"

(* A live lease is exclusive: while it lasts nobody else claims, reclaims  *)
(* or writes the record under another token.                               *)
LiveLeaseIsExclusive ==
    [][exec.status = "running" /\ exec.lease = "live" => exec'.token = exec.token]_vars

(* The copies that stale workers write back roll back neither the version  *)
(* nor the attempts that have been spent.                                  *)
RecordNeverRollsBack ==
    [][exec'.version >= exec.version /\ exec'.attempts >= exec.attempts]_vars

(* Only the worker that was granted the latest lease commits the outcome.  *)
LatestLeaseCommits ==
    [][exec'.status = Outcome /\ exec.status # Outcome
          => exec'.token = claims /\ exec.token = claims]_vars

(* reclaim_stalled_action_executions recovers stalled executions: one that *)
(* has reached its outcome is never made pending or failed by a row listed *)
(* before.                                                                 *)
OutcomeIsFinal ==
    [][exec.status = Outcome => exec'.status = Outcome]_vars

(* A published artifact keeps its bytes: the compensation of a failed or   *)
(* stale attempt deletes only what nobody has committed.                   *)
PublishedHasBytes ==
    art.vis = "published" /\ exec.status = "completed" => art.blob

(* An execution whose lease ran out leaves that state: it is reclaimed,    *)
(* failed for good, or committed.                                          *)
Stalled == exec.status = "running" /\ exec.lease = "expired"

StalledIsReclaimed == Stalled ~> ~Stalled

(* A stalled execution that was made pending for retry gets a worker again: *)
(* the reclaimer re-dispatches it.                                         *)
ReclaimedIsRedispatched ==
    exec.status = "pending" /\ exec.attempts > 0 ~> exec.status # "pending"

(* A lease, once granted, ends: the action commits, fails, or is reclaimed. *)
RunningEnds == exec.status = "running" ~> exec.status # "running"
=============================================================================
