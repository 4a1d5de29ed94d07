# StudioTower in TLA+

StudioTower turns chat proposals into deliverables. A user confirms an action; a
worker generates the deliverable under a lease; a critical one waits at a risk
gate until somebody approves, which publishes it. All of it runs on stateless
instances over one store, with retries, duplicate deliveries and dying
instances everywhere. This directory models the parts where that is hard,
model-checks them with TLC, and proves with TLAPS every safety property of those
checks for every value of the constants.

Source paths below are relative to `src/backend/app/`.

## The system

| component | state it keeps | operations | what is hard |
| --- | --- | --- | --- |
| Action execution (`services/deliverable_service.py`, `services/storage.py`) | `action_executions` (status, attempts, lease, `state_version`), the linked Run, file, artifact and bytes | `execute_action` in some ten store calls, its heartbeat thread, `claim/heartbeat/save_fenced/reclaim` | duplicate deliveries, lost leases, late heartbeats, compensation after a partial write |
| Action dispatch (`api/chat_routes.py`, `services/action_runner.py`, `services/deliverable_service.py`) | dispatch half of the same record, the Cloud Tasks queue | confirm, `claim_action_dispatch`, `create_task`, `record_dispatch_*`, `reclaim_pending_dispatches` | a call that raises after it worked, dying dispatchers, generations and task names |
| Approval gate and Run lifecycle (`api/run_routes.py`, `services/deliverable_service.py`, `integrations/pdx_engine.py`) | the Run with its gate and decision lease, bundle artifacts, execution record | approve, reject, reconcile, retry | expired decisions that go on, commits with unknown outcome, crossing calls |
| Artifact cleanup (`services/deliverable_service.py`, `services/storage.py`) | `artifact_cleanups` jobs, the artifact's and the file's marks, bytes | enqueue, list, claim, check, cancel, delete, complete, record failure | deletion beside publication, dying sweepers, several jobs per artifact |
| Chat turn idempotency (`api/chat_routes.py`, `services/storage.py`, `models/idempotency.py`) | one record per client key: status, lease, results | claim, heartbeat, fenced update, completion, takeover | a turn retried while the first runs, or after it died |
| Ingestion (`services/ingestion_runner.py`, `services/storage.py`) | file record: active and target generation, job, lease; chunks per generation | acquire, save chunks, commit, fail, reclaim, clean generations | a run superseded while it writes; deletion of a file under it |
| Upload, copy, deletion (`services/file_service.py`, `api/file_routes.py`) | file record: upload status, fencing token, cleanup lease | intent, upload, commit, renew, delete, cleanup | crashes between bytes and record, cleanup beside a late upload |
| Activity outbox (`services/activity_service.py`, `services/storage.py`) | `activity_outbox` entries with lease and attempts, `activity_events` | stage with or without the event, list, claim, record, settle, back off, give up | at-least-once delivery with lease takeover, judged by stale listings |
| Space governance (`services/space_service.py`, `api/space_routes.py`) | memberships with roles, invites with their uses | join, leave, add, change role, remove, transfer, invite, accept, revoke | calls that check one document and write another |
| Telemetry verification (`services/telemetry_service.py`, `services/storage.py`) | Run telemetry status, attempts, verification lease; the scan cursor | end of the Run, claim, query, update, reconcile, list pending Runs | spans that arrive late, leases that expire under a slow query, a cursor several scans move |
| Run diagnosis (`services/diagnosis_service.py`, `services/storage.py`) | diagnoses, the Run's pointer and revision, the claim, a cache per process | look up, claim, poll, run the engine, commit, fail | a claim that expires under a slow model call, chat turns that claim nothing |
| Sandbox spaces (`api/maintenance_routes.py`, `services/storage.py`) | the space's marks, `sandbox_cleanup_jobs` with phase, cursor and lease | cascade deletion by phases and batches, sweep, teardown, verification | restart between batches, documents added behind the cascade, bytes that arrive after the erasure |
| Messages and pagination, metric rollups, rate limits | messages, hourly counters, windows of timestamps | one query or one transaction each | boundaries of data rather than interleavings (see "Not modelled") |
| Readiness, lineage, retrieval, rendering, agent brain, Grafana and OTLP, authentication and settings, frontend, command-line tools | none, or views of the above | - | I/O, text and data rather than control |

What makes each of the modelled ones correct:

- Action execution: while a lease lives nobody else moves the record; a worker
  that lost its lease writes nothing that counts; the attempts stay within
  `max_attempts`; what is COMPLETED is published; a stalled execution is
  reclaimed or failed.
- Action dispatch: a record that says "dispatched" tells the truth about the
  queue; two dispatchers never hold one fence; a confirmed action gets into the
  queue; it gets there twice only after a recorded failure.
- Approval gate: an approval takes the Run, the action and the artifacts
  together or not at all, is committed by the latest decision and is final;
  nothing is published without it; a decision that was begun ends.
- Artifact cleanup: what is published is never un-published; the mark that
  blocks publication goes when its jobs are over; every pending job ends.
- Chat turns: one message id is answered once, with what is stored, and creates
  at most one Run.
- Ingestion: the active generation is whole, a cleaned one stays empty, the
  newest job wins, a stalled job ends.
- Uploads: a visible file has its bytes, an abandoned upload is cleaned and
  never comes back.
- Activity outbox: an event is published only when it is recorded, given up
  only after its attempts, and either for good.
- Space governance: an invite admits no more users than it is for; the last
  owner goes only by a write that another call overtook, or by a direct add.
- Telemetry: what is available stays so, a pending Run is decided, none starves
  in the listing. Diagnosis: a call that claimed commits the first diagnosis of
  the generation that stands, or none.
- Sandboxes: an expired one is torn down from wherever its cascade was
  interrupted, and leaves only what was added behind the verification; bytes go
  before their records, except those that were written, or whose file was
  registered, when the inventory of bytes was over.

Components meet in the records they share: confirm and recoverer fill the queue
that workers are called from; a worker writes the execution record, the Run and
the artifact which the gate's transactions write too; aborted approvals and
failed attempts enqueue cleanup jobs, whose sweeper marks and deletes what a
worker may save again and an approval may publish; the end of a Run opens its
telemetry, whose generations the diagnosis is bound to; one maintenance endpoint
drives reclaimer, recoverer, reconcilers, sweepers and cascades in turn.

## The modules

| module | models | state and actions |
| --- | --- | --- |
| `ActionExecution` | one action record, its deliveries, workers and reclaimer, for Firestore or MemoryStore, critical or not | `exec`, `disp` the two halves of the record; `run`, `art`; `tasks` the queue; `wk` the local state of each `execute_action` (program counter, copy of the record, version its tracker knows, heartbeat thread); `scan` the rows a reclaimer listed. One action per store call. |
| `ActionDispatch` | confirm calls and recoverers over the dispatch half | `disp`, `tasks`, `dp` the local state of each dispatcher; one action per store or queue call |
| `ActionLifecycle` | the two composed over one record | extends the one and instantiates the other; write-backs of a worker replace the dispatch half |
| `ApprovalGate` | approvers, rejecters, retriers and the reconciler over one Run at its gate | `run`, `exec`, `art`, `bundle`, cleanup `jobs`, `ap` the local state of each call |
| `ControlTower` | `ActionExecution` (critical, Firestore) and `ApprovalGate` composed | shared `exec`, `run`, `art` |
| `ArtifactCleanup` | sweepers over the jobs of one artifact, with the writers that share it | `jobs`, `art`, `sw` |
| `UploadLifecycle` | uploads of one file id with their heartbeat, the cleaners of `retry_pending_cleanups`, the DELETE route | `file` its record, `blob` its bytes, `up`, `cl`, `dl` the local state of each call; one action per store or object-store call |
| `IngestionLease` | submitters, workers over the task queue, sweepers of recorded cleanups, deletion and readers of one file | `rec` generations, job, lease and tombstones; `chunks` the batches stored per generation; `queue`; `pgc` the recorded cleanups; `wk`, `sb`, `del`, `rd` |
| `ChatIdempotency` | requests that carry one `client_message_id` | `rec` the idempotency record; `user`, `agent`, `run` what the turn stores under ids that follow from the key; `rq` each request, with its heartbeat thread |
| `EventDelivery` | the abstract promise of the outbox for one event | `stage`, `tries`, `recorded` |
| `ActivityOutbox` | one event, the tag operations and calls that stage it, the dispatchers, in either store; it implements `EventDelivery` | `item` the entry with its lease and attempts, `recorded`, `dis` what each dispatcher listed and holds |
| `SpaceGovernance` | the calls on members and invites of one space, step by step, in either store | `member`, `invite`, `admitted`; `call` what each user is asking and has read, `fresh` unless another write overtook it |
| `RunTelemetry` | the telemetry status of one Run, its verifications and the reconciler | `run` status, attempts, lease and age of the last check; `trace` what the backend holds; `ver` each verification |
| `TelemetryScan` | the scans that list pending Runs from a shared cursor | `pending`, `resting`, `cursor` with its lease, `scan` |
| `RunDiagnosis` | requests and chat turns that diagnose one Run | `run` generation, revision and pointer; `docs`; `claim`; `call` and `cache` of each process |
| `SandboxCleanup` | the cascade over one sandbox, the sweep, the teardown endpoint, late writers; uploads and copies (intent, bytes, commit or compensation) and deliveries of a worker (bytes, then the record, or the bytes discarded) | `space`, `docs` per collection, `blobs`, `writer` the stage of each file, `job`, `work` of each call; `late` and `missed` what came behind the verification and behind the inventory |
| `...Proofs` | the theorems, of all modules above but `TelemetryScan` (see "The proofs") | |

Each `MC` module gives an instance its model values. Three of them run several
components side by side (below). PROJECT.json maps every definition to the
lines it stands for.

What is abstract everywhere: a deliverable's content is one bit (its bytes are
there), a time is the fact whether it has passed, a token is the number of the
grant that issued it or the call that holds it (uuids are fresh), names and
messages are left out. A clock action may expire a live lease at any moment,
which covers slow workers and pauses; a backoff may elapse at any moment.
Operators marked "mutant" stand for bugs a change could introduce; no
specification uses them.

Every store call is one atomic step: Firestore runs them as transactions and
MemoryStore under one lock. Where a call is no transaction (the listing and the
claim of the outbox, most writes of space governance, the batches of the
cascade) it is as many steps as it makes reads and writes. Between two calls of
one handler anything may happen. MemoryStore hands out live objects; where that
is visible (a worker that assigns the Run before it calls the store) the module
follows it.

## The runs

| run | instance | shows |
| --- | --- | --- |
| `exec_firestore` | two workers, two attempts, versions to 4, non-critical, Firestore | leases are exclusive while they live, and a stale worker is fenced for good; the latest lease commits; what is COMPLETED is published; `LeaseInvariant`, the invariant of the proofs |
| `halves` | two confirm calls, two recoverers, three faults, five generations (Firestore); one worker and two attempts (MemoryStore); with fairness | one dispatcher holds the fence, duplicates come from recorded failures alone, a confirmed action is enqueued; every stalled execution is reclaimed, failed or committed |
| `lifecycle` | one confirm call, one recoverer, one worker, one attempt, two faults, three generations | the record tells the truth about the queue and the attempts stay bounded though a worker's write-back replaces the record |
| `gate` | two approvers, one reconciler, three decisions, with fairness | an approval is all or nothing, final, and committed by the latest decision only; a decision that was begun ends |
| `tower` | one worker, one approver, one reconciler, two attempts | nothing is published unapproved and an approved Run stays so, on shared records |
| `upload` | one uploader, two cleaners, two deleters, two retries, with fairness | a visible file keeps its bytes, cleanup is one-way, spares what is visible and is given up when its retries are spent, and no upload stays pending |
| `ingestion` | one submitter, one worker, one sweeper, one reader, two generations of two batches, a fenced deletion, with fairness | the active generation is whole, a cleaned one empty, only the newest job commits; a stalled job is committed, failed or taken up again |
| `chat` | three requests of one payload, breakdown turns, heartbeats up to version 4 | one request answers, what it answered is stored, and only the holder of the record creates the Run |
| `spaces` | three users, one invite of two uses, three calls in all, two at once, Firestore | an invite admits no more than it may; the space keeps an owner unless an overtaken write or a direct add takes the last one |
| `leased_work` | two sweepers over two jobs (two retries, five claims); two dispatchers, two attempts, four claims; two processes, two generations, two revisions, two failures; with fairness | a cleaning mark is never left behind, a publication is never taken back, a pending job is worked off; the outbox implements `EventDelivery`; a claimed diagnosis is the first |
| `reconcile` | two cascades over two collections of two documents in batches of one, one late write (a document, an upload or a delivery); two verifications, two attempts; two scans over three Runs, limit one, two reads; one failure; with fairness | a sandbox is torn down, leaving only late documents and no bytes an inventory could still have found; an available Run stays so; a pending one is decided, and none starves |

`halves`, `leased_work` and `reconcile` each run components that share no
document their properties read, and no property relates two of them. Steps of
different components commute, so a behaviour in which all move is, for each
property, as good as one in which only the component it speaks of does; the
variable `half` or `part` picks that one in the initial state. Their fairness is
that of the component while it moves. What does relate components has
compositions in which both move: `lifecycle` and `tower`.

Bounds. `MaxAttempts = 2` gives a first attempt and a last one, which is where
the code branches; every token, version and listed row is then either the first
or the last. `lifecycle` has one attempt, for its question is about dispatches.
`MaxVersion` bounds the heartbeats (a heartbeat is the only step that may
advance the version without end): four leave room for one between any two
others. `MaxGeneration` must exceed the number of faults, since only a recorded
failure opens a generation. Three decisions let a second and a third approver
take over from a first and from each other. Five cleanup claims allow a job that
was claimed once to be enqueued anew and still to be retried twice. `tower` sets
`MaxVersion = 0`: heartbeats are left to `exec_firestore`, for the gate never
reads a lease. One upload per run of `upload` is all there is of a user's file,
whose id is fresh; only bundles share an id (`upload_bundle`). Two generations
let a newer job overtake an older one, two batches let a worker be overtaken
between them, and the queue forgets no task, so that any may be delivered again
at any time. Three chat requests allow a holder, one that took the turn over
from it, and one that retries when that one failed. Three calls on a space allow
one call to be overtaken by a second whose effect a third undoes; users other
than the creator are interchangeable, hence symmetric. Four claims of an event
exceed its two attempts, so that a claim judged by an old listing happens. Two
documents in batches of one let a cascade be interrupted between batches and a
late write fall before or behind its cursor. Three Runs with a limit of one and
a budget of two let a scan stop by either, and wrap round.

Deadlock is not checked: a system whose action is over may stop.

### Fairness

Fairness is weak for a call that runs (the process goes on unless it dies, which
is an action of its own), for the passage of time, and for the maintenance
endpoint that the scheduler calls again and again. It is strong where a step
competes with deaths: a scanner that dies before a row loses it, and the next
scan lists it again, so each listed row is eventually worked on unless every
scan dies. A lease runs out once its holder is gone or no heartbeat renews it.
Deaths and failures are counted against a bound in `reconcile` and in the
diagnosis, so that weak fairness is enough there. Nobody is assumed to confirm,
approve, retry or ask for a verification. In `ingestion` the scan that reclaims
is strongly fair: it is not for ever beaten to the file. In `upload` each stage
of a cleanup is, over all cleaners: not every one of them dies at the same
stage, or loses its lease there. `exec_firestore`, `lifecycle`, `tower`, `chat`
and `spaces` check safety alone and assume no fairness. The outbox has no
liveness: the repository calls `dispatch_outbox_events` from its tests only.

### Where the code does something else

One run expects a violation and has a finding in PROJECT.json:

- `upload_bundle`: two approvals upload one bundle under one id. The
  compensation of the one that lost erases the bytes by name before it asks
  whether the record is still its own, so that the visible file has none.

The modules state further properties that the code does not have. Each is a
commented line of a `*_more.cfg`, which otherwise checks the type invariant and
what else holds but is no run of its own; take the comment off and TLC shows the
counterexample.

| configuration | property | what happens |
| --- | --- | --- |
| `exec_more` | `OutcomeIsFinal` | a row listed as stalled is reclaimed after its worker committed; reclaim compares token and lease, not status |
| | `PublishedHasBytes` | an attempt that lost its lease deletes, by name, the bytes its successor publishes |
| | `StalledIsReclaimed` | Firestore's `reclaim_action_execution_lease` reads the Run after it wrote the execution, which Firestore refuses, so an exhausted stalled execution is never failed |
| | `RunningEnds` | `get_run` raises before the `try` that stops the heartbeat thread, which keeps the lease alive |
| | `ReclaimedIsRedispatched` | a reclaimed record is dispatched once, under the default generation; a failure, or a name used before, is final |
| `lifecycle_more` | `DispatchedStaysDispatched` | a worker's write-back replaces a recorded dispatch by the older copy |
| `gate_more` | `LiveDecisionStands` | the reconciler judges a decision lease before its transaction, which compares the Run status only; a decision taken in between is aborted although its lease is live |
| | `RejectionIsFinal` | `retry_run` looks at the gate, then compares the status only: a rejection in between is undone (with `Approvers <- MCApprovers` and four decisions) |
| | `StagingIsCleaned` | an abort enqueues cleanup for what the stored Run lists, which never includes the staged bundle |
| | `PublishedBundleStays` | an approver that lost its decision records the bundle again, pending |
| | `RetryEnds` | the retried Run is saved by `save_run`, which does not update a stored Run |
| `tower_more` | `ApprovalCompletesAction` | an approval does not advance `state_version`, so a worker's FAILED write still passes |
| | `RejectedIsNotExecuted` | a rejected action is FAILED and retryable |
| `upload_more` | `NoOrphanBytes` | a call whose intent a cleaner removed writes its bytes afterwards and dies |
| `ingestion_more` | `ReadIsWhole` | a reader looks up the active generation, a commit prunes it, the query finds nothing |
| | `ReadyStaysReady` | an activity event that fails after the commit sends the job to the except path, which turns the READY file FAILED |
| | `NoOrphanChunks` | `delete_file` does not fence the file: a worker writes chunks between the purge and the end of the record |
| `chat_more` | `AnswerIsStored` | `add_message` is outside the fence and keeps the first reply: a request that lost its turn, or never held it, stores a reply other than the one the holder answers |
| | `OnePayload` | the payload is compared only when the key was not acquired, so a request with another payload takes an expired turn over |
| `spaces_more` | `SpaceKeepsOwner` | the last owner is added again, as a member; or two owners leave, or demote one another, at once: each saw the other |
| | `OwnerIsAskedFirst` | a direct add overwrites the membership of a user who is an owner |
| `leased_work_more` | `PublishedHasItsBytes` | an artifact saved anew after the sweeper's check is published and loses its bytes |
| | `InProgressIsFinished` | only pending cleanup jobs are listed or claimed: one whose sweeper died stays in progress |
| | `AttemptsAreBounded` | a dispatcher claims by an old listing an event whose attempts others have spent |
| | `DeadLetterWasNotRecorded` | an event is recorded, its settlement fails, and it is given up |
| | `DiagnosedOnce` | a chat turn claims nothing and diagnoses a diagnosed generation again |
| `reconcile_more` | `NothingIsLeft` | a document is added to a collection the verification has passed: writers do not look at `cleanup_status` |
| | `BytesKeepTheirRecord` | the cascade lists the intent of an upload and erases nothing, for its bytes are not there yet; they are written (`services/file_service.py` 204, then 222 or 231; 512, then 527), and the record is deleted before them. The docstring (`services/storage.py` 9685) says "deletes GCS physical blobs FIRST across files and artifacts" |
| | `SpaceIsDeleted` | a tag operation writes the space back without `is_sandbox`; the cascade then refuses it |
| | `VerifyEmptyTellsTheTruth` | Firestore's `verify_sandbox_empty` and `get_sandbox_cleanup_job` are nested in `check_storage_readiness` by their indentation, so that the class has MemoryStore's, which look into the process that answers (`services/storage.py` 10063 and after) |
| | `ListedOnce` | a scan that outlives its lease returns the Runs another one returns |
| | `EndedGetsDecided` | a Run verified `max_attempts` times before it ended is refused to the reconciler for ever |

## The proofs

Eight modules hold theorems, for all values of the constants that satisfy the
assumptions named in the modules. Every safety invariant and every action
property that a run checks is stated by a theorem. Two kinds of theorem assume
more, and say so: `Backend = "firestore"` where MemoryStore does something else,
and `MaxUploads = 1` for a file of a user, whose id is fresh (with two uploads
to one id the run `upload_bundle` shows the property false).

Each proof has the same shape: types are inductive by themselves; an invariant
that is inductive given the types says what every call under way still knows of
the shared documents; the properties follow from it. None of the properties is
inductive as it stands. The longer proofs say
first what the steps do (`Effects`, `Works`, `Moves`, `Progress`), in a few
shapes that cover every action, and then reason about the shapes alone.

### `ActionExecutionProofs`: execution and lifecycle

| theorem | statement |
| --- | --- |
| `TypeCorrect`, `LeaseCorrect` | `Spec => []TypeOK`, `Spec => []LeaseInvariant` |
| `AttemptsAreBounded` | `Spec => []LeasesBounded` |
| `StaleWritesAreFenced` | `Spec => []StaleWorkerFenced` |
| `LiveLeasesAreExclusive` | `Spec => LiveLeaseIsExclusive` |
| `RecordsNeverRollBack` | `Spec => RecordNeverRollsBack` |
| `LatestLeasesCommit` | `Spec => LatestLeaseCommits` |
| `CompletedForPublication` | under Firestore, `Spec => []CompletedIsPublished` |
| `LeasesStayBoundedAlways` | `LifecycleSpec => []LeasesStayBounded` |
| `RecordsTellTheQueue` | `LifecycleSpec => []RecordTellsTheQueue` |

All hold for either store, critical or not, unless the table says otherwise.

A failing worker writes back a whole copy of the record: the copy's attempts and
token must be known to be current whenever its version passes the fence.
`RecordLease`: attempts, token and the number of leases granted agree.
`CallLease`: a call's copy carries the token and attempts of one grant, its
version never exceeds the record's, and is strictly behind once a newer lease
was granted, since a claim advances attempts, token and version together.
`RowLease`: a row listed by the reclaimer concerns a lease that is not live
while its token is still the record's, and a row listed for retry one that was
not the last. `FenceIsNewest` is the consequence each action uses: a call that
passes the version fence holds the newest lease.

`PublicationInvariant` says what each call has produced by the step it is at:
the file once it saved it, the artifact after that, the Run before it commits.
That survives what other workers do because under Firestore nothing un-publishes:
they write the same visibility again, and the FAILED of the except path never
reaches the stored Run, which `save_run` creates but does not update.
MemoryStore does not have the property: there a call that raises after its
commit assigns FAILED to the live Run of a COMPLETED action.

In the lifecycle two machines write one record without fencing each other. For
the leases a dispatcher's step is a stutter, so that `LeaseInvariant` carries
over. For the queue a worker may put back any older copy of the dispatch half;
`QueueInvariant` therefore asks of every copy in a worker's hands what it asks of
the record, and `ActionDispatchProofs` states its lemma for any such copy.

### `ActionDispatchProofs`: the dispatch half alone

| theorem | statement |
| --- | --- |
| `DispatchTypeCorrect` | `DispatchSpec => []DispatchTypeOK` |
| `OneHolder` | `DispatchSpec => []OneDispatcherHolds` |
| `RecordsTellTheTruth` | `DispatchSpec => []RecordedTaskExists` |
| `DuplicatesAreBounded` | `DispatchSpec => []DuplicatesNeedFailures` |

`Agrees` is why a record tells the truth: a dispatcher that has the record's
token has its generation, so that the task whose creation it saw succeed is the
task the record names. `LeaseTokens`: a token is one dispatcher's alone.
`SentGenerations`: nothing was sent under a generation beyond the record's.
`GenerationsAreSettled`: a generation is begun for the first task or after a
recorded end, which bounds the tasks by `dispatch_version`; the count itself is
a fact about the cardinality of an interval.

### `ApprovalGateProofs`: the gate and the tower

| theorem | statement |
| --- | --- |
| `GateTypeCorrect` | `GateSpec => []GateTypeOK` |
| `ApprovalsAreAtomic` | `GateSpec => []ApprovedIsAtomic` |
| `ApprovalsAreFinal` | `GateSpec => ApprovalIsFinal` |
| `LatestDecisionsCommit` | `GateSpec => LatestDecisionCommits` |
| `NothingUnapproved` | `TowerSpec => []NothingUnapprovedIsPublished` |
| `ApprovedRunsStay` | `TowerSpec => ApprovedRunStays` |

`GateInvariant` adds to `ApprovedIsAtomic` that a gate which is "approving"
carries the newest token, and that a reconciler never reaches an approver's
step. Three lemmas cover all actions: a step leaves the decision alone
(`QuietKeeps`), reopens or ends it from a status an approved Run does not have
(`ReopenKeeps`), or commits it whole (`ApprovalKeeps`). The reconciler's
completion never applies in this module: a Run that is RUNNING has nothing
published to complete it by, which is the invariant's doing.

Beside workers the gate keeps less: a stale worker may take the deliverable of
an approved Run back to PENDING_APPROVAL, so that `ApprovedIsAtomic` is not an
invariant of the tower. What remains is proved from `TowerInvariant`: a Run is
approved exactly when it is COMPLETED, since workers move a Run only from
RUNNING, and each step of either side approves, or moves a Run that is not
approved, or leaves status and gate alone (`TowerEffects`).

### `ChatIdempotencyProofs`

| theorem | statement |
| --- | --- |
| `ChatTypeInvariant` | `ChatSpec => []ChatTypeOK` |
| `OneAnswerInvariant` | `ChatSpec => []OneAnswer` |
| `RunSavedByHolder` | `ChatSpec => HolderSavesRun` |
| `CompletedStored` | `ChatSpec => []CompletedIsStored` |

`TurnInvariant` says of every request that was granted the record that its
version (`Claim`) is not ahead of the record's, that the record is its own while
the two agree, and that it is completed once the request answered. It is needed
because `save_run_fenced` compares versions only: that the version stands for
the owner is not a guard of the code but a consequence of every grant, heartbeat
and checkpoint raising it. `StoredInvariant` says at each stage of a turn which
message and Run are in the store, which only grows.

### `FileProofs`: ingestion, and uploads

| theorem | statement |
| --- | --- |
| `ActiveGenerationsAreWhole` | `IngestionSpec => []ActiveIsWhole` |
| `CleanedGenerationsStayEmpty` | `IngestionSpec => []TombstonesAreEmpty` |
| `NewestJobsCommit` | `IngestionSpec => NewestJobCommits` |
| `UploadTypes` | `UploadSpec => []UploadTypeOK`, for any number of uploads |
| `VisibleFilesHaveBytes` | for one upload, `UploadSpec => []VisibleHasBytes` |
| `CleanupNeverTurnsBack` | for one upload, `UploadSpec => CleanupIsOneWay` |

Ingestion. `CallInvariant` says of a worker that all batches before the next one
are stored as long as its generation is `Intact` (not older than the active one,
neither marked nor cleaned, no deletion begun), of a pruner that the active
generation has reached its own, and of a cleaner that its generation stays
marked or deleted. `Progress` is what every step guarantees to the calls it does
not belong to, so that each action is looked at for its own call only. With
`FileInvariant` (a job under way is newer than what is active) a commit makes a
whole generation active, and only a newer one.

Uploads. The type invariant is not plain: it says that a cleanup was given up
exactly when all retries were spent, while a cleaner judges that by the copy it
claimed. `CleanerKnows` adds that the copy is current as long as the cleaner's
lease is the record's. `OneUploadInvariant` says that the uploader is through
once the file is committed or its deletion is asked for, that cleaners are at
work only on what is queued or gone, and that what is about to be committed has
its bytes; the heartbeat thread, the compensation and a cleaner that was
overtaken are each harmless for one of these reasons. It is false with two
uploads: that is the finding below `upload_bundle`.

### `LeasedWorkProofs`: cleanup jobs, the outbox, diagnoses

| theorem | statement |
| --- | --- |
| `CleanupTypes` | `CleanupSpec => []CleanupTypeOK` |
| `CleaningIsAttended` | `CleanupSpec => []CleaningHasJob` |
| `PublicationIsForGood` | `CleanupSpec => PublicationStays` |
| `OutboxCorrect`, `OutboxIsTruthful` | `Spec => [](OutboxTypeOK /\ DeliveryInvariant)`, `Spec => []OutboxTellsTheTruth` |
| `SettledForGood` | `Spec => SettledIsFinal` |
| `OutboxDelivers` | `Spec => DeliveryIsImplemented`, that is, every behaviour is one of `EventDelivery` |
| `DiagnosisCorrect`, `CommittedIsRemembered` | types and `DiagnosisInvariant`; `DiagnosisSpec => []RememberedIsCommitted` |
| `ClaimedIsFirst` | `DiagnosisSpec => ClaimedDiagnosisIsFirst` |

Cleanup. `CleanupInvariant`: the marks of artifact and file move in pairs; a job
that is open has retries left, so that a failure or a reset reopens it; a job
ends only in a step that clears the mark or finds the artifact published.

Outbox, in either store. `Knows` relates what a dispatcher listed to the entry:
the attempts have not fallen below those it saw, its own claim is among them,
and what it is about to settle was recorded. That makes counting from an old
listing harmless: an event is given up only when at least `MaxAttempts` claims
were made. Each step then maps to a step of `EventDelivery` or to none.

Diagnosis. A call compares the revision it read when it began.
`DiagnosisInvariant` says why that is enough: a call is never ahead of the Run,
and as long as its revision is the Run's, nobody has diagnosed the generation
since it looked.

### `SpaceGovernanceProofs`

| theorem | statement |
| --- | --- |
| `GovernanceCorrect` | types, `AdmissionInvariant` and `TrustInvariant` |
| `InvitesAreBounded` | `Spec => []AdmissionsAreBounded` |
| `RevokedForGood` | `Spec => RevocationIsFinal` |
| `OwnersRemain` | `Spec => OwnerRemains` |

For either store and finitely many users. A revocation writes the whole invite
back, with the uses it once read. `AdmissionInvariant` says why that does no
harm: uses are counted only as long as nothing was revoked, and nothing is
admitted afterwards. `TrustInvariant` says what a call that nobody overtook
still knows: the role it acted on, that another owner is left when it leaves,
that its target is no owner.

### `ReconcileProofs`: telemetry and sandboxes

| theorem | statement |
| --- | --- |
| `TelemetryCorrect`, `AvailableRunsAreAuthentic` | types and `TelemetryInvariant`; `Spec => []AvailableIsAuthentic` |
| `AvailableForGood` | `Spec => AvailableStands` |
| `CascadeTypeCorrect` | `SandboxSpec => []SandboxTypeOK` |
| `TeardownsAreOrderly` | `SandboxSpec => TeardownIsOrderly` |

Telemetry. A verification that saw the whole trace saw what is still there, and
an available Run's lease was released with the decision, never to be granted
again while it stands: hence a late update finds itself fenced.

Sandboxes. A call that lost its lease goes on until its next fenced update, and
a new one resumes from the stored phase, so nothing can be said of a call by its
place in the cascade alone. `TeardownInvariant` says of a call that holds the
lease that it is where the job's phase allows (`Fits`), that the collections it
has verified hold only late documents, and that what it has listed covers the
bytes of every record but the missed ones (`Covered`); and of any call past the
erasure that the job has left the blob phase (`Left`), after which nothing is
left to cover. A page deleted then takes no record of bytes but of missed ones.
The other step that deletes a record is the end of an upload's compensation,
which deleted the bytes in the step before: the invariant remembers that for
each file in that stage, and `RecordsGoLast` concludes. Files are written in
both orders beside all this, so `WriteFileAside` shows of each step of a writer
that bytes appear uncovered only where they are missed.

### What is only model-checked

- Every liveness property: `ConfirmedIsEnqueued`, `StalledIsReclaimed`,
  `ApprovingEnds`, `PendingUploadEnds`, `StalledJobEnds`, `PendingIsSwept`,
  `SandboxIsTornDown`, `PendingIsDecided`, `WaitingIsListed`. Fairness and
  ENABLED are beyond the prover.
- `TelemetryScan`, whose one property is of that kind.

The inductive invariants hold on the instances of the runs as well, where TLC
checked them before they were proved; `LeaseInvariant` still is an invariant of
`exec_firestore`.

## What remains to be done

The map covers about a third of the implementation's lines; of what keeps state,
the components below are left. Of what is modelled, these would add most, in
this order: an abstract specification of work under a lease that
`ActionExecution` and `ChatIdempotency` both implement; the gate and the cleanup
jobs over one bundle; uploads to the shared id of a bundle, where a weaker
invariant than `VisibleHasBytes` holds.

## Not modelled

- Metric rollups: hourly counters which the transaction that ends a Run adds to;
  each outcome is counted by the compare-and-swap that wins. Arithmetic of
  floats and histograms is left.
- Rate limits: one transaction over a list of timestamps. The clock is read
  before it, so calls that commit out of the order of their clocks may admit a
  few more than the limit; timestamps would cost more states than that is worth.
- Messages and pages: a page is one query ordered by `(created_at, id)`.
- In governance: creating, renaming and archiving spaces, direct messages (whose
  users are added again as owners), previews of invites, and MemoryStore's
  `accept_invite` being cut short between its two writes. In telemetry: the
  summary of spans a verification stores, the grace period (the
  compare-and-swap that ends a Run does not copy `telemetry_export_started_at`),
  and the fallback of `save_run`, which writes an older `telemetry_generation`
  back. In the outbox: the list of activities and its filters. In the cascade:
  MemoryStore's variant, which never deletes messages; beside it the cleaners of
  pending uploads and the DELETE route, and two writers of one id that cross
  (these are in `UploadLifecycle` and `ActionExecution`); the local directory of
  artifacts, which holds copies of the same bytes.
- MemoryStore's variants of the gate, the cleanup and the ingestion calls (their
  control is the same; the map points to them where a definition is clearer
  there), the inline and thread-pool ingestion runners, an ingestion file whose
  deletion fails half way, the proposal that a talk turn attaches, chat messages
  posted beside a transaction, the object store behind the local blob cache, and
  the content of documents.
- Readiness, lineage, retrieval, rendering, model calls, Grafana and OTLP,
  authentication, settings, frontend and command-line tools keep no state of
  their own or are input and output; PROJECT.json lists each with its reason.
