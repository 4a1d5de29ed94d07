------------------------- MODULE ApprovalGateProofs -------------------------
(***************************************************************************)
(* Proofs about ApprovalGate, for every number of approvers, reconcilers   *)
(* and decisions: an approval is all or nothing and final, and only the    *)
(* holder of the latest decision lease commits it.  GateInvariant adds to  *)
(* ApprovedIsAtomic that a decision under way was taken with the newest    *)
(* token, and that reconcilers never reach an approver's steps.            *)
(*                                                                         *)
(* And about ControlTower, where workers and reclaims write the gate's     *)
(* documents too: still nothing is published unapproved, and an approved   *)
(* Run stays so (TowerInvariant).                                          *)
(***************************************************************************)
EXTENDS ControlTower, TLAPS

(* The records field by field; the deliverable always has a file.          *)
RunDoc == [status: {"running", "awaiting_approval", "completed", "failed"},
           gate: {"pending", "approving", "approved", "rejected", "failed"},
           dtoken: Nat, dlive: BOOLEAN,
           commit: {"none", "uncertain", "committed", "aborted"}]
ExecDoc == [status: {"awaiting_approval", "completed", "failed"}, version: Nat]
ArtDoc == [vis: {"pending_approval", "published", "rejected"},
           pub: {"pending_approval", "published", "rejected"}, blob: BOOLEAN]
BundleDoc == [vis: {"none", "pending_approval", "published"},
              pub: {"none", "pending_approval", "published"}]

GateRecords ==
    /\ run \in RunDoc /\ exec \in ExecDoc /\ art \in ArtDoc /\ bundle \in BundleDoc
    /\ ap \in [Actors -> Actor]
    /\ decisions \in 0..MaxDecisions

ScannerSteps == {"idle", "reconcile", "judge", "complete", "abort"}

GateInvariant ==
    /\ ApprovedIsAtomic
    /\ run.gate = "approving" => run.dtoken = decisions
    /\ \A a \in Actors : ap[a].pc \in ScannerSteps \/ a \in Approvers

LEMMA RecordsAreTyped == GateRecords => GateTypeOK
  BY DEF GateRecords, RunDoc, ExecDoc, GateTypeOK

-----------------------------------------------------------------------------
(* A call that goes on or returns is a call again, and the others stay.    *)
LEMMA StepType ==
  ASSUME ap \in [Actors -> Actor], NEW a \in Actors, NEW pc \in ApSteps, Step(a, pc)
  PROVE  /\ ap' \in [Actors -> Actor] /\ ap'[a].pc = pc
         /\ \A b \in Actors \ {a} : ap'[b] = ap[b]
  BY DEF Step, Actor

LEMMA ReturnType ==
  ASSUME ap \in [Actors -> Actor], NEW a \in Actors, Return(a)
  PROVE  /\ ap' \in [Actors -> Actor] /\ ap'[a].pc = "idle"
         /\ \A b \in Actors \ {a} : ap'[b] = ap[b]
  <1>1. AtRest \in Actor /\ AtRest.pc = "idle"
    BY DEF AtRest, Actor, ApSteps
  <1> QED
    BY <1>1 DEF Return

(* What a step may do to a call: go on among the steps of its kind.        *)
Moves(a) ==
    /\ ap' \in [Actors -> Actor]
    /\ \A b \in Actors \ {a} : ap'[b] = ap[b]
    /\ ap'[a].pc \in ScannerSteps \/ a \in Approvers

LEMMA MovesByStep ==
  ASSUME GateRecords, NEW a \in Actors, NEW pc \in ApSteps, Step(a, pc),
         pc \in ScannerSteps \/ a \in Approvers
  PROVE  Moves(a)
  BY StepType DEF GateRecords, Moves

LEMMA MovesByReturn ==
  ASSUME GateRecords, NEW a \in Actors, Return(a)
  PROVE  Moves(a)
  BY ReturnType DEF GateRecords, Moves, ScannerSteps

LEMMA MovesByRecord ==
  ASSUME GateRecords, NEW a \in Actors, NEW c \in Actor, ap' = [ap EXCEPT ![a] = c],
         c.pc \in ScannerSteps \/ a \in Approvers
  PROVE  Moves(a)
  <1>1. ap'[a] = c /\ ap' \in [Actors -> Actor]
    BY DEF GateRecords
  <1>2. \A b \in Actors \ {a} : ap'[b] = ap[b]
    OBVIOUS
  <1> QED
    BY <1>1, <1>2 DEF Moves

(* A call at another step, with another field set, is a call.              *)
LEMMA FieldsOfCall ==
  ASSUME NEW r \in Actor, NEW pc \in ApSteps
  PROVE  /\ \A d \in Nat : [r EXCEPT !.pc = pc, !.token = d] \in Actor
         /\ \A h \in BOOLEAN : /\ [r EXCEPT !.pc = pc, !.held = h] \in Actor
                               /\ [r EXCEPT !.pc = pc, !.force = h] \in Actor
         /\ \A x \in {"running", "awaiting_approval"} :
               [r EXCEPT !.pc = pc, !.expected = x] \in Actor
  BY DEF Actor

LEMMA CallIsRecord ==
  ASSUME GateRecords, NEW a \in Actors, NEW pc \in ApSteps
  PROVE  /\ \A d \in Nat : [ap[a] EXCEPT !.pc = pc, !.token = d] \in Actor
         /\ \A h \in BOOLEAN : /\ [ap[a] EXCEPT !.pc = pc, !.held = h] \in Actor
                               /\ [ap[a] EXCEPT !.pc = pc, !.force = h] \in Actor
         /\ \A x \in {"running", "awaiting_approval"} :
               [ap[a] EXCEPT !.pc = pc, !.expected = x] \in Actor
  <1>1. ap[a] \in Actor
    BY DEF GateRecords
  <1> QED
    BY <1>1, FieldsOfCall

LEMMA GateInitial ==
  ASSUME GateInit PROVE GateRecords /\ GateInvariant
  <1>1. AtRest \in Actor /\ AtRest.pc = "idle"
    BY DEF AtRest, Actor, ApSteps
  <1>2. ap \in [Actors -> Actor] /\ \A a \in Actors : ap[a].pc = "idle"
    BY <1>1 DEF GateInit
  <1>3. GateRecords
    BY <1>2, ApprovalAssumption
       DEF GateInit, GateRecords, RunDoc, ExecDoc, ArtDoc, BundleDoc
  <1>4. ApprovedIsAtomic /\ run.gate # "approving"
    BY DEF GateInit, ApprovedIsAtomic, SomethingIsPublished
  <1> QED
    BY <1>2, <1>3, <1>4 DEF GateInvariant, ScannerSteps

-----------------------------------------------------------------------------
(* What keeps the invariant: the call moves, and the documents change in   *)
(* one of a few ways.                                                      *)
LEMMA QuietKeeps ==
  ASSUME GateRecords, GateInvariant, NEW a \in Actors, Moves(a),
         UNCHANGED <<exec, art, decisions>>,
         run' \in RunDoc, run'.status = run.status, run'.gate = run.gate,
         run'.dtoken = run.dtoken,
         bundle' \in BundleDoc, bundle'.vis = "published" => bundle.vis = "published"
  PROVE  GateRecords' /\ GateInvariant'
  <1>1. GateRecords'
    BY DEF GateRecords, Moves
  <1>2. ApprovedIsAtomic'
    BY DEF GateInvariant, ApprovedIsAtomic, SomethingIsPublished, IsPublished
  <1> QED
    BY <1>1, <1>2 DEF GateInvariant, Moves

(* The Run leaves a status in which it cannot have been approved, for a    *)
(* gate that is not approved; a new decision has the newest token.         *)
LEMMA ReopenKeeps ==
  ASSUME GateRecords, GateInvariant, NEW a \in Actors, Moves(a),
         run.status # "completed",
         run' \in RunDoc, exec' \in ExecDoc, art' \in ArtDoc, bundle' = bundle,
         decisions' \in 0..MaxDecisions, run'.gate # "approved",
         run'.gate = "approving" => run'.dtoken = decisions',
         art'.vis # "published" \/ art' = art, art'.pub # "published" \/ art' = art
  PROVE  GateRecords' /\ GateInvariant'
  <1>1. GateRecords'
    BY DEF GateRecords, Moves
  <1>2. ~SomethingIsPublished
    BY DEF GateInvariant, ApprovedIsAtomic
  <1>3. ApprovedIsAtomic'
    BY <1>2 DEF ApprovedIsAtomic, SomethingIsPublished
  <1> QED
    BY <1>1, <1>3 DEF GateInvariant, Moves

LEMMA ApprovalKeeps ==
  ASSUME GateRecords, GateInvariant, NEW a \in Actors, Moves(a),
         run' = [run EXCEPT !.status = "completed", !.gate = "approved"],
         exec' = [exec EXCEPT !.status = "completed"],
         art' = Publish(art), bundle' = Publish(bundle), UNCHANGED decisions
  PROVE  GateRecords' /\ GateInvariant'
  <1>1. run' \in RunDoc /\ run'.gate = "approved" /\ run'.status = "completed"
    BY DEF GateRecords, RunDoc
  <1>2. exec' \in ExecDoc /\ exec'.status = "completed"
    BY DEF GateRecords, ExecDoc
  <1>3. art' \in ArtDoc /\ IsPublished(art')
    BY DEF GateRecords, ArtDoc, Publish, IsPublished
  <1>4. bundle' \in BundleDoc
    BY DEF GateRecords, BundleDoc, Publish
  <1>5. GateRecords'
    BY <1>1, <1>2, <1>3, <1>4 DEF GateRecords, Moves
  <1>6. ApprovedIsAtomic'
    BY <1>1, <1>2, <1>3 DEF ApprovedIsAtomic, IsPublished
  <1> QED
    BY <1>1, <1>5, <1>6 DEF GateInvariant, Moves

-----------------------------------------------------------------------------
(* The steps that decide nothing: reads, the bundle's uploads, refusals.   *)
LEMMA ReadingKeeps ==
  ASSUME GateRecords, GateInvariant, NEW a \in Actors,
         ReadGate(a) \/ DecisionRefused(a) \/ ListStalledRun(a) \/ ReconcileReadsRun(a)
           \/ ReconcileJudges(a) \/ ReadFailedRun(a) \/ ApproverDies(a)
  PROVE  GateRecords' /\ GateInvariant'
  <1>1. UNCHANGED <<exec, run, art, bundle, decisions>>
    BY DEF ReadGate, DecisionRefused, ListStalledRun, ReconcileReadsRun,
           ReconcileJudges, ReadFailedRun, ApproverDies
  <1>2. Moves(a)
    <2>1. CASE ReadGate(a)
      <3>1. run.status \in {"running", "awaiting_approval"} /\ a \in Approvers
        BY <2>1 DEF ReadGate, Recoverable
      <3>2. PICK choice \in {"cas", "reject"} :
               ap' = [ap EXCEPT ![a].pc = choice, ![a].expected = run.status]
        BY <2>1 DEF ReadGate
      <3> DEFINE c == [ap[a] EXCEPT !.pc = choice, !.expected = run.status]
      <3>3. c \in Actor
        BY <3>1, CallIsRecord DEF ApSteps
      <3>4. ap' = [ap EXCEPT ![a] = c]
        BY <3>2
      <3> QED
        BY <3>1, <3>3, <3>4, MovesByRecord
    <2>2. CASE DecisionRefused(a) \/ ApproverDies(a)
      BY <2>2, MovesByReturn DEF DecisionRefused, ApproverDies
    <2>3. CASE ListStalledRun(a)
      BY <2>3, MovesByStep DEF ListStalledRun, ScannerSteps, ApSteps
    <2>4. CASE ReconcileReadsRun(a)
      <3>1. CASE Return(a)
        BY <3>1, MovesByReturn
      <3>2. CASE ~Return(a)
        <4>1. PICK h \in BOOLEAN : ap' = [ap EXCEPT ![a].pc = "judge", ![a].held = h]
          BY <2>4, <3>2 DEF ReconcileReadsRun
        <4> DEFINE c == [ap[a] EXCEPT !.pc = "judge", !.held = h]
        <4>2. c \in Actor
          BY CallIsRecord DEF ApSteps
        <4>3. ap' = [ap EXCEPT ![a] = c]
          BY <4>1
        <4>4. c.pc = "judge"
          BY DEF GateRecords, Actor
        <4> QED
          BY <4>2, <4>3, <4>4, MovesByRecord DEF ScannerSteps
      <3> QED
        BY <3>1, <3>2
    <2>5. CASE ReconcileJudges(a)
      <3>1. Step(a, "complete") \/ Return(a) \/ Step(a, "abort")
        BY <2>5 DEF ReconcileJudges
      <3> QED
        BY <3>1, MovesByStep, MovesByReturn DEF ScannerSteps, ApSteps
    <2>6. CASE ReadFailedRun(a)
      BY <2>6, MovesByStep DEF ReadFailedRun, ApSteps
    <2> QED
      BY <2>1, <2>2, <2>3, <2>4, <2>5, <2>6
  <1> QED
    BY <1>1, <1>2, QuietKeeps DEF GateRecords

LEMMA BundlingKeeps ==
  ASSUME GateRecords, GateInvariant, NEW a \in Actors,
         UploadBundle(a) \/ RecordBundle(a) \/ BundleFails(a)
  PROVE  GateRecords' /\ GateInvariant'
  <1>1. UNCHANGED <<exec, run, art, decisions>>
    BY DEF UploadBundle, RecordBundle, BundleFails
  <1>2. bundle' \in BundleDoc /\ (bundle'.vis = "published" => bundle.vis = "published")
    BY DEF GateRecords, BundleDoc, UploadBundle, RecordBundle, BundleFails
  <1>3. a \in Approvers
    BY DEF GateInvariant, ScannerSteps, UploadBundle, RecordBundle, BundleFails
  <1>4. Moves(a)
    <2>1. CASE UploadBundle(a) \/ RecordBundle(a)
      <3>1. Return(a) \/ \E pc \in ApSteps : Step(a, pc)
        BY <2>1 DEF UploadBundle, RecordBundle, ApSteps
      <3> QED
        BY <1>3, <3>1, MovesByStep, MovesByReturn
    <2>2. CASE BundleFails(a)
      <3>1. Return(a) \/ ap' = [ap EXCEPT ![a].pc = "reconcile", ![a].force = TRUE]
        BY <2>2 DEF BundleFails
      <3>2. CASE ap' = [ap EXCEPT ![a].pc = "reconcile", ![a].force = TRUE]
        <4> DEFINE c == [ap[a] EXCEPT !.pc = "reconcile", !.force = TRUE]
        <4>1. c \in Actor
          BY CallIsRecord DEF ApSteps
        <4>2. ap' = [ap EXCEPT ![a] = c]
          BY <3>2
        <4> QED
          BY <1>3, <4>1, <4>2, MovesByRecord
      <3> QED
        BY <3>1, <3>2, MovesByReturn
    <2> QED
      BY <2>1, <2>2
  <1> QED
    BY <1>1, <1>2, <1>4, QuietKeeps DEF GateRecords

-----------------------------------------------------------------------------
(* A decision is taken from a status that is not COMPLETED.                *)
LEMMA TakingKeeps ==
  ASSUME GateRecords, GateInvariant, NEW a \in Actors, TakeDecision(a)
  PROVE  GateRecords' /\ GateInvariant'
  <1>1. a \in Approvers
    BY DEF GateInvariant, ScannerSteps, TakeDecision
  <1>2. run.status # "completed"
    BY DEF GateRecords, Actor, TakeDecision
  <1>3. PICK d \in Nat : d = decisions + 1 /\ d \in 0..MaxDecisions /\ decisions' = d
    BY ApprovalAssumption DEF GateRecords, TakeDecision
  <1>4. run' = [run EXCEPT !.status = "running", !.gate = "approving",
                           !.dtoken = d, !.dlive = TRUE]
        /\ ap' = [ap EXCEPT ![a].pc = "bundle", ![a].token = d]
    BY <1>3 DEF TakeDecision
  <1>5. run' \in RunDoc /\ run'.gate = "approving" /\ run'.dtoken = d
    BY <1>3, <1>4 DEF GateRecords, RunDoc
  <1>6. Moves(a)
    <2>1. d \in Nat /\ ap' = [ap EXCEPT ![a].pc = "bundle", ![a].token = d]
      BY <1>4
    <2> DEFINE c == [ap[a] EXCEPT !.pc = "bundle", !.token = d]
    <2>2. c \in Actor
      BY <2>1, CallIsRecord DEF ApSteps
    <2>3. ap' = [ap EXCEPT ![a] = c]
      BY <2>1
    <2> QED
      BY <1>1, <2>2, <2>3, MovesByRecord
  <1>7. UNCHANGED <<exec, art, bundle>>
    BY DEF TakeDecision
  <1> QED
    BY <1>2, <1>3, <1>5, <1>6, <1>7, ReopenKeeps DEF GateRecords

(* The commit: all of it, or a conflict; or an error after either.         *)
LEMMA ApprovingKeeps ==
  ASSUME GateRecords, GateInvariant, NEW a \in Actors, Approve(a) \/ ApproveRaises(a)
  PROVE  GateRecords' /\ GateInvariant'
  <1>1. a \in Approvers /\ UNCHANGED decisions
    BY DEF GateInvariant, ScannerSteps, Approve, ApproveRaises
  <1>2. Moves(a)
    <2>1. Return(a) \/ Step(a, "conflict") \/ Step(a, "mark")
      BY DEF Approve, ApproveRaises
    <2> QED
      BY <1>1, <2>1, MovesByReturn, MovesByStep DEF ApSteps
  <1>3. CASE UNCHANGED <<exec, run, art, bundle>>
    BY <1>1, <1>2, <1>3, QuietKeeps DEF GateRecords
  <1>4. CASE /\ run' = [run EXCEPT !.status = "completed", !.gate = "approved"]
             /\ exec' = [exec EXCEPT !.status = "completed"]
             /\ art' = Publish(art) /\ bundle' = Publish(bundle)
    BY <1>1, <1>2, <1>4, ApprovalKeeps
  <1> QED
    BY <1>3, <1>4 DEF Approve, ApproveRaises

(* A conflict rolls back a Run that is RUNNING, hence not approved.        *)
LEMMA RollingBackKeeps ==
  ASSUME GateRecords, GateInvariant, NEW a \in Actors, Rollback(a)
  PROVE  GateRecords' /\ GateInvariant'
  <1>1. Moves(a) /\ UNCHANGED <<exec, art, bundle, decisions>>
    BY MovesByReturn DEF Rollback
  <1>2. CASE MayRollBack
    <2>1. run.status # "completed" /\ run' = RolledBack
      BY <1>2 DEF Rollback, MayRollBack
    <2>2. run' \in RunDoc /\ run'.gate = "pending"
      BY <2>1 DEF RolledBack, GateRecords, RunDoc
    <2> QED
      BY <1>1, <2>1, <2>2, ReopenKeeps DEF GateRecords
  <1>3. CASE ~MayRollBack
    BY <1>1, <1>3, QuietKeeps DEF Rollback, GateRecords
  <1> QED
    BY <1>2, <1>3

LEMMA MarkingKeeps ==
  ASSUME GateRecords, GateInvariant, NEW a \in Actors, MarkUncertainCommit(a)
  PROVE  GateRecords' /\ GateInvariant'
  <1>1. UNCHANGED <<exec, art, bundle, decisions>>
    BY DEF MarkUncertainCommit
  <1>2. Moves(a)
    <2> DEFINE c == [ap[a] EXCEPT !.pc = "reconcile", !.force = FALSE]
    <2>1. c \in Actor
      BY CallIsRecord DEF ApSteps
    <2>2. ap' = [ap EXCEPT ![a] = c]
      BY DEF MarkUncertainCommit
    <2>3. c.pc = "reconcile"
      BY DEF GateRecords, Actor
    <2> QED
      BY <2>1, <2>2, <2>3, MovesByRecord DEF ScannerSteps
  <1>3. run' \in RunDoc /\ run'.status = run.status /\ run'.gate = run.gate
        /\ run'.dtoken = run.dtoken
    BY DEF MarkUncertainCommit, GateRecords, RunDoc
  <1> QED
    BY <1>1, <1>2, <1>3, QuietKeeps DEF GateRecords

LEMMA RejectingKeeps ==
  ASSUME GateRecords, GateInvariant, NEW a \in Actors, Reject(a)
  PROVE  GateRecords' /\ GateInvariant'
  <1>1. Moves(a) /\ UNCHANGED <<bundle, decisions>>
    BY MovesByReturn DEF Reject
  <1>2. CASE run.status = "awaiting_approval"
    <2>1. run' \in RunDoc /\ run'.gate = "rejected"
      BY <1>2 DEF Reject, GateRecords, RunDoc
    <2>2. exec' \in ExecDoc
      BY <1>2 DEF Reject, GateRecords, ExecDoc
    <2>3. art' \in ArtDoc /\ art'.vis = "rejected" /\ art'.pub = "rejected"
      BY <1>2 DEF Reject, GateRecords, ArtDoc
    <2> QED
      BY <1>1, <1>2, <2>1, <2>2, <2>3, ReopenKeeps DEF GateRecords
  <1>3. CASE run.status # "awaiting_approval"
    BY <1>1, <1>3, QuietKeeps DEF Reject, GateRecords
  <1> QED
    BY <1>2, <1>3

(* The reconciler never completes what no approver committed: a Run that   *)
(* is RUNNING has nothing published, which is what it would complete by.   *)
LEMMA ReconcilingKeeps ==
  ASSUME GateRecords, GateInvariant, NEW a \in Actors,
         ReconcileCompletes(a) \/ ReconcileAborts(a)
  PROVE  GateRecords' /\ GateInvariant'
  <1>1. Moves(a) /\ UNCHANGED <<art, bundle, decisions>>
    BY MovesByReturn DEF ReconcileCompletes, ReconcileAborts
  <1>2. CASE ReconcileCompletes(a)
    <2>1. ~(run.status = "running" /\ IsPublished(art))
      BY DEF GateInvariant, ApprovedIsAtomic, SomethingIsPublished, IsPublished
    <2> QED
      BY <1>1, <1>2, <2>1, QuietKeeps DEF ReconcileCompletes, GateRecords
  <1>3. CASE ReconcileAborts(a) /\ run.status = "running" /\ ~IsPublished(art)
    <2>1. run' \in RunDoc /\ run'.gate = "failed"
      <3>1. run' = [run EXCEPT !.status = "failed", !.gate = "failed",
                               !.commit = "aborted", !.dtoken = 0, !.dlive = FALSE]
        BY <1>3 DEF ReconcileAborts
      <3> QED
        BY <3>1 DEF GateRecords, RunDoc
    <2>2. exec' \in ExecDoc
      <3>1. PICK v \in Nat : v = exec.version + 1
        BY DEF GateRecords, ExecDoc
      <3>2. exec' = [exec EXCEPT !.status = "failed", !.version = v]
        BY <1>3, <3>1 DEF ReconcileAborts
      <3> QED
        BY <3>2 DEF GateRecords, ExecDoc
    <2> QED
      BY <1>1, <1>3, <2>1, <2>2, ReopenKeeps DEF GateRecords
  <1>4. CASE ReconcileAborts(a) /\ ~(run.status = "running" /\ ~IsPublished(art))
    BY <1>1, <1>4, QuietKeeps DEF ReconcileAborts, GateRecords
  <1> QED
    BY <1>2, <1>3, <1>4

LEMMA RetryingKeeps ==
  ASSUME GateRecords, GateInvariant, NEW a \in Actors, RetryRun(a)
  PROVE  GateRecords' /\ GateInvariant'
  <1>1. a \in Approvers /\ UNCHANGED <<exec, art, bundle, decisions>>
    BY DEF RetryRun, GateInvariant, ScannerSteps
  <1>2. Moves(a)
    <2>1. Return(a) \/ Step(a, "retry_bundle")
      BY DEF RetryRun
    <2> QED
      BY <1>1, <2>1, MovesByReturn, MovesByStep DEF ApSteps
  <1>3. CASE run.status = "failed"
    <2>1. run' \in RunDoc /\ run'.gate = run.gate /\ run'.dtoken = run.dtoken
      BY <1>3 DEF RetryRun, GateRecords, RunDoc
    <2>2. run.gate # "approved"
      BY <1>3 DEF GateInvariant, ApprovedIsAtomic
    <2> QED
      BY <1>1, <1>2, <1>3, <2>1, <2>2, ReopenKeeps DEF GateRecords, GateInvariant
  <1>4. CASE run.status # "failed"
    BY <1>1, <1>2, <1>4, QuietKeeps DEF RetryRun, GateRecords
  <1> QED
    BY <1>3, <1>4

LEMMA ExpiryKeeps ==
  ASSUME GateRecords, GateInvariant, DecisionLeaseExpires
  PROVE  GateRecords' /\ GateInvariant'
  <1>1. run' \in RunDoc /\ run'.status = run.status /\ run'.gate = run.gate
        /\ run'.dtoken = run.dtoken
    BY DEF DecisionLeaseExpires, GateRecords, RunDoc
  <1>2. UNCHANGED <<exec, art, bundle, ap, decisions>>
    BY DEF DecisionLeaseExpires
  <1> QED
    BY <1>1, <1>2 DEF GateRecords, GateInvariant, ApprovedIsAtomic,
                      SomethingIsPublished, IsPublished

(* Every step keeps records and invariant.                                 *)
LEMMA GateStepKeeps ==
  ASSUME GateRecords, GateInvariant, [GateNext]_gvars
  PROVE  GateRecords' /\ GateInvariant'
  <1>1. CASE UNCHANGED gvars
    BY <1>1 DEF gvars, GateRecords, GateInvariant, ApprovedIsAtomic,
                SomethingIsPublished, IsPublished
  <1>2. CASE DecisionLeaseExpires
    BY <1>2, ExpiryKeeps
  <1>3. ASSUME NEW a \in Actors,
               \/ ReadGate(a) \/ Decide(a) \/ BundleFails(a) \/ ApproveRaises(a)
               \/ ListStalledRun(a) \/ Reconcile(a) \/ ReadFailedRun(a) \/ ApproverDies(a)
        PROVE  GateRecords' /\ GateInvariant'
    BY <1>3, ReadingKeeps, BundlingKeeps, TakingKeeps, ApprovingKeeps, RollingBackKeeps,
       MarkingKeeps, RejectingKeeps, ReconcilingKeeps, RetryingKeeps
       DEF Decide, Reconcile
  <1> QED
    BY <1>1, <1>2, <1>3 DEF GateNext

-----------------------------------------------------------------------------
(* An approved gate is left by no step: whatever would change the Run      *)
(* compares a status that an approved Run does not have.                   *)
LEMMA ApprovedStays ==
  ASSUME GateRecords, GateInvariant, [GateNext]_gvars, run.gate = "approved"
  PROVE  run'.gate = "approved" /\ run'.status = "completed"
  <1>1. run.status = "completed"
    BY DEF GateInvariant, ApprovedIsAtomic
  <1>2. run \in RunDoc
    BY DEF GateRecords
  <1>3. CASE UNCHANGED run
    BY <1>1, <1>3
  <1>4. CASE DecisionLeaseExpires
    BY <1>1, <1>2, <1>4 DEF DecisionLeaseExpires, RunDoc
  <1>5. ASSUME NEW a \in Actors, Approve(a) \/ ApproveRaises(a)
        PROVE  UNCHANGED run
    BY <1>1, <1>5 DEF Approve, ApproveRaises, MayApprove
  <1>6. ASSUME NEW a \in Actors, TakeDecision(a)
        PROVE  FALSE
    BY <1>1, <1>6 DEF TakeDecision, GateRecords, Actor
  <1>7. ASSUME NEW a \in Actors,
               Rollback(a) \/ MarkUncertainCommit(a) \/ Reject(a) \/ Reconcile(a)
                 \/ RetryRun(a)
        PROVE  UNCHANGED run
    BY <1>1, <1>7 DEF Rollback, MayRollBack, MarkUncertainCommit, Reject, Reconcile,
                      ReconcileReadsRun, ReconcileJudges, ReconcileCompletes,
                      ReconcileAborts, RetryRun
  <1>8. ASSUME NEW a \in Actors,
               \/ ReadGate(a) \/ DecisionRefused(a) \/ UploadBundle(a) \/ RecordBundle(a)
               \/ BundleFails(a) \/ ListStalledRun(a) \/ ReadFailedRun(a) \/ ApproverDies(a)
        PROVE  UNCHANGED run
    BY <1>8 DEF ReadGate, DecisionRefused, UploadBundle, RecordBundle, BundleFails,
                ListStalledRun, ReadFailedRun, ApproverDies
  <1> QED
    BY <1>3, <1>4, <1>5, <1>6, <1>7, <1>8 DEF GateNext, Decide, gvars

(* A gate becomes approved in the commit of an approver whose token is the *)
(* Run's, hence the newest.                                                *)
LEMMA CommitIsLatest ==
  ASSUME GateRecords, GateInvariant, [GateNext]_gvars,
         run.gate # "approved", run'.gate = "approved"
  PROVE  \E a \in Approvers : /\ ap[a].pc = "approve" /\ ap'[a] # ap[a]
                              /\ ap[a].token = decisions
  <1>1. run \in RunDoc
    BY DEF GateRecords
  <1>2. ~UNCHANGED run
    OBVIOUS
  <1>3. CASE DecisionLeaseExpires
    BY <1>1, <1>3 DEF DecisionLeaseExpires, RunDoc
  <1>4. ASSUME NEW a \in Actors, TakeDecision(a) \/ Rollback(a) \/ MarkUncertainCommit(a)
                                   \/ Reject(a) \/ RetryRun(a)
        PROVE  FALSE
    BY <1>1, <1>4 DEF TakeDecision, Rollback, RolledBack, MarkUncertainCommit, Reject,
                      RetryRun, RunDoc
  <1>5. ASSUME NEW a \in Actors, Reconcile(a)
        PROVE  FALSE
    <2>1. ~(run.status = "running" /\ IsPublished(art))
      BY DEF GateInvariant, ApprovedIsAtomic, SomethingIsPublished, IsPublished
    <2>2. ~ReconcileReadsRun(a) /\ ~ReconcileJudges(a) /\ ~ReconcileCompletes(a)
      BY <1>2, <2>1 DEF ReconcileReadsRun, ReconcileJudges, ReconcileCompletes
    <2>3. ReconcileAborts(a) /\ run.status = "running" /\ ~IsPublished(art)
      BY <1>2, <1>5, <2>2 DEF Reconcile, ReconcileAborts
    <2>4. run' = [run EXCEPT !.status = "failed", !.gate = "failed",
                             !.commit = "aborted", !.dtoken = 0, !.dlive = FALSE]
      BY <2>3 DEF ReconcileAborts
    <2> QED
      BY <1>1, <2>4 DEF RunDoc
  <1>6. ASSUME NEW a \in Actors, Approve(a) \/ ApproveRaises(a)
        PROVE  \E b \in Approvers : /\ ap[b].pc = "approve" /\ ap'[b] # ap[b]
                                    /\ ap[b].token = decisions
    <2>1. ap[a].pc = "approve" /\ MayApprove(a)
      BY <1>2, <1>6 DEF Approve, ApproveRaises
    <2>2. a \in Approvers
      BY <2>1 DEF GateInvariant, ScannerSteps
    <2>3. ap[a].token = decisions
      BY <2>1 DEF MayApprove, GateInvariant
    <2>4. Return(a) \/ Step(a, "conflict") \/ Step(a, "mark")
      BY <1>6 DEF Approve, ApproveRaises
    <2>5. ap'[a].pc # "approve"
      BY <2>4, ReturnType, StepType DEF GateRecords, ApSteps
    <2> QED
      BY <2>1, <2>2, <2>3, <2>5
  <1>7. ASSUME NEW a \in Actors,
               \/ ReadGate(a) \/ DecisionRefused(a) \/ UploadBundle(a) \/ RecordBundle(a)
               \/ BundleFails(a) \/ ListStalledRun(a) \/ ReadFailedRun(a) \/ ApproverDies(a)
        PROVE  FALSE
    BY <1>2, <1>7 DEF ReadGate, DecisionRefused, UploadBundle, RecordBundle, BundleFails,
                      ListStalledRun, ReadFailedRun, ApproverDies
  <1> QED
    BY <1>2, <1>3, <1>4, <1>5, <1>6, <1>7 DEF GateNext, Decide, gvars

-----------------------------------------------------------------------------
(* The invariant, from which the theorems follow.                          *)
LEMMA GateCorrect == GateSpec => [](GateRecords /\ GateInvariant)
  <1>1. GateInit => GateRecords /\ GateInvariant
    BY GateInitial
  <1>2. GateRecords /\ GateInvariant /\ [GateNext]_gvars => (GateRecords /\ GateInvariant)'
    BY GateStepKeeps
  <1> QED
    BY <1>1, <1>2, PTL DEF GateSpec

(* Every variable of the gate stays in its type.                           *)
THEOREM GateTypeCorrect == GateSpec => []GateTypeOK
  BY GateCorrect, RecordsAreTyped, PTL

(* Approval takes Run, action and deliverable together: nothing is         *)
(* published while the gate is not approved, and everything once it is.    *)
THEOREM ApprovalsAreAtomic == GateSpec => []ApprovedIsAtomic
  <1>1. GateRecords /\ GateInvariant => ApprovedIsAtomic
    BY DEF GateInvariant
  <1> QED
    BY <1>1, GateCorrect, PTL

(* No rollback, abort, rejection or retry takes an approval back.          *)
THEOREM ApprovalsAreFinal == GateSpec => ApprovalIsFinal
  <1>1. GateRecords /\ GateInvariant /\ [GateNext]_gvars
          => [run.gate = "approved" =>
                run'.gate = "approved" /\ run'.status = "completed"]_gvars
    BY ApprovedStays
  <1> QED
    BY <1>1, GateCorrect, PTL DEF GateSpec, ApprovalIsFinal

(* Of several approvers, the holder of the newest decision lease commits.  *)
THEOREM LatestDecisionsCommit == GateSpec => LatestDecisionCommits
  <1>1. GateRecords /\ GateInvariant /\ [GateNext]_gvars
          => [run.gate # "approved" /\ run'.gate = "approved" =>
                \E a \in Approvers : /\ ap[a].pc = "approve" /\ ap'[a] # ap[a]
                                     /\ ap[a].token = decisions]_gvars
    BY CommitIsLatest
  <1> QED
    BY <1>1, GateCorrect, PTL DEF GateSpec, LatestDecisionCommits

-----------------------------------------------------------------------------
(* ControlTower: the same gate beside the workers and the reclaimer of the *)
(* execution, who write the Run and the deliverable too.  What they may    *)
(* hold meanwhile is wider, and the rule of the gate is weaker: a stale    *)
(* worker may take the deliverable back to PENDING_APPROVAL, but publishes *)
(* nothing, and reopens only a Run that is RUNNING.                        *)
TowerRecords ==
    /\ run \in Execution!RunRecord /\ art \in Execution!ArtRecord /\ bundle \in BundleDoc
    /\ ap \in [Actors -> Actor]
    /\ decisions \in Nat

TowerInvariant ==
    /\ run.gate = "approved" <=> run.status = "completed"
    /\ NothingUnapprovedIsPublished

(* What a step of either side does to the shared documents: it approves,   *)
(* or moves a Run that is not approved, or leaves status and gate alone;   *)
(* and it publishes only what it approves.                                 *)
Approves == run'.gate = "approved" /\ run'.status = "completed"

PublishesNothing ==
    /\ art'.vis = "published" => art.vis = "published"
    /\ art'.pub = "published" => art.pub = "published"
    /\ bundle'.vis = "published" => bundle.vis = "published"

MovesRun ==
    /\ run.status # "completed"
    /\ run'.gate # "approved" /\ run'.status # "completed"
    /\ PublishesNothing

LeavesRun ==
    /\ run'.gate = run.gate /\ run'.status = run.status
    /\ PublishesNothing

LEMMA TowerEffects ==
  ASSUME TowerInvariant, Approves \/ MovesRun \/ LeavesRun
  PROVE  /\ TowerInvariant'
         /\ run.gate = "approved" => run'.gate = "approved" /\ run'.status = "completed"
  BY DEF TowerInvariant, NothingUnapprovedIsPublished, SomethingIsPublished,
         Approves, MovesRun, LeavesRun, PublishesNothing

(* The calls of the gate stay calls, whatever the documents hold.          *)
LEMMA TowerCalls ==
  ASSUME TowerRecords, NEW a \in Actors,
         \/ ReadGate(a) \/ Decide(a) \/ BundleFails(a) \/ ApproveRaises(a)
         \/ ListStalledRun(a) \/ Reconcile(a) \/ ReadFailedRun(a) \/ ApproverDies(a)
  PROVE  ap' \in [Actors -> Actor] /\ decisions' \in Nat
  <1> USE DEF TowerRecords
  <1>0. ap[a] \in Actor
    OBVIOUS
  <1>1. CASE ReadGate(a)
    <2>1. PICK choice \in {"cas", "reject"} :
             ap' = [ap EXCEPT ![a].pc = choice, ![a].expected = run.status]
      BY <1>1 DEF ReadGate
    <2>2. run.status \in {"running", "awaiting_approval"} /\ UNCHANGED decisions
      BY <1>1 DEF ReadGate, Recoverable
    <2> DEFINE c == [ap[a] EXCEPT !.pc = choice, !.expected = run.status]
    <2>3. c \in Actor
      BY <1>0, <2>2, FieldsOfCall DEF ApSteps
    <2>4. ap' = [ap EXCEPT ![a] = c]
      BY <2>1
    <2> HIDE DEF c
    <2> QED
      BY <2>2, <2>3, <2>4
  <1>2. CASE TakeDecision(a)
    <2>1. PICK d \in Nat : d = decisions + 1 /\ decisions' = d
      BY <1>2 DEF TakeDecision
    <2> DEFINE c == [ap[a] EXCEPT !.pc = "bundle", !.token = d]
    <2>2. c \in Actor
      BY <1>0, FieldsOfCall DEF ApSteps
    <2>3. ap' = [ap EXCEPT ![a] = c]
      BY <1>2, <2>1 DEF TakeDecision
    <2> HIDE DEF c
    <2> QED
      BY <2>1, <2>2, <2>3
  <1>3. ASSUME NEW h \in BOOLEAN,
               \/ ap' = [ap EXCEPT ![a].pc = "reconcile", ![a].force = h]
               \/ ap' = [ap EXCEPT ![a].pc = "judge", ![a].held = h]
        PROVE  ap' \in [Actors -> Actor]
    <2> DEFINE c == [ap[a] EXCEPT !.pc = "reconcile", !.force = h]
               d == [ap[a] EXCEPT !.pc = "judge", !.held = h]
    <2>1. c \in Actor /\ d \in Actor
      BY <1>0, FieldsOfCall DEF ApSteps
    <2>2. ap' = [ap EXCEPT ![a] = c] \/ ap' = [ap EXCEPT ![a] = d]
      BY <1>3
    <2> HIDE DEF c, d
    <2> QED
      BY <2>1, <2>2
  <1>4. ASSUME Return(a) \/ \E pc \in ApSteps : Step(a, pc)
        PROVE  ap' \in [Actors -> Actor]
    BY <1>4, StepType, ReturnType
  <1>5. CASE BundleFails(a) \/ MarkUncertainCommit(a) \/ ReconcileReadsRun(a)
    <2>1. Return(a) \/ \E h \in BOOLEAN :
             \/ ap' = [ap EXCEPT ![a].pc = "reconcile", ![a].force = h]
             \/ ap' = [ap EXCEPT ![a].pc = "judge", ![a].held = h]
      BY <1>5 DEF BundleFails, MarkUncertainCommit, ReconcileReadsRun
    <2>2. UNCHANGED decisions
      BY <1>5 DEF BundleFails, MarkUncertainCommit, ReconcileReadsRun
    <2> QED
      BY <1>3, <1>4, <2>1, <2>2
  <1>6. CASE \/ DecisionRefused(a) \/ UploadBundle(a) \/ RecordBundle(a) \/ Approve(a)
             \/ ApproveRaises(a) \/ Rollback(a) \/ Reject(a) \/ RetryRun(a)
    <2>1. Return(a) \/ \E pc \in ApSteps : Step(a, pc)
      BY <1>6 DEF DecisionRefused, UploadBundle, RecordBundle, Approve, ApproveRaises,
                  Rollback, Reject, RetryRun, ApSteps
    <2>2. UNCHANGED decisions
      BY <1>6 DEF DecisionRefused, UploadBundle, RecordBundle, Approve, ApproveRaises,
                  Rollback, Reject, RetryRun
    <2> QED
      BY <1>4, <2>1, <2>2
  <1>7. CASE \/ ListStalledRun(a) \/ ReconcileJudges(a) \/ ReconcileCompletes(a)
             \/ ReconcileAborts(a) \/ ReadFailedRun(a) \/ ApproverDies(a)
    <2>1. Return(a) \/ \E pc \in ApSteps : Step(a, pc)
      BY <1>7 DEF ListStalledRun, ReconcileJudges, ReconcileCompletes, ReconcileAborts,
                  ReadFailedRun, ApproverDies, ApSteps
    <2>2. UNCHANGED decisions
      BY <1>7 DEF ListStalledRun, ReconcileJudges, ReconcileCompletes, ReconcileAborts,
                  ReadFailedRun, ApproverDies
    <2> QED
      BY <1>4, <2>1, <2>2
  <1> QED
    BY <1>1, <1>2, <1>5, <1>6, <1>7 DEF Decide, Reconcile

(* The documents after a step of the gate.                                 *)
LEMMA GovernRecords ==
  ASSUME TowerRecords, GateNext
  PROVE  TowerRecords'
  <1> USE DEF Execution!RunRecord, Execution!RunStatus, Execution!GateStatus
  <1>1. run \in Execution!RunRecord /\ art \in Execution!ArtRecord /\ bundle \in BundleDoc
        /\ decisions \in Nat
    BY DEF TowerRecords
  <1>2. CASE DecisionLeaseExpires
    BY <1>1, <1>2 DEF DecisionLeaseExpires, TowerRecords, Execution!RunRecord
  <1>3. ASSUME NEW a \in Actors,
               \/ ReadGate(a) \/ Decide(a) \/ BundleFails(a) \/ ApproveRaises(a)
               \/ ListStalledRun(a) \/ Reconcile(a) \/ ReadFailedRun(a) \/ ApproverDies(a)
        PROVE  TowerRecords'
    <2>1. ap' \in [Actors -> Actor] /\ decisions' \in Nat
      BY <1>3, TowerCalls
    <2>2. run' \in Execution!RunRecord
      <3>1. CASE TakeDecision(a)
        <4>1. PICK d \in Nat : d = decisions + 1
          BY <1>1
        <4>2. run' = [run EXCEPT !.status = "running", !.gate = "approving",
                                 !.dtoken = d, !.dlive = TRUE]
          BY <3>1, <4>1 DEF TakeDecision
        <4> QED
          BY <1>1, <4>2
      <3>2. CASE Approve(a) \/ ApproveRaises(a) \/ Reject(a)
        <4>1. \/ run' = run
              \/ run' = [run EXCEPT !.status = "completed", !.gate = "approved"]
              \/ run' = [run EXCEPT !.status = "failed", !.gate = "rejected"]
          BY <3>2 DEF Approve, ApproveRaises, Reject
        <4>2. ASSUME run' = [run EXCEPT !.status = "completed", !.gate = "approved"]
             PROVE  run' \in Execution!RunRecord
          BY <1>1, <4>2
        <4>3. ASSUME run' = [run EXCEPT !.status = "failed", !.gate = "rejected"]
             PROVE  run' \in Execution!RunRecord
          BY <1>1, <4>3
        <4> QED
          BY <1>1, <4>1, <4>2, <4>3
      <3>3. CASE Rollback(a) \/ MarkUncertainCommit(a) \/ RetryRun(a)
        <4>1. \/ run' = run
              \/ run' = [run EXCEPT !.status = "awaiting_approval", !.gate = "pending",
                                    !.dtoken = 0, !.dlive = FALSE]
              \/ run' = [run EXCEPT !.commit = "uncertain"]
              \/ run' = [run EXCEPT !.status = "running"]
          BY <3>3 DEF Rollback, RolledBack, MarkUncertainCommit, RetryRun
        <4>2. ASSUME run' = [run EXCEPT !.status = "awaiting_approval", !.gate = "pending",
                                       !.dtoken = 0, !.dlive = FALSE]
             PROVE  run' \in Execution!RunRecord
          BY <1>1, <4>2
        <4>3. ASSUME run' = [run EXCEPT !.commit = "uncertain"]
             PROVE  run' \in Execution!RunRecord
          BY <1>1, <4>3
        <4>4. ASSUME run' = [run EXCEPT !.status = "running"]
             PROVE  run' \in Execution!RunRecord
          BY <1>1, <4>4
        <4> QED
          BY <1>1, <4>1, <4>2, <4>3, <4>4
      <3>5. CASE Reconcile(a)
        <4>1. \/ run' = run
              \/ run' = [run EXCEPT !.status = "completed", !.gate = "approved",
                                    !.commit = "committed", !.dtoken = 0, !.dlive = FALSE]
              \/ run' = [run EXCEPT !.status = "failed", !.gate = "failed",
                                    !.commit = "aborted", !.dtoken = 0, !.dlive = FALSE]
          BY <3>5 DEF Reconcile, ReconcileReadsRun, ReconcileJudges,
                      ReconcileCompletes, ReconcileAborts
        <4>2. ASSUME run' = [run EXCEPT !.status = "completed", !.gate = "approved",
                                       !.commit = "committed", !.dtoken = 0, !.dlive = FALSE]
             PROVE  run' \in Execution!RunRecord
          BY <1>1, <4>2
        <4>3. ASSUME run' = [run EXCEPT !.status = "failed", !.gate = "failed",
                                       !.commit = "aborted", !.dtoken = 0, !.dlive = FALSE]
             PROVE  run' \in Execution!RunRecord
          BY <1>1, <4>3
        <4> QED
          BY <1>1, <4>1, <4>2, <4>3
      <3>4. CASE \/ ReadGate(a) \/ DecisionRefused(a) \/ UploadBundle(a) \/ RecordBundle(a)
                 \/ BundleFails(a) \/ ListStalledRun(a) \/ ReadFailedRun(a)
                 \/ ApproverDies(a)
        BY <1>1, <3>4 DEF ReadGate, DecisionRefused, UploadBundle, RecordBundle,
                          BundleFails, ListStalledRun, ReadFailedRun, ApproverDies
      <3> QED
        BY <1>3, <3>1, <3>2, <3>3, <3>4, <3>5 DEF Decide
    <2>3. art' \in Execution!ArtRecord
      <3>1. CASE Approve(a) \/ ApproveRaises(a) \/ Reject(a)
        BY <1>1, <3>1 DEF Approve, ApproveRaises, Reject, Publish,
                          Execution!ArtRecord, Execution!Visibility
      <3>2. CASE ~(Approve(a) \/ ApproveRaises(a) \/ Reject(a))
        <4>1. art' = art
          BY <1>3, <3>2 DEF Decide, Reconcile, ReadGate, TakeDecision, DecisionRefused,
               UploadBundle, RecordBundle, BundleFails, Rollback, MarkUncertainCommit,
               RetryRun, ListStalledRun, ReconcileReadsRun, ReconcileJudges,
               ReconcileCompletes, ReconcileAborts, ReadFailedRun, ApproverDies
        <4> QED
          BY <1>1, <4>1
      <3> QED
        BY <3>1, <3>2
    <2>4. bundle' \in BundleDoc
      <3>1. CASE Approve(a) \/ ApproveRaises(a) \/ UploadBundle(a) \/ RecordBundle(a)
                   \/ BundleFails(a)
        BY <1>1, <3>1 DEF Approve, ApproveRaises, UploadBundle, RecordBundle,
                          BundleFails, Publish, BundleDoc
      <3>2. CASE ~(Approve(a) \/ ApproveRaises(a) \/ UploadBundle(a) \/ RecordBundle(a)
                     \/ BundleFails(a))
        <4>1. bundle' = bundle
          BY <1>3, <3>2 DEF Decide, Reconcile, ReadGate, TakeDecision, DecisionRefused,
               Rollback, MarkUncertainCommit, Reject, RetryRun, ListStalledRun,
               ReconcileReadsRun, ReconcileJudges, ReconcileCompletes, ReconcileAborts,
               ReadFailedRun, ApproverDies
        <4> QED
          BY <1>1, <4>1
      <3> QED
        BY <3>1, <3>2
    <2> QED
      BY <2>1, <2>2, <2>3, <2>4 DEF TowerRecords
  <1> QED
    BY <1>2, <1>3 DEF GateNext

(* The gate's steps approve, or move a Run that is not approved.           *)
LEMMA GovernEffects ==
  ASSUME TowerRecords, TowerInvariant, GateNext
  PROVE  Approves \/ MovesRun \/ LeavesRun
  <1> USE DEF Execution!RunRecord, Execution!ArtRecord, BundleDoc
  <1>1. run \in Execution!RunRecord /\ art \in Execution!ArtRecord /\ bundle \in BundleDoc
    BY DEF TowerRecords
  <1>2. CASE DecisionLeaseExpires
    BY <1>1, <1>2 DEF DecisionLeaseExpires, LeavesRun, PublishesNothing
  <1>3. ASSUME NEW a \in Actors,
               \/ ReadGate(a) \/ Decide(a) \/ BundleFails(a) \/ ApproveRaises(a)
               \/ ListStalledRun(a) \/ Reconcile(a) \/ ReadFailedRun(a) \/ ApproverDies(a)
        PROVE  Approves \/ MovesRun \/ LeavesRun
    <2>1. CASE Approve(a) \/ ApproveRaises(a)
      <3>1. Approves \/ UNCHANGED <<run, art, bundle>>
        BY <1>1, <2>1 DEF Approve, ApproveRaises, Approves
      <3> QED
        BY <3>1 DEF LeavesRun, PublishesNothing
    <2>2. CASE TakeDecision(a)
      <3>1. run.status # "completed"
        BY <2>2 DEF TakeDecision, TowerRecords, Actor
      <3> QED
        BY <1>1, <2>2, <3>1 DEF TakeDecision, MovesRun, PublishesNothing
    <2>3. CASE Rollback(a) \/ MarkUncertainCommit(a)
      BY <1>1, <2>3 DEF Rollback, MayRollBack, RolledBack, MarkUncertainCommit,
                        MovesRun, LeavesRun, PublishesNothing
    <2>4. CASE Reject(a)
      BY <1>1, <2>4 DEF Reject, MovesRun, LeavesRun, PublishesNothing
    <2>5. CASE RetryRun(a)
      <3>1. run.status = "failed" => run.gate # "approved"
        BY DEF TowerInvariant
      <3> QED
        BY <1>1, <2>5, <3>1 DEF RetryRun, MovesRun, LeavesRun, PublishesNothing
    <2>6. CASE ReconcileCompletes(a)
      BY <1>1, <2>6 DEF ReconcileCompletes, Approves, LeavesRun, PublishesNothing
    <2>7. CASE ReconcileAborts(a)
      BY <1>1, <2>7 DEF ReconcileAborts, MovesRun, LeavesRun, PublishesNothing
    <2>8. CASE \/ ReadGate(a) \/ DecisionRefused(a) \/ UploadBundle(a) \/ RecordBundle(a)
               \/ BundleFails(a) \/ ListStalledRun(a) \/ ReconcileReadsRun(a)
               \/ ReconcileJudges(a) \/ ReadFailedRun(a) \/ ApproverDies(a)
      <3>1. UNCHANGED <<run, art>> /\ (bundle'.vis = "published" => bundle.vis = "published")
        BY <1>1, <2>8 DEF ReadGate, DecisionRefused, UploadBundle, RecordBundle,
             BundleFails, ListStalledRun, ReconcileReadsRun, ReconcileJudges,
             ReadFailedRun, ApproverDies
      <3> QED
        BY <3>1 DEF LeavesRun, PublishesNothing
    <2> QED
      BY <1>3, <2>1, <2>2, <2>3, <2>4, <2>5, <2>6, <2>7, <2>8 DEF Decide, Reconcile
  <1> QED
    BY <1>2, <1>3 DEF GateNext

(* The workers write PENDING_APPROVAL only, and the Run they close or      *)
(* create is RUNNING or not there; the terminal reclaim of Firestore       *)
(* writes nothing.                                                         *)
LEMMA ExecuteEffects ==
  ASSUME TowerRecords, TowerInvariant, Execute
  PROVE  TowerRecords' /\ (MovesRun \/ LeavesRun)
  <1> USE DEF Execution!RunRecord, Execution!ArtRecord
  <1>1. run \in Execution!RunRecord /\ art \in Execution!ArtRecord
        /\ UNCHANGED <<bundle, ap, decisions>>
    BY DEF TowerRecords, Execute, avars
  <1>2. run.gate = "approved" <=> run.status = "completed"
    BY DEF TowerInvariant
  <1>3. ASSUME UNCHANGED <<run, art>>
        PROVE  TowerRecords' /\ LeavesRun
    BY <1>1, <1>3 DEF TowerRecords, LeavesRun, PublishesNothing
  <1>4. ASSUME NEW w \in Workers, Execution!GetRun(w) \/ Execution!CasRun(w)
        PROVE  TowerRecords' /\ (MovesRun \/ LeavesRun)
    <2>1. UNCHANGED art
      BY <1>4 DEF Execution!GetRun, Execution!CasRun
    <2>2. \/ run' = run
          \/ run.status = "none" /\ run' = [run EXCEPT !.status = "running"]
          \/ run.status = "running"
             /\ run' = [run EXCEPT !.status = "awaiting_approval", !.gate = "pending",
                                   !.dtoken = 0, !.dlive = FALSE]
      BY <1>4 DEF Execution!GetRun, Execution!CasRun, Execution!MayClose,
           Execution!Closed, Execution!Outcome, Execution!NoToken
    <2>3. run' \in Execution!RunRecord
      <3> USE DEF Execution!RunStatus, Execution!GateStatus
      <3>1. ASSUME run' = [run EXCEPT !.status = "running"]
            PROVE  run' \in Execution!RunRecord
        BY <1>1, <3>1
      <3>2. ASSUME run' = [run EXCEPT !.status = "awaiting_approval", !.gate = "pending",
                                     !.dtoken = 0, !.dlive = FALSE]
            PROVE  run' \in Execution!RunRecord
        BY <1>1, <3>2
      <3> QED
        BY <1>1, <2>2, <3>1, <3>2
    <2>4. MovesRun \/ LeavesRun
      BY <1>1, <1>2, <2>1, <2>2 DEF MovesRun, LeavesRun, PublishesNothing
    <2> QED
      BY <1>1, <2>1, <2>3, <2>4 DEF TowerRecords
  <1>5. ASSUME NEW w \in Workers,
               \/ Execution!UploadBlob(w) \/ Execution!GenerateFails(w)
               \/ Execution!VerifyFails(w) \/ Execution!SaveFile(w)
               \/ Execution!SaveArtifact(w) \/ Execution!Compensate(w)
        PROVE  TowerRecords' /\ LeavesRun
    <2>1. run' = run
      BY <1>5 DEF Execution!UploadBlob, Execution!GenerateFails, Execution!VerifyFails,
           Execution!SaveFile, Execution!SaveArtifact, Execution!Compensate
    <2>2. /\ art' \in Execution!ArtRecord
          /\ art'.vis = "published" => art.vis = "published"
          /\ art'.pub = "published" => art.pub = "published"
      BY <1>1, <1>5 DEF Execution!UploadBlob, Execution!GenerateFails,
           Execution!VerifyFails, Execution!SaveFile, Execution!SaveArtifact,
           Execution!Compensate, Execution!Published, Execution!Visibility
    <2> QED
      BY <1>1, <2>1, <2>2 DEF TowerRecords, LeavesRun, PublishesNothing
  <1>6. ASSUME NEW w \in Workers,
               \/ Execution!Deliver(w) \/ Execution!VerifyLease(w) \/ Execution!SaveExec(w)
               \/ Execution!EmitEvent(w) \/ Execution!FailExec(w) \/ Execution!FailRun(w)
               \/ Execution!GetRunRaises(w) \/ Execution!StoreRaises(w)
               \/ Execution!FailExecRaises(w) \/ Execution!HeartbeatLost(w)
               \/ Execution!HeartbeatLate(w) \/ Execution!Crash(w)
               \/ Execution!Heartbeat(w)
        PROVE  UNCHANGED <<run, art>>
    BY <1>6 DEF Execution!Deliver, Execution!ClaimAction, Execution!ClaimRefused,
         Execution!VerifyLease, Execution!SaveExec, Execution!EmitEvent,
         Execution!FailExec, Execution!FailRun, Execution!GetRunRaises,
         Execution!StoreRaises, Execution!FailExecRaises, Execution!HeartbeatLost,
         Execution!HeartbeatLate, Execution!Crash, Execution!Heartbeat
  <1>7. ASSUME \/ Execution!LeaseExpires \/ Execution!BackoffElapses
               \/ Execution!ListStalled
               \/ \E s \in scan : Execution!Recover(s) \/ Execution!ReclaimerStops(s)
        PROVE  UNCHANGED <<run, art>>
    BY <1>7 DEF Execution!LeaseExpires, Execution!BackoffElapses,
         Execution!ListStalled, Execution!Recover, Execution!ReclaimTerminal,
         Execution!ReclaimForRetry, Execution!Redispatch, Execution!ReclaimerStops
  <1> QED
    BY <1>3, <1>4, <1>5, <1>6, <1>7
       DEF Execute, Execution!Next, Execution!Proceed, Execution!Disturb

LEMMA TowerStep ==
  ASSUME TowerRecords, TowerInvariant, [TowerNext]_tvars
  PROVE  /\ TowerRecords' /\ TowerInvariant'
         /\ run.gate = "approved" => run'.gate = "approved" /\ run'.status = "completed"
  <1>1. CASE UNCHANGED tvars
    <2>1. UNCHANGED <<run, art, bundle, ap, decisions>>
      BY <1>1 DEF tvars, avars
    <2>2. LeavesRun
      BY <2>1 DEF LeavesRun, PublishesNothing
    <2> QED
      BY <2>1, <2>2, TowerEffects DEF TowerRecords
  <1>2. CASE TowerNext
    BY <1>2, GovernRecords, GovernEffects, ExecuteEffects, TowerEffects
       DEF TowerNext, Govern
  <1> QED
    BY <1>1, <1>2

LEMMA TowerCorrect == TowerSpec => [](TowerRecords /\ TowerInvariant)
  <1>1. TowerInit => TowerRecords /\ TowerInvariant
    <2> SUFFICES ASSUME TowerInit PROVE TowerRecords /\ TowerInvariant
      OBVIOUS
    <2>1. ap \in [Actors -> Actor]
      BY DEF TowerInit, AtRest, Actor, ApSteps
    <2>2. run = Execution!NoRun /\ art = Execution!NoArt
      BY DEF TowerInit, Execution!Init
    <2>3. TowerRecords
      BY <2>1, <2>2 DEF TowerInit, TowerRecords, BundleDoc, Execution!NoRun,
           Execution!NoArt, Execution!NoToken, Execution!RunRecord, Execution!RunStatus,
           Execution!GateStatus, Execution!ArtRecord, Execution!Visibility
    <2> QED
      BY <2>2, <2>3 DEF TowerInit, TowerInvariant, NothingUnapprovedIsPublished,
           SomethingIsPublished, Execution!NoRun, Execution!NoArt
  <1>2. TowerRecords /\ TowerInvariant /\ [TowerNext]_tvars
          => (TowerRecords /\ TowerInvariant)'
    BY TowerStep
  <1> QED
    BY <1>1, <1>2, PTL DEF TowerSpec

(* Whatever workers, duplicate tasks, reclaims, approvers and reconcilers  *)
(* do beside each other, nothing of a critical action is published before  *)
(* its gate was approved.                                                  *)
THEOREM NothingUnapproved == TowerSpec => []NothingUnapprovedIsPublished
  <1>1. TowerRecords /\ TowerInvariant => NothingUnapprovedIsPublished
    BY DEF TowerInvariant
  <1> QED
    BY <1>1, TowerCorrect, PTL

(* No late worker reopens an approved Run, and nobody else does.           *)
THEOREM ApprovedRunsStay == TowerSpec => ApprovedRunStays
  <1>1. TowerRecords /\ TowerInvariant /\ [TowerNext]_tvars
          => [run.gate = "approved" =>
                run'.gate = "approved" /\ run'.status = "completed"]_tvars
    BY TowerStep
  <1> QED
    BY <1>1, TowerCorrect, PTL DEF TowerSpec, ApprovedRunStays
=============================================================================
