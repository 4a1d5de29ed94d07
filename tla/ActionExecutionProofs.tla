----------------------- MODULE ActionExecutionProofs -----------------------
(***************************************************************************)
(* Proofs about ActionExecution, for every set of workers, either backend, *)
(* and every bound.  TypeOK is inductive by itself; LeaseInvariant is,     *)
(* given TypeOK; the other safety properties follow from the two, and what *)
(* is COMPLETED is published by a third one (PublicationInvariant).        *)
(*                                                                         *)
(* And about ActionLifecycle, which adds the dispatchers: the leases stay  *)
(* bounded and the record tells the truth about the queue, though workers  *)
(* write back older copies of it (QueueInvariant).                         *)
(***************************************************************************)
EXTENDS ActionLifecycle, TLAPS

(* What is known of the dispatchers' steps.                                *)
Facts == INSTANCE ActionDispatchProofs

(* Records of the types that TypeOK names, built by the helpers.           *)
LEMMA CreatedType == Created \in ExecRecord
  BY DEF Created, ExecRecord, ExecStatus, NoToken

LEMMA DispatchedType == Dispatched \in DispRecord
  BY DEF Dispatched, DispRecord, NoToken

LEMMA IdleType == Idle \in WorkerState
  BY CreatedType, DispatchedType
  DEF Idle, WorkerState, Steps, Working, Saving, Failing

LEMMA OutcomeStatus == Outcome \in {"awaiting_approval", "completed"}
  BY DEF Outcome

(* What a worker writes back is a record again.                            *)
LEMMA WrittenBackType ==
  ASSUME exec \in ExecRecord, NEW c \in ExecRecord, NEW status \in ExecStatus
  PROVE  WrittenBack(c, status) \in ExecRecord
  <1>1. PICK wait \in BOOLEAN : wait = (c.retryWait /\ exec.retryWait)
    BY Zenon
  <1>2. PICK lease \in {"none", "live", "expired"} :
            lease = IF exec.lease = "live" THEN "live" ELSE "expired"
    OBVIOUS
  <1>a. PICK version \in Nat : version = exec.version + 1
    BY DEF ExecRecord
  <1>3. WrittenBack(c, status)
          = [c EXCEPT !.status = status, !.version = version,
                      !.lease = lease, !.retryWait = wait]
    BY <1>1, <1>2, <1>a, Zenon DEF WrittenBack
  <1> QED
    BY <1>3 DEF ExecRecord

LEMMA WrittenBackDispType ==
  ASSUME disp \in DispRecord, NEW c \in DispRecord
  PROVE  WrittenBackDisp(c) \in DispRecord
  <1>1. PICK wait \in BOOLEAN : wait = (c.wait /\ disp.wait)
    BY Zenon
  <1>2. WrittenBackDisp(c) = [c EXCEPT !.wait = wait]
    BY <1>1, Zenon DEF WrittenBackDisp
  <1> QED
    BY <1>2 DEF DispRecord

(* ... and so is what a reclaim leaves.                                    *)
LEMMA ReleasedType ==
  ASSUME exec \in ExecRecord, NEW status \in ExecStatus, NEW wait \in BOOLEAN
  PROVE  Released(status, wait) \in ExecRecord
  BY DEF Released, ExecRecord, NoToken

(* A call that goes to its next step keeps the type of the calls.          *)
LEMMA GotoType ==
  ASSUME wk \in [Workers -> WorkerState], NEW w \in Workers,
         NEW step \in Steps, Goto(w, step)
  PROVE  wk' \in [Workers -> WorkerState]
  BY DEF Goto, WorkerState

(* So does one whose tracker stops, or that has uploaded its bytes.        *)
LEMMA StopType ==
  ASSUME wk \in [Workers -> WorkerState], NEW w \in Workers, NEW step \in Steps,
         NEW hb \in {"off", "on", "lost", "late"}
  PROVE  [wk EXCEPT ![w].pc = step, ![w].hb = hb] \in [Workers -> WorkerState]
  BY DEF WorkerState

LEMMA BeatType ==
  ASSUME wk \in [Workers -> WorkerState], NEW w \in Workers, NEW v \in Nat
  PROVE  [wk EXCEPT ![w].hb = "off", ![w].version = v] \in [Workers -> WorkerState]
  BY DEF WorkerState

LEMMA UploadType ==
  ASSUME wk \in [Workers -> WorkerState], NEW w \in Workers, NEW step \in Steps
  PROVE  [wk EXCEPT ![w].pc = step, ![w].blobSaved = TRUE] \in [Workers -> WorkerState]
  BY DEF WorkerState

-----------------------------------------------------------------------------
LEMMA TypeInit == Init => TypeOK
  <1> SUFFICES ASSUME Init PROVE TypeOK
    OBVIOUS
  <1> USE ConstantsAssumption DEF Init
  <1>1. exec \in ExecRecord /\ disp \in DispRecord
    BY CreatedType, DispatchedType
  <1>2. run \in RunRecord /\ art \in ArtRecord
    BY DEF NoRun, NoArt, RunRecord, ArtRecord, RunStatus, GateStatus, Visibility, NoToken
  <1>3. tasks \in [1..MaxGeneration -> {"absent", "queued", "done"}]
    OBVIOUS
  <1>4. wk \in [Workers -> WorkerState]
    BY IdleType
  <1> QED
    BY <1>1, <1>2, <1>3, <1>4 DEF TypeOK

(* The next-state relation, action by action.                              *)
LEMMA TypeNext == TypeOK /\ [Next]_vars => TypeOK'
  <1> SUFFICES ASSUME TypeOK, [Next]_vars PROVE TypeOK'
    OBVIOUS
  <1> USE DEF TypeOK
  <1>0. CASE UNCHANGED vars
    BY <1>0 DEF vars
  <1>1. ASSUME NEW w \in Workers, Deliver(w) PROVE TypeOK'
    <2>1. ASSUME NEW g \in 1..MaxGeneration, ClaimAction(w, g) PROVE TypeOK'
      <3>1. claims' \in Nat /\ exec' \in ExecRecord
        <4>1. /\ claims' = claims + 1
              /\ exec' = [exec EXCEPT !.status = "running", !.lease = "live",
                                      !.token = claims + 1,
                                      !.attempts = exec.attempts + 1,
                                      !.version = exec.version + 1]
          BY <2>1, Zenon DEF ClaimAction, Granted
        <4>2. PICK a \in Nat, v \in Nat, c \in Nat :
                  a = exec.attempts + 1 /\ v = exec.version + 1 /\ c = claims + 1
          BY DEF ExecRecord
        <4>3. exec' = [exec EXCEPT !.status = "running", !.lease = "live", !.token = c,
                                   !.attempts = a, !.version = v]
          BY <4>1, <4>2, Zenon
        <4> QED
          BY <4>1, <4>2, <4>3 DEF ExecRecord, ExecStatus
      <3>2. wk' \in [Workers -> WorkerState]
        <4> DEFINE call == [pc |-> "get_run", task |-> g, rec |-> exec', disp |-> disp,
                            version |-> exec'.version, hb |-> "on", blobSaved |-> FALSE]
        <4>1. wk' = [wk EXCEPT ![w] = call]
          BY <2>1, Zenon DEF ClaimAction
        <4>2. exec'.version \in Nat
          BY <3>1 DEF ExecRecord
        <4>3. call \in WorkerState
          BY <3>1, <4>2 DEF WorkerState, Steps, Working
        <4> HIDE DEF call
        <4> QED
          BY <4>1, <4>3
      <3> QED
        BY <2>1, <3>1, <3>2 DEF ClaimAction
    <2>2. ASSUME NEW g \in 1..MaxGeneration, ClaimRefused(w, g) PROVE TypeOK'
      <3>1. exec' \in ExecRecord
        BY <2>2 DEF ClaimRefused, ExecRecord, ExecStatus
      <3> QED
        BY <2>2, <3>1 DEF ClaimRefused
    <2> QED
      BY <1>1, <2>1, <2>2 DEF Deliver
  <1>2. ASSUME NEW w \in Workers, Proceed(w) PROVE TypeOK'
    <2>1. CASE GetRun(w)
      <3>1. wk' \in [Workers -> WorkerState]
        BY <2>1, GotoType DEF GetRun, Steps, Working
      <3> QED
        BY <2>1, <3>1 DEF GetRun, RunRecord, RunStatus
    <2>2. CASE UploadBlob(w)
      <3>1. wk' \in [Workers -> WorkerState]
        BY <2>2, UploadType DEF UploadBlob, Steps, Working
      <3> QED
        BY <2>2, <3>1 DEF UploadBlob, ArtRecord
    <2>3. CASE VerifyLease(w)
      <3>1. wk' \in [Workers -> WorkerState]
        BY <2>3, StopType DEF VerifyLease, Steps, Saving
      <3> QED
        BY <2>3, <3>1 DEF VerifyLease
    <2>4. CASE VerifyFails(w)
      BY <2>4 DEF VerifyFails, WorkerState, Steps, Failing, ArtRecord
    <2>5. CASE SaveFile(w)
      <3>1. wk' \in [Workers -> WorkerState]
        BY <2>5, GotoType DEF SaveFile, Steps, Saving
      <3> QED
        BY <2>5, <3>1 DEF SaveFile, Published, ArtRecord, Visibility
    <2>6. CASE SaveArtifact(w)
      <3>1. wk' \in [Workers -> WorkerState]
        BY <2>6, GotoType DEF SaveArtifact, Steps, Saving
      <3> QED
        BY <2>6, <3>1 DEF SaveArtifact, Published, ArtRecord, Visibility
    <2>7. CASE CasRun(w)
      <3>1. wk' \in [Workers -> WorkerState]
        BY <2>7, GotoType DEF CasRun, Steps, Saving
      <3>2. run' \in RunRecord
        BY <2>7 DEF CasRun, Closed, Outcome, NoToken, RunRecord, RunStatus, GateStatus
      <3> QED
        BY <2>7, <3>1, <3>2 DEF CasRun
    <2>8. CASE SaveExec(w)
      <3>1. wk' \in [Workers -> WorkerState]
        BY <2>8, GotoType DEF SaveExec, Steps, Saving, Failing
      <3>2. exec' \in ExecRecord /\ disp' \in DispRecord
        <4>1. wk[w].rec \in ExecRecord /\ wk[w].disp \in DispRecord
          BY DEF WorkerState
        <4> QED
          BY <2>8, <4>1, WrittenBackType, WrittenBackDispType, OutcomeStatus
          DEF SaveExec, ExecStatus
      <3> QED
        BY <2>8, <3>1, <3>2 DEF SaveExec
    <2>9. CASE EmitEvent(w)
      <3>1. wk[w].task \in Nat
        BY DEF WorkerState
      <3> QED
        BY <2>9, <3>1, IdleType DEF EmitEvent
    <2>10. CASE Compensate(w)
      <3>1. wk' \in [Workers -> WorkerState]
        BY <2>10, GotoType DEF Compensate, Steps, Failing
      <3> QED
        BY <2>10, <3>1 DEF Compensate, ArtRecord
    <2>11. CASE FailExec(w)
      <3>1. wk' \in [Workers -> WorkerState]
        BY <2>11, GotoType DEF FailExec, Steps, Failing
      <3>2. exec' \in ExecRecord /\ disp' \in DispRecord
        <4>1. wk[w].rec \in ExecRecord /\ wk[w].disp \in DispRecord
          BY DEF WorkerState
        <4> QED
          BY <2>11, <4>1, WrittenBackType, WrittenBackDispType DEF FailExec, ExecStatus
      <3> QED
        BY <2>11, <3>1, <3>2 DEF FailExec
    <2>12. CASE FailRun(w)
      BY <2>12, IdleType DEF FailRun, RunRecord, RunStatus
    <2> QED
      BY <1>2, <2>1, <2>2, <2>3, <2>4, <2>5, <2>6, <2>7, <2>8, <2>9, <2>10,
         <2>11, <2>12 DEF Proceed
  <1>3. ASSUME NEW w \in Workers, Disturb(w) PROVE TypeOK'
    <2>1. CASE GetRunRaises(w)
      <3>1. wk' \in [Workers -> WorkerState]
        BY <2>1, GotoType DEF GetRunRaises, Goto, Steps
      <3> QED
        BY <2>1, <3>1 DEF GetRunRaises
    <2>2. CASE GenerateFails(w)
      <3>1. wk' \in [Workers -> WorkerState]
        BY <2>2, StopType DEF GenerateFails, Steps, Failing
      <3> QED
        BY <2>2, <3>1 DEF GenerateFails, ArtRecord
    <2>3. CASE StoreRaises(w)
      <3>1. wk' \in [Workers -> WorkerState]
        BY <2>3, GotoType DEF StoreRaises, Steps, Failing
      <3> QED
        BY <2>3, <3>1 DEF StoreRaises
    <2>4. CASE FailExecRaises(w)
      <3>1. wk' \in [Workers -> WorkerState]
        BY <2>4, GotoType DEF FailExecRaises, Steps, Failing
      <3> QED
        BY <2>4, <3>1 DEF FailExecRaises
    <2>5. CASE HeartbeatLost(w)
      BY <2>5 DEF HeartbeatLost, WorkerState
    <2>6. CASE HeartbeatLate(w)
      <3>1. exec' \in ExecRecord
        BY <2>6 DEF HeartbeatLate, ExecRecord
      <3>2. wk' \in [Workers -> WorkerState]
        <4>1. wk[w].version \in Nat /\ exec'.version \in Nat
          BY <3>1 DEF WorkerState, ExecRecord
        <4>2. PICK v \in Nat : wk' = [wk EXCEPT ![w].hb = "off", ![w].version = v]
          <5>1. PICK v \in {wk[w].version, exec'.version} :
                   wk' = [wk EXCEPT ![w].hb = "off",
                                    ![w].version = IF exec' = exec THEN @ ELSE v]
            BY <2>6, Zenon DEF HeartbeatLate
          <5>2. wk' = [wk EXCEPT ![w].hb = "off",
                                 ![w].version = IF exec' = exec THEN wk[w].version ELSE v]
            BY <5>1 DEF WorkerState
          <5> QED
            BY <4>1, <5>2, Zenon
        <4> QED
          BY <4>2, BeatType
      <3> QED
        BY <2>6, <3>1, <3>2 DEF HeartbeatLate
    <2>7. CASE Crash(w)
      BY <2>7, IdleType DEF Crash
    <2> QED
      BY <1>3, <2>1, <2>2, <2>3, <2>4, <2>5, <2>6, <2>7 DEF Disturb
  <1>4. ASSUME NEW w \in Workers, Heartbeat(w) PROVE TypeOK'
    <2>1. exec' \in ExecRecord
      BY <1>4 DEF Heartbeat, ExecRecord
    <2>2. wk' \in [Workers -> WorkerState]
      <3>1. exec'.version \in Nat
        BY <2>1 DEF ExecRecord
      <3>2. wk' = [wk EXCEPT ![w].version = exec'.version]
        BY <1>4 DEF Heartbeat
      <3> QED
        BY <3>1, <3>2 DEF WorkerState
    <2> QED
      BY <1>4, <2>1, <2>2 DEF Heartbeat
  <1>5. CASE LeaseExpires
    BY <1>5 DEF LeaseExpires, ExecRecord
  <1>6. CASE BackoffElapses
    BY <1>6 DEF BackoffElapses, ExecRecord
  <1>7. CASE ListStalled
    <2>a. exec.token \in Nat /\ (exec.attempts >= MaxAttempts) \in BOOLEAN
      BY SMT DEF ExecRecord
    <2>1. PICK terminal \in BOOLEAN : terminal = (exec.attempts >= MaxAttempts)
      BY <2>a, Zenon
    <2>2. scan' = scan \cup {[token |-> exec.token, reclaimed |-> FALSE,
                              terminal |-> terminal]}
      BY <1>7, <2>1, Zenon DEF ListStalled, Listed
    <2>b. [token |-> exec.token, reclaimed |-> FALSE, terminal |-> terminal] \in Row
      BY <2>a DEF Row
    <2>3. scan' \subseteq Row
      BY <2>2, <2>b, Zenon
    <2> QED
      BY <1>7, <2>3 DEF ListStalled
  <1>8. ASSUME NEW s \in scan, Recover(s) PROVE TypeOK'
    <2>1. CASE ReclaimTerminal(s)
      <3>1. exec' \in ExecRecord
        BY <2>1, ReleasedType DEF ReclaimTerminal, ExecRecord, ExecStatus
      <3>2. run' \in RunRecord
        BY <2>1 DEF ReclaimTerminal, RunRecord, RunStatus
      <3> QED
        BY <2>1, <3>1, <3>2 DEF ReclaimTerminal
    <2>2. CASE ReclaimForRetry(s)
      <3>1. exec' \in ExecRecord
        BY <2>2, ReleasedType DEF ReclaimForRetry, ExecStatus
      <3>2. scan' \subseteq Row
        <4>1. s \in Row /\ [s EXCEPT !.reclaimed = TRUE] \in Row
          BY DEF Row
        <4>2. \/ scan' = (scan \ {s}) \cup {[s EXCEPT !.reclaimed = TRUE]}
              \/ scan' = scan \ {s}
          BY <2>2, Zenon DEF ReclaimForRetry
        <4> QED
          BY <4>1, <4>2, Zenon
      <3> QED
        BY <2>2, <3>1, <3>2 DEF ReclaimForRetry
    <2>3. CASE Redispatch(s)
      BY <2>3, ConstantsAssumption DEF Redispatch
    <2> QED
      BY <1>8, <2>1, <2>2, <2>3 DEF Recover
  <1>9. ASSUME NEW s \in scan, ReclaimerStops(s) PROVE TypeOK'
    BY <1>9 DEF ReclaimerStops
  <1> QED
    BY <1>0, <1>1, <1>2, <1>3, <1>4, <1>5, <1>6, <1>7, <1>8, <1>9 DEF Next

(* The records of the store, of the workers and of the reclaimer keep      *)
(* their types in every reachable state.                                   *)
THEOREM TypeCorrect == Spec => []TypeOK
  <1>1. Init => TypeOK
    BY TypeInit
  <1>2. TypeOK /\ [Next]_vars => TypeOK'
    BY TypeNext
  <1> QED
    BY <1>1, <1>2, PTL DEF Spec

-----------------------------------------------------------------------------
(* LeaseInvariant holds again after a step that grants no lease, lists no  *)
(* row, revives no lease, and leaves the copies of the calls alone.        *)
LEMMA LeaseFrame ==
  ASSUME TypeOK, TypeOK', LeaseInvariant, RecordLease', claims' = claims,
         \A s \in scan' : \E r \in scan : r.token = s.token /\ r.terminal = s.terminal,
         exec'.version >= exec.version,
         exec'.lease = "live" => exec.lease = "live",
         \A w \in Workers : Active(w)' => /\ Active(w)
                                          /\ wk'[w].rec = wk[w].rec
                                          /\ wk'[w].version = wk[w].version
  PROVE  LeaseInvariant'
  <1>1. ASSUME NEW w \in Workers, Active(w)' PROVE CallLease(w)'
    <2>1. CallLease(w) /\ wk'[w].rec = wk[w].rec /\ wk'[w].version = wk[w].version
      BY <1>1 DEF LeaseInvariant
    <2>2. wk[w].version \in Nat /\ exec.version \in Nat /\ exec'.version \in Nat
      BY DEF TypeOK, WorkerState, ExecRecord
    <2> QED
      BY <2>1, <2>2 DEF CallLease
  <1>2. ASSUME NEW s \in scan' PROVE RowLease(s)'
    <2>1. PICK r \in scan : r.token = s.token /\ r.terminal = s.terminal
      OBVIOUS
    <2>2. RowLease(r)
      BY DEF LeaseInvariant
    <2>3. r.token \in Nat /\ claims \in Nat /\ exec.token \in Nat /\ exec'.token \in Nat
      BY DEF TypeOK, Row, ExecRecord
    <2> QED
      BY <2>1, <2>2, <2>3 DEF RowLease, LeaseInvariant, RecordLease, NoToken
  <1> QED
    BY <1>1, <1>2 DEF LeaseInvariant

(* A call that passes the version fence holds the newest lease.            *)
LEMMA FenceIsNewest ==
  ASSUME TypeOK, LeaseInvariant, NEW w \in Workers, Active(w),
         wk[w].version = exec.version
  PROVE  /\ wk[w].rec.token = claims
         /\ wk[w].rec.attempts = claims
         /\ claims > 0
  BY DEF TypeOK, LeaseInvariant, Active, CallLease, WorkerState, ExecRecord

(* What such a call writes back.                                           *)
LEMMA WrittenBackLease ==
  ASSUME TypeOK, LeaseInvariant, NEW w \in Workers, Active(w),
         wk[w].version = exec.version, NEW status \in ExecStatus,
         exec' = WrittenBack(wk[w].rec, status)
  PROVE  /\ exec'.status = status
         /\ exec'.token = claims
         /\ exec'.attempts = claims
         /\ exec'.version = exec.version + 1
         /\ exec'.lease = "live" => exec.lease = "live"
  <1>1. wk[w].rec \in ExecRecord
    BY DEF TypeOK, WorkerState
  <1>2. /\ exec'.status = status
        /\ exec'.token = wk[w].rec.token
        /\ exec'.attempts = wk[w].rec.attempts
        /\ exec'.version = exec.version + 1
        /\ exec'.lease = IF exec.lease = "live" THEN "live" ELSE "expired"
    BY <1>1, Zenon DEF WrittenBack, ExecRecord
  <1> QED
    BY <1>2, FenceIsNewest

LEMMA LeaseInit == Init => LeaseInvariant
  BY ConstantsAssumption
  DEF Init, LeaseInvariant, RecordLease, Created, NoToken, Active, Idle

(* The steps of a call that write back its copy of the record, or nothing. *)
LEMMA LeaseWriteBack ==
  ASSUME TypeOK, TypeOK', LeaseInvariant, NEW w \in Workers, Active(w),
         NEW status \in {"awaiting_approval", "completed", "failed"},
         NEW step \in Steps, Goto(w, step), UNCHANGED <<claims, scan>>,
         \/ UNCHANGED exec
         \/ wk[w].version = exec.version /\ exec' = WrittenBack(wk[w].rec, status)
  PROVE  LeaseInvariant'
  <1>1. RecordLease' /\ exec'.version >= exec.version
                     /\ (exec'.lease = "live" => exec.lease = "live")
    <2>1. CASE UNCHANGED exec
      BY <2>1 DEF LeaseInvariant, RecordLease, TypeOK, ExecRecord
    <2>2. CASE wk[w].version = exec.version /\ exec' = WrittenBack(wk[w].rec, status)
      <3>1. /\ exec'.status = status
            /\ exec'.token = claims
            /\ exec'.attempts = claims
            /\ exec'.version = exec.version + 1
            /\ exec'.lease = "live" => exec.lease = "live"
        BY <2>2, WrittenBackLease DEF ExecStatus
      <3>2. claims > 0
        BY <2>2, FenceIsNewest
      <3> QED
        BY <3>1, <3>2 DEF LeaseInvariant, RecordLease, NoToken, TypeOK, ExecRecord
    <2> QED
      BY <2>1, <2>2
  <1>2. \A x \in Workers : Active(x)' => /\ Active(x)
                                         /\ wk'[x].rec = wk[x].rec
                                         /\ wk'[x].version = wk[x].version
    BY DEF Goto, Active, TypeOK
  <1> QED
    BY <1>1, <1>2, LeaseFrame

(* The steps that change neither the record nor the rows, nor the copies   *)
(* of a call that goes on.                                                 *)
LEMMA LeaseUnmoved ==
  ASSUME TypeOK, TypeOK', LeaseInvariant, UNCHANGED <<exec, claims>>, scan' \subseteq scan,
         \A w \in Workers : Active(w)' => /\ Active(w)
                                          /\ wk'[w].rec = wk[w].rec
                                          /\ wk'[w].version = wk[w].version
  PROVE  LeaseInvariant'
  <1>1. RecordLease' /\ exec'.version >= exec.version
    BY DEF LeaseInvariant, RecordLease, TypeOK, ExecRecord
  <1> QED
    BY <1>1, LeaseFrame

(* ... in particular a call that returns.                                  *)
LEMMA LeaseReturn ==
  ASSUME TypeOK, TypeOK', LeaseInvariant, UNCHANGED <<exec, claims>>, scan' \subseteq scan,
         NEW w \in Workers, wk' = [wk EXCEPT ![w] = Idle]
  PROVE  LeaseInvariant'
  <1>1. \A x \in Workers : Active(x)' => Active(x) /\ wk'[x] = wk[x]
    BY DEF Active, Idle, TypeOK
  <1> QED
    BY <1>1, LeaseUnmoved

(* A beat moves the version of the record and of its own call only.        *)
LEMMA LeaseBeat ==
  ASSUME TypeOK, TypeOK', LeaseInvariant, UNCHANGED <<claims, scan>>,
         NEW w \in Workers, Beats(wk[w].rec.token),
         exec' = [exec EXCEPT !.version = @ + 1],
         \A x \in Workers : wk'[x].pc = wk[x].pc /\ wk'[x].rec = wk[x].rec,
         \A x \in Workers \ {w} : wk'[x].version = wk[x].version,
         wk'[w].version \in {wk[w].version, exec'.version}
  PROVE  LeaseInvariant'
  <1>1. /\ exec'.version = exec.version + 1
        /\ exec'.status = exec.status /\ exec'.token = exec.token
        /\ exec'.attempts = exec.attempts /\ exec'.lease = exec.lease
    BY DEF TypeOK, ExecRecord
  <1>2. wk[w].rec.token = claims
    BY DEF Beats, LeaseInvariant, RecordLease
  <1>3. RecordLease'
    BY <1>1 DEF LeaseInvariant, RecordLease
  <1>4. ASSUME NEW x \in Workers, Active(x)' PROVE CallLease(x)'
    <2>1. CallLease(x)
      BY <1>4 DEF Active, LeaseInvariant
    <2>2. wk[x].version \in Nat /\ exec.version \in Nat /\ claims \in Nat
      BY DEF TypeOK, WorkerState, ExecRecord
    <2> QED
      BY <1>1, <1>2, <2>1, <2>2 DEF CallLease
  <1>5. \A s \in scan' : RowLease(s)'
    BY <1>1 DEF LeaseInvariant, RowLease
  <1> QED
    BY <1>3, <1>4, <1>5 DEF LeaseInvariant

LEMMA LeaseNext == TypeOK /\ TypeOK' /\ LeaseInvariant /\ [Next]_vars => LeaseInvariant'
  <1> SUFFICES ASSUME TypeOK, TypeOK', LeaseInvariant, [Next]_vars PROVE LeaseInvariant'
    OBVIOUS
  <1>0. CASE UNCHANGED vars
    BY <1>0, LeaseUnmoved DEF vars, Active
  <1>1. ASSUME NEW w \in Workers, Deliver(w) PROVE LeaseInvariant'
    <2>1. ASSUME NEW g \in 1..MaxGeneration, ClaimAction(w, g) PROVE LeaseInvariant'
      <3>1. /\ claims' = claims + 1
            /\ exec'.status = "running"
            /\ exec'.token = claims'
            /\ exec'.attempts = claims'
            /\ exec'.version = exec.version + 1
        BY <2>1 DEF ClaimAction, Granted, LeaseInvariant, RecordLease, TypeOK, ExecRecord
      <3>2. claims < MaxAttempts
        BY <2>1, ConstantsAssumption
        DEF ClaimAction, Claimable, LeaseInvariant, RecordLease, TypeOK
      <3>3. RecordLease'
        BY <3>1, <3>2, ConstantsAssumption DEF RecordLease, NoToken, TypeOK
      <3>4. ASSUME NEW x \in Workers, Active(x)' PROVE CallLease(x)'
        <4>1. CASE x = w
          <5>1. wk'[x].rec = exec' /\ wk'[x].version = exec'.version
            BY <2>1, <4>1 DEF ClaimAction, TypeOK
          <5> QED
            BY <3>1, <5>1 DEF CallLease, TypeOK, ExecRecord
        <4>2. CASE x # w
          <5>1. wk'[x] = wk[x]
            BY <2>1, <4>2 DEF ClaimAction, TypeOK
          <5>2. CallLease(x)
            BY <3>4, <5>1 DEF LeaseInvariant, Active
          <5>3. wk[x].version \in Nat /\ exec.version \in Nat /\ wk[x].rec.token \in Nat
            BY DEF TypeOK, WorkerState, ExecRecord
          <5> QED
            BY <3>1, <5>1, <5>2, <5>3 DEF CallLease, TypeOK
        <4> QED
          BY <4>1, <4>2
      <3>5. ASSUME NEW s \in scan' PROVE RowLease(s)'
        <4>1. s \in scan /\ RowLease(s)
          BY <2>1 DEF ClaimAction, LeaseInvariant
        <4> QED
          BY <3>1, <4>1 DEF RowLease, TypeOK
      <3> QED
        BY <3>3, <3>4, <3>5 DEF LeaseInvariant
    <2>2. ASSUME NEW g \in 1..MaxGeneration, ClaimRefused(w, g) PROVE LeaseInvariant'
      <3>1. RecordLease' /\ exec'.version >= exec.version /\ exec'.lease = exec.lease
        BY <2>2 DEF ClaimRefused, LeaseInvariant, RecordLease, TypeOK, ExecRecord
      <3> QED
        BY <2>2, <3>1, LeaseFrame DEF ClaimRefused, Active
    <2> QED
      BY <1>1, <2>1, <2>2 DEF Deliver
  <1>2. ASSUME NEW w \in Workers, Proceed(w) PROVE LeaseInvariant'
    <2>1. CASE SaveExec(w)
      <3>1. PICK step \in {"emit", "compensate"} : Goto(w, step)
        BY <2>1 DEF SaveExec
      <3>2. \/ UNCHANGED exec
            \/ wk[w].version = exec.version /\ exec' = WrittenBack(wk[w].rec, Outcome)
        BY <2>1 DEF SaveExec, Fenced
      <3>3. Active(w) /\ step \in Steps
        BY <2>1, <3>1 DEF SaveExec, Active, Steps, Saving, Failing
      <3> QED
        BY <2>1, <3>1, <3>2, <3>3, OutcomeStatus, LeaseWriteBack DEF SaveExec
    <2>2. CASE FailExec(w)
      <3>1. \/ UNCHANGED exec
            \/ wk[w].version = exec.version /\ exec' = WrittenBack(wk[w].rec, "failed")
        BY <2>2 DEF FailExec
      <3>2. Active(w) /\ Goto(w, "fail_run") /\ "fail_run" \in Steps
        BY <2>2 DEF FailExec, Active, Steps, Failing
      <3> QED
        BY <2>2, <3>1, <3>2, LeaseWriteBack DEF FailExec
    <2>3. CASE EmitEvent(w) \/ FailRun(w)
      BY <2>3, LeaseReturn DEF EmitEvent, FailRun
    <2>4. CASE GetRun(w) \/ UploadBlob(w) \/ VerifyLease(w) \/ VerifyFails(w)
      <3>1. \A x \in Workers : Active(x)' => /\ Active(x)
                                             /\ wk'[x].rec = wk[x].rec
                                             /\ wk'[x].version = wk[x].version
        BY <2>4 DEF GetRun, UploadBlob, VerifyLease, VerifyFails, Goto, Active, TypeOK, WorkerState
      <3> QED
        BY <2>4, <3>1, LeaseUnmoved DEF GetRun, UploadBlob, VerifyLease, VerifyFails
    <2>5. CASE SaveFile(w) \/ SaveArtifact(w) \/ CasRun(w) \/ Compensate(w)
      <3>1. CASE SaveFile(w)
        <4>1. \A x \in Workers : Active(x)' => /\ Active(x)
                                               /\ wk'[x].rec = wk[x].rec
                                               /\ wk'[x].version = wk[x].version
          BY <3>1 DEF SaveFile, Goto, Active, TypeOK, WorkerState
        <4> QED
          BY <3>1, <4>1, LeaseUnmoved DEF SaveFile
      <3>2. CASE SaveArtifact(w)
        <4>1. \A x \in Workers : Active(x)' => /\ Active(x)
                                               /\ wk'[x].rec = wk[x].rec
                                               /\ wk'[x].version = wk[x].version
          BY <3>2 DEF SaveArtifact, Goto, Active, TypeOK, WorkerState
        <4> QED
          BY <3>2, <4>1, LeaseUnmoved DEF SaveArtifact
      <3>3. CASE CasRun(w)
        <4>1. \A x \in Workers : Active(x)' => /\ Active(x)
                                               /\ wk'[x].rec = wk[x].rec
                                               /\ wk'[x].version = wk[x].version
          BY <3>3 DEF CasRun, Goto, Active, TypeOK, WorkerState
        <4> QED
          BY <3>3, <4>1, LeaseUnmoved DEF CasRun
      <3>4. CASE Compensate(w)
        <4>1. \A x \in Workers : Active(x)' => /\ Active(x)
                                               /\ wk'[x].rec = wk[x].rec
                                               /\ wk'[x].version = wk[x].version
          BY <3>4 DEF Compensate, Goto, Active, TypeOK, WorkerState
        <4> QED
          BY <3>4, <4>1, LeaseUnmoved DEF Compensate
      <3> QED
        BY <2>5, <3>1, <3>2, <3>3, <3>4
    <2> QED
      BY <1>2, <2>1, <2>2, <2>3, <2>4, <2>5 DEF Proceed
  <1>3. ASSUME NEW w \in Workers, Disturb(w) PROVE LeaseInvariant'
    <2>1. CASE GetRunRaises(w) \/ GenerateFails(w) \/ StoreRaises(w) \/ FailExecRaises(w)
      <3>1. CASE GetRunRaises(w)
        <4>1. \A x \in Workers : Active(x)' => /\ Active(x)
                                               /\ wk'[x].rec = wk[x].rec
                                               /\ wk'[x].version = wk[x].version
          BY <3>1 DEF GetRunRaises, Goto, Active, TypeOK, WorkerState
        <4> QED
          BY <3>1, <4>1, LeaseUnmoved DEF GetRunRaises
      <3>2. CASE GenerateFails(w)
        <4>1. \A x \in Workers : Active(x)' => /\ Active(x)
                                               /\ wk'[x].rec = wk[x].rec
                                               /\ wk'[x].version = wk[x].version
          BY <3>2 DEF GenerateFails, Goto, Active, TypeOK, WorkerState
        <4> QED
          BY <3>2, <4>1, LeaseUnmoved DEF GenerateFails
      <3>3. CASE StoreRaises(w)
        <4>1. \A x \in Workers : Active(x)' => /\ Active(x)
                                               /\ wk'[x].rec = wk[x].rec
                                               /\ wk'[x].version = wk[x].version
          BY <3>3 DEF StoreRaises, Saving, Goto, Active, TypeOK, WorkerState
        <4> QED
          BY <3>3, <4>1, LeaseUnmoved DEF StoreRaises
      <3>4. CASE FailExecRaises(w)
        <4>1. \A x \in Workers : Active(x)' => /\ Active(x)
                                               /\ wk'[x].rec = wk[x].rec
                                               /\ wk'[x].version = wk[x].version
          BY <3>4 DEF FailExecRaises, Goto, Active, TypeOK, WorkerState
        <4> QED
          BY <3>4, <4>1, LeaseUnmoved DEF FailExecRaises
      <3> QED
        BY <2>1, <3>1, <3>2, <3>3, <3>4
    <2>2. CASE HeartbeatLost(w)
      <3>1. \A x \in Workers : Active(x)' => /\ Active(x)
                                             /\ wk'[x].rec = wk[x].rec
                                             /\ wk'[x].version = wk[x].version
        BY <2>2 DEF HeartbeatLost, Active, TypeOK, WorkerState
      <3> QED
        BY <2>2, <3>1, LeaseUnmoved DEF HeartbeatLost
    <2>3. CASE Crash(w)
      BY <2>3, LeaseReturn DEF Crash
    <2>4. CASE HeartbeatLate(w)
      <3>1. PICK v \in {wk[w].version, exec'.version} :
               wk' = [wk EXCEPT ![w].hb = "off",
                                ![w].version = IF exec' = exec THEN @ ELSE v]
        BY <2>4 DEF HeartbeatLate
      <3>2. /\ \A x \in Workers : wk'[x].pc = wk[x].pc /\ wk'[x].rec = wk[x].rec
            /\ \A x \in Workers \ {w} : wk'[x].version = wk[x].version
            /\ wk'[w].version = IF exec' = exec THEN wk[w].version ELSE v
        BY <3>1 DEF TypeOK, WorkerState
      <3>3. CASE Beats(wk[w].rec.token)
        BY <2>4, <3>2, <3>3, LeaseBeat DEF HeartbeatLate
      <3>4. CASE ~Beats(wk[w].rec.token)
        BY <2>4, <3>2, <3>4, LeaseUnmoved DEF HeartbeatLate, Active
      <3> QED
        BY <3>3, <3>4
    <2> QED
      BY <1>3, <2>1, <2>2, <2>3, <2>4 DEF Disturb
  <1>4. ASSUME NEW w \in Workers, Heartbeat(w) PROVE LeaseInvariant'
    <2>1. /\ \A x \in Workers : wk'[x].pc = wk[x].pc /\ wk'[x].rec = wk[x].rec
          /\ \A x \in Workers \ {w} : wk'[x].version = wk[x].version
          /\ wk'[w].version = exec'.version
      BY <1>4 DEF Heartbeat, TypeOK, WorkerState
    <2> QED
      BY <1>4, <2>1, LeaseBeat DEF Heartbeat
  <1>5. CASE LeaseExpires
    <2>1. RecordLease' /\ exec'.version = exec.version /\ exec'.lease = "expired"
      BY <1>5 DEF LeaseExpires, LeaseInvariant, RecordLease, TypeOK, ExecRecord
    <2> QED
      BY <1>5, <2>1, LeaseFrame DEF LeaseExpires, Active, TypeOK, ExecRecord
  <1>6. CASE BackoffElapses
    <2>1. RecordLease' /\ exec'.version = exec.version /\ exec'.lease = exec.lease
      BY <1>6 DEF BackoffElapses, LeaseInvariant, RecordLease, TypeOK, ExecRecord
    <2> QED
      BY <1>6, <2>1, LeaseFrame DEF BackoffElapses, Active, TypeOK, ExecRecord
  <1>7. CASE ListStalled
    <2>1. ASSUME NEW s \in scan', s \notin scan PROVE RowLease(s)
      <3>1. s = [token |-> exec.token, reclaimed |-> FALSE,
                 terminal |-> exec.attempts >= MaxAttempts]
        BY <1>7, <2>1, Zenon DEF ListStalled, Listed
      <3>3. s.token = exec.token /\ (~s.terminal => ~(exec.attempts >= MaxAttempts))
        BY <3>1, Zenon
      <3>2. exec.status = "running" /\ exec.lease = "expired" /\ exec.attempts = claims
                                    /\ exec.token = claims /\ claims > 0
        BY <1>7 DEF ListStalled, Listable, LeaseInvariant, RecordLease
      <3> QED
        BY <3>2, <3>3, ConstantsAssumption DEF RowLease, TypeOK
    <2>2. UNCHANGED <<exec, wk, claims>>
      BY <1>7 DEF ListStalled
    <2> QED
      BY <2>1, <2>2 DEF LeaseInvariant, RecordLease, RowLease, CallLease, Active
  <1>8. ASSUME NEW s \in scan, Recover(s) PROVE LeaseInvariant'
    <2>0. RowLease(s) /\ s.token \in Nat /\ s.token # NoToken
      BY DEF LeaseInvariant, RowLease, TypeOK, Row, NoToken
    <2>1. CASE ReclaimTerminal(s)
      <3>1. RecordLease' /\ exec'.version = exec.version
                         /\ (exec'.lease = "live" => exec.lease = "live")
        <4>1. CASE exec' = Released("failed", exec.retryWait)
          <5>1. /\ exec'.status = "failed" /\ exec'.token = NoToken
                /\ exec'.lease = "none" /\ exec'.version = exec.version
                /\ exec'.attempts = exec.attempts
            BY <4>1, Zenon DEF Released, TypeOK, ExecRecord
          <5> QED
            BY <2>1, <5>1 DEF ReclaimTerminal, LeaseInvariant, RecordLease
        <4>2. CASE UNCHANGED exec
          BY <2>1, <4>2 DEF ReclaimTerminal, LeaseInvariant, RecordLease
        <4> QED
          BY <2>1, <4>1, <4>2 DEF ReclaimTerminal
      <3> QED
        BY <2>1, <3>1, LeaseFrame DEF ReclaimTerminal, Active, TypeOK, ExecRecord
    <2>2. CASE ReclaimForRetry(s)
      <3>1. RecordLease' /\ exec'.version = exec.version
                         /\ (exec'.lease = "live" => exec.lease = "live")
        <4>1. CASE exec.token = s.token /\ ~s.terminal /\ exec' = Released("pending", TRUE)
          <5>1. /\ exec'.status = "pending" /\ exec'.token = NoToken
                /\ exec'.lease = "none" /\ exec'.version = exec.version
                /\ exec'.attempts = exec.attempts
            BY <4>1 DEF Released, TypeOK, ExecRecord
          <5>2. s.token = claims /\ s.token < MaxAttempts /\ UNCHANGED claims
            BY <2>0, <2>2, <4>1
            DEF ReclaimForRetry, RowLease, LeaseInvariant, RecordLease
          <5> QED
            BY <5>1, <5>2 DEF LeaseInvariant, RecordLease
        <4>2. CASE UNCHANGED exec
          BY <2>2, <4>2 DEF ReclaimForRetry, LeaseInvariant, RecordLease
        <4> QED
          BY <2>2, <4>1, <4>2 DEF ReclaimForRetry, MayRelease
      <3>2. \A x \in scan' : \E r \in scan : r.token = x.token /\ r.terminal = x.terminal
        <4>1. s \in Row
          BY DEF TypeOK
        <4>2. [s EXCEPT !.reclaimed = TRUE].token = s.token
              /\ [s EXCEPT !.reclaimed = TRUE].terminal = s.terminal
          BY <4>1 DEF Row
        <4>3. \/ scan' = (scan \ {s}) \cup {[s EXCEPT !.reclaimed = TRUE]}
              \/ scan' = scan \ {s}
          BY <2>2, Zenon DEF ReclaimForRetry
        <4> QED
          BY <4>2, <4>3, Zenon
      <3> QED
        BY <2>2, <3>1, <3>2, LeaseFrame DEF ReclaimForRetry, Active, TypeOK, ExecRecord
    <2>3. CASE Redispatch(s)
      BY <2>3, LeaseUnmoved DEF Redispatch, Active
    <2> QED
      BY <1>8, <2>1, <2>2, <2>3 DEF Recover
  <1>9. ASSUME NEW s \in scan, ReclaimerStops(s) PROVE LeaseInvariant'
    BY <1>9, LeaseUnmoved DEF ReclaimerStops, Active
  <1> QED
    BY <1>0, <1>1, <1>2, <1>3, <1>4, <1>5, <1>6, <1>7, <1>8, <1>9 DEF Next

(* Attempts, token, version and listed rows stay in step for every number  *)
(* of workers, attempts and rows, on either backend.                       *)
THEOREM LeaseCorrect == Spec => []LeaseInvariant
  <1>1. Init => TypeOK /\ LeaseInvariant
    BY TypeInit, LeaseInit
  <1>2. TypeOK /\ LeaseInvariant /\ [Next]_vars => (TypeOK /\ LeaseInvariant)'
    BY TypeNext, LeaseNext
  <1> QED
    BY <1>1, <1>2, PTL DEF Spec

(* The deliverable is generated under at most max_attempts leases, however *)
(* many tasks, reclaims and zombie FAILED writes there are.                *)
THEOREM AttemptsAreBounded == Spec => []LeasesBounded
  <1>1. LeaseInvariant => LeasesBounded
    BY DEF LeaseInvariant, RecordLease, LeasesBounded
  <1> QED
    BY <1>1, LeaseCorrect, PTL

(* A call superseded by a newer lease never passes the version fence again, *)
(* which is the only guard of its FAILED write.                            *)
THEOREM StaleWritesAreFenced == Spec => []StaleWorkerFenced
  <1>1. TypeOK /\ LeaseInvariant => StaleWorkerFenced
    <2> SUFFICES ASSUME TypeOK, LeaseInvariant, NEW w \in Workers,
                        wk[w].pc # "idle", exec.status = "running",
                        wk[w].rec.token # exec.token
                 PROVE  wk[w].version < exec.version
      BY DEF StaleWorkerFenced
    <2>1. CallLease(w) /\ exec.token = claims /\ claims \in Nat
      BY DEF LeaseInvariant, RecordLease, Active, TypeOK
    <2> QED
      BY <2>1 DEF CallLease
  <1> QED
    BY <1>1, TypeCorrect, LeaseCorrect, PTL

(* What any step may do to the record's lease, version and status.         *)
LEMMA RecordSteps ==
  ASSUME TypeOK, TypeOK', LeaseInvariant, [Next]_vars
  PROVE  \/ UNCHANGED exec
         \/ /\ ~(exec.status = "running" /\ exec.lease = "live")
            /\ exec'.version = exec.version + 1
            /\ exec'.status = "running"
         \/ /\ exec'.token = claims
            /\ exec'.version = exec.version + 1
            /\ exec'.status = Outcome => exec.token = claims
         \/ /\ exec'.token = exec.token
            /\ exec'.version \in {exec.version, exec.version + 1}
            /\ exec'.status \in {exec.status, "failed"}
         \/ /\ exec.lease # "live"
            /\ exec'.version = exec.version
            /\ exec'.status \in {"pending", "failed"}
  <1>0. CASE UNCHANGED vars
    BY <1>0 DEF vars
  <1>1. ASSUME NEW w \in Workers, NEW g \in 1..MaxGeneration, ClaimAction(w, g)
        PROVE  /\ ~(exec.status = "running" /\ exec.lease = "live")
               /\ exec'.version = exec.version + 1
               /\ exec'.status = "running"
    BY <1>1 DEF ClaimAction, Granted, Claimable, TypeOK, ExecRecord
  <1>2. ASSUME NEW w \in Workers, NEW g \in 1..MaxGeneration, ClaimRefused(w, g)
        PROVE  /\ exec'.token = exec.token
               /\ exec'.version = exec.version
               /\ exec'.status \in {exec.status, "failed"}
    BY <1>2 DEF ClaimRefused, TypeOK, ExecRecord
  <1>3. ASSUME NEW w \in Workers, SaveExec(w)
        PROVE  \/ UNCHANGED exec
               \/ /\ exec'.token = claims /\ exec.token = claims
                  /\ exec'.version = exec.version + 1
    <2>1. CASE exec.version = wk[w].version /\ exec.token = wk[w].rec.token
      <3>1. Active(w) /\ exec' = WrittenBack(wk[w].rec, Outcome)
        BY <1>3, <2>1 DEF SaveExec, Fenced, Active
      <3> QED
        BY <2>1, <3>1, FenceIsNewest, WrittenBackLease, OutcomeStatus DEF ExecStatus
    <2> QED
      BY <1>3, <2>1 DEF SaveExec, Fenced
  <1>4. ASSUME NEW w \in Workers, FailExec(w)
        PROVE  \/ UNCHANGED exec
               \/ /\ exec'.token = claims
                  /\ exec'.version = exec.version + 1
                  /\ exec'.status = Outcome => exec.token = claims
    <2>1. CASE exec.version = wk[w].version
      <3>1. Active(w) /\ exec' = WrittenBack(wk[w].rec, "failed")
        BY <1>4, <2>1 DEF FailExec, Active
      <3> QED
        BY <2>1, <3>1, WrittenBackLease, OutcomeStatus DEF ExecStatus
    <2> QED
      BY <1>4, <2>1 DEF FailExec
  <1>5. ASSUME NEW w \in Workers, Heartbeat(w) \/ HeartbeatLate(w)
        PROVE  \/ UNCHANGED exec
               \/ /\ exec'.token = exec.token
                  /\ exec'.version = exec.version + 1
                  /\ exec'.status = exec.status
    BY <1>5 DEF Heartbeat, HeartbeatLate, TypeOK, ExecRecord
  <1>6. ASSUME LeaseExpires \/ BackoffElapses
        PROVE  /\ exec'.token = exec.token
               /\ exec'.version = exec.version
               /\ exec'.status = exec.status
    BY <1>6 DEF LeaseExpires, BackoffElapses, TypeOK, ExecRecord
  <1>7. ASSUME NEW s \in scan, ReclaimTerminal(s) \/ ReclaimForRetry(s)
        PROVE  \/ UNCHANGED exec
               \/ /\ exec.lease # "live"
                  /\ exec'.version = exec.version
                  /\ exec'.status \in {"pending", "failed"}
    <2>1. RowLease(s)
      BY DEF LeaseInvariant
    <2>2. \/ UNCHANGED exec
          \/ exec.lease # "live" /\ exec' = Released("failed", exec.retryWait)
          \/ exec.lease # "live" /\ exec' = Released("pending", TRUE)
      BY <1>7, <2>1 DEF ReclaimTerminal, ReclaimForRetry, MayRelease, RowLease
    <2>3. ASSUME NEW status, NEW wait, exec' = Released(status, wait)
          PROVE  exec'.version = exec.version /\ exec'.status = status
      BY <2>3, Zenon DEF Released, TypeOK, ExecRecord
    <2> QED
      BY <2>2, <2>3
  <1>8. ASSUME NEW w \in Workers, Proceed(w), ~SaveExec(w), ~FailExec(w)
        PROVE  UNCHANGED exec
    BY <1>8 DEF Proceed, GetRun, UploadBlob, VerifyLease, VerifyFails, SaveFile,
                SaveArtifact, CasRun, EmitEvent, Compensate, FailRun
  <1>9. ASSUME NEW w \in Workers, Disturb(w), ~HeartbeatLate(w)
        PROVE  UNCHANGED exec
    BY <1>9 DEF Disturb, GetRunRaises, GenerateFails, StoreRaises, FailExecRaises,
                HeartbeatLost, Crash
  <1>10. ASSUME ListStalled \/ \E s \in scan : Redispatch(s) \/ ReclaimerStops(s)
         PROVE  UNCHANGED exec
    BY <1>10 DEF ListStalled, Redispatch, ReclaimerStops
  <1> QED
    BY <1>0, <1>1, <1>2, <1>3, <1>4, <1>5, <1>6, <1>7, <1>8, <1>9, <1>10
    DEF Next, Deliver, Recover

(* Nobody takes a live lease away from its holder.                         *)
THEOREM LiveLeasesAreExclusive == Spec => LiveLeaseIsExclusive
  <1>1. TypeOK /\ TypeOK' /\ LeaseInvariant /\ [Next]_vars
           => (exec.status = "running" /\ exec.lease = "live" => exec'.token = exec.token)
    BY RecordSteps DEF LeaseInvariant, RecordLease
  <1> QED
    BY <1>1, TypeCorrect, LeaseCorrect, PTL DEF Spec, LiveLeaseIsExclusive

(* Copies written back by late calls never take the record back in version *)
(* or in spent attempts.                                                   *)
THEOREM RecordsNeverRollBack == Spec => RecordNeverRollsBack
  <1>1. TypeOK /\ TypeOK' /\ LeaseInvariant /\ LeaseInvariant' /\ [Next]_vars
           => exec'.version >= exec.version /\ exec'.attempts >= exec.attempts
    <2> SUFFICES ASSUME TypeOK, TypeOK', LeaseInvariant, LeaseInvariant', [Next]_vars
                 PROVE  exec'.version >= exec.version /\ exec'.attempts >= exec.attempts
      OBVIOUS
    <2>1. exec.version \in Nat /\ exec'.version \in Nat /\ claims \in Nat /\ claims' \in Nat
      BY DEF TypeOK, ExecRecord
    <2>2. exec'.version >= exec.version
      BY <2>1, RecordSteps
    <2>3. claims' \in {claims, claims + 1}
      BY DEF Next, vars, Deliver, ClaimAction, ClaimRefused, Proceed, GetRun, UploadBlob,
             VerifyLease, VerifyFails, SaveFile, SaveArtifact, CasRun, SaveExec, EmitEvent,
             Compensate, FailExec, FailRun, Disturb, GetRunRaises, GenerateFails,
             StoreRaises, FailExecRaises, HeartbeatLost, HeartbeatLate, Crash, Heartbeat,
             LeaseExpires, BackoffElapses, ListStalled, Recover, ReclaimTerminal,
             ReclaimForRetry, Redispatch, ReclaimerStops
    <2> QED
      BY <2>1, <2>2, <2>3 DEF LeaseInvariant, RecordLease
  <1> QED
    BY <1>1, TypeCorrect, LeaseCorrect, PTL DEF Spec, RecordNeverRollsBack

(* Only the holder of the newest lease commits the outcome.                *)
THEOREM LatestLeasesCommit == Spec => LatestLeaseCommits
  <1>1. TypeOK /\ TypeOK' /\ LeaseInvariant /\ [Next]_vars
           => (exec'.status = Outcome /\ exec.status # Outcome
                  => exec'.token = claims /\ exec.token = claims)
    BY RecordSteps, OutcomeStatus
  <1> QED
    BY <1>1, TypeCorrect, LeaseCorrect, PTL DEF Spec, LatestLeaseCommits

-----------------------------------------------------------------------------
(* What a call has made of the Run and of the artifact by its next step.   *)
(* Under Firestore none of it is undone here: a published artifact is      *)
(* written again as it is, and no step takes the Run out of its outcome.   *)
Produced(w) ==
    /\ wk[w].pc \in (Working \ {"get_run"}) \cup Saving => run.status # "none"
    /\ wk[w].pc \in Saving \ {"save_file"} => art.pub = Published
    /\ wk[w].pc \in {"cas_run", "save_exec", "emit"} => art.vis = Published
    /\ wk[w].pc \in {"save_exec", "emit"} => run.status = Outcome

Delivered == run.status = Outcome /\ art.vis = Published /\ art.pub = Published

PublicationInvariant ==
    /\ run.status \in {"none", "running", Outcome}
    /\ \A w \in Workers : Produced(w)
    /\ exec.status \in {"completed", "awaiting_approval"} =>
           exec.status = Outcome /\ Delivered

(* What every step leaves of it to the calls that do not take the step.    *)
Produces ==
    /\ run'.status \in {"none", "running", Outcome}
    /\ run.status # "none" => run'.status # "none"
    /\ run.status = Outcome => run'.status = Outcome
    /\ art.pub = Published => art'.pub = Published
    /\ art.vis = Published => art'.vis = Published

LEMMA ProducedKept ==
  ASSUME PublicationInvariant, Produces, NEW w \in Workers, wk'[w].pc = wk[w].pc
  PROVE  Produced(w)'
  BY OutcomeStatus
  DEF PublicationInvariant, Produces, Produced, Published, Outcome, Working, Saving

(* A step of one call keeps the invariant if the call keeps its part ...   *)
LEMMA CallPublishes ==
  ASSUME PublicationInvariant, Produces, NEW w \in Workers, Produced(w)',
         \A x \in Workers \ {w} : wk'[x].pc = wk[x].pc,
         exec'.status \in {"completed", "awaiting_approval"} =>
             \/ exec'.status = exec.status
             \/ exec'.status = Outcome /\ Delivered
  PROVE  PublicationInvariant'
  <1>1. \A x \in Workers : Produced(x)'
    BY ProducedKept
  <1>2. Delivered => Delivered'
    BY DEF Produces, Delivered, Published, Outcome
  <1>3. Outcome' = Outcome
    BY DEF Outcome
  <1> QED
    BY <1>1, <1>2, <1>3 DEF PublicationInvariant, Produces

(* ... and so does one that begins no call and commits nothing.            *)
LEMMA OthersPublish ==
  ASSUME PublicationInvariant, UNCHANGED <<run, art>>,
         \A w \in Workers : wk'[w].pc \in {wk[w].pc, "idle", "get_run", "leaked"} \cup Failing,
         exec'.status \in {exec.status, "pending", "running", "failed"}
  PROVE  PublicationInvariant'
  <1>1. Produces
    BY DEF PublicationInvariant, Produces
  <1>2. ASSUME NEW w \in Workers PROVE Produced(w)'
    <2>1. CASE wk'[w].pc = wk[w].pc
      BY <1>1, <2>1, ProducedKept
    <2>2. CASE wk'[w].pc \in {"idle", "get_run", "leaked"} \cup Failing
      BY <2>2 DEF Produced, Working, Saving, Failing
    <2> QED
      BY <2>1, <2>2
  <1>3. Outcome' = Outcome /\ (Delivered => Delivered')
    BY <1>1 DEF Outcome, Produces, Delivered, Published
  <1> QED
    BY <1>1, <1>2, <1>3 DEF PublicationInvariant, Produces

LEMMA PublicationInit == Init => PublicationInvariant
  BY DEF Init, PublicationInvariant, Produced, NoRun, Created, Idle, Working, Saving

LEMMA GotoFrame ==
  ASSUME TypeOK, NEW w \in Workers, NEW step \in Steps, Goto(w, step)
  PROVE  wk'[w].pc = step /\ \A x \in Workers \ {w} : wk'[x].pc = wk[x].pc
  BY DEF TypeOK, WorkerState, Goto

LEMMA PublicationNext ==
  ASSUME Backend = "firestore", TypeOK, TypeOK', LeaseInvariant, PublicationInvariant,
         [Next]_vars
  PROVE  PublicationInvariant'
  <1>0. CASE UNCHANGED vars
    BY <1>0, OthersPublish DEF vars
  <1>1. ASSUME NEW w \in Workers, Proceed(w) PROVE PublicationInvariant'
    <2>0. /\ run \in RunRecord /\ art \in ArtRecord
          /\ run.status \in {"none", "running", Outcome} /\ Produced(w)
      BY DEF TypeOK, PublicationInvariant
    <2>1. CASE GetRun(w)
      <3>1. wk'[w].pc = "generate" /\ \A x \in Workers \ {w} : wk'[x].pc = wk[x].pc
        BY <2>1, GotoFrame DEF GetRun, Steps, Working
      <3>2. run'.status = IF run.status = "none" THEN "running" ELSE run.status
        BY <2>0, <2>1 DEF GetRun, RunRecord
      <3>3. Produces
        BY <2>0, <2>1, <3>2, OutcomeStatus DEF GetRun, Produces
      <3>4. Produced(w)'
        BY <3>1, <3>2 DEF Produced, Working, Saving
      <3> QED
        BY <2>1, <3>1, <3>3, <3>4, CallPublishes DEF GetRun
    <2>2. CASE UploadBlob(w) \/ VerifyLease(w)
      <3>1. PICK step \in {"verify", "save_file"} :
               /\ wk[w].pc \in {"generate", "verify"} /\ wk'[w].pc = step
               /\ \A x \in Workers \ {w} : wk'[x].pc = wk[x].pc
        BY <2>2 DEF UploadBlob, VerifyLease, TypeOK, WorkerState
      <3>2. UNCHANGED <<exec, run>> /\ art'.vis = art.vis /\ art'.pub = art.pub
        BY <2>0, <2>2 DEF UploadBlob, VerifyLease, ArtRecord
      <3>3. Produces
        BY <2>0, <3>2 DEF Produces
      <3>4. Produced(w)'
        BY <2>0, <3>1, <3>2 DEF Produced, Working, Saving
      <3> QED
        BY <3>1, <3>2, <3>3, <3>4, CallPublishes
    <2>3. CASE VerifyFails(w) \/ Compensate(w)
      <3>1. wk'[w].pc \in Failing /\ \A x \in Workers \ {w} : wk'[x].pc = wk[x].pc
        BY <2>3 DEF VerifyFails, Compensate, Goto, Failing, TypeOK, WorkerState
      <3>2. UNCHANGED <<exec, run>> /\ art'.vis = art.vis /\ art'.pub = art.pub
        BY <2>0, <2>3 DEF VerifyFails, Compensate, ArtRecord
      <3>3. Produces
        BY <2>0, <3>2 DEF Produces
      <3>4. Produced(w)'
        BY <3>1 DEF Produced, Working, Saving, Failing
      <3> QED
        BY <3>1, <3>2, <3>3, <3>4, CallPublishes
    <2>4. CASE SaveFile(w)
      <3>1. wk'[w].pc = "save_artifact" /\ \A x \in Workers \ {w} : wk'[x].pc = wk[x].pc
        BY <2>4, GotoFrame DEF SaveFile, Steps, Saving
      <3>2. UNCHANGED <<exec, run>> /\ art'.vis = art.vis /\ art'.pub = Published
        BY <2>0, <2>4 DEF SaveFile, ArtRecord
      <3>3. Produces
        BY <2>0, <3>2 DEF Produces
      <3>4. Produced(w)'
        BY <2>0, <2>4, <3>1, <3>2 DEF Produced, SaveFile, Published, Working, Saving
      <3> QED
        BY <3>1, <3>2, <3>3, <3>4, CallPublishes
    <2>5. CASE SaveArtifact(w)
      <3>1. wk'[w].pc = "cas_run" /\ \A x \in Workers \ {w} : wk'[x].pc = wk[x].pc
        BY <2>5, GotoFrame DEF SaveArtifact, Steps, Saving
      <3>2. UNCHANGED <<exec, run>> /\ art'.pub = art.pub /\ art'.vis = Published
        BY <2>0, <2>5 DEF SaveArtifact, ArtRecord
      <3>3. Produces
        BY <2>0, <3>2 DEF Produces
      <3>4. Produced(w)'
        BY <2>0, <2>5, <3>1, <3>2 DEF Produced, SaveArtifact, Published, Working, Saving
      <3> QED
        BY <3>1, <3>2, <3>3, <3>4, CallPublishes
    <2>6. CASE CasRun(w)
      <3>1. wk'[w].pc = "save_exec" /\ \A x \in Workers \ {w} : wk'[x].pc = wk[x].pc
        BY <2>6, GotoFrame DEF CasRun, Steps, Saving
      <3>2. run.status # "none" /\ art.pub = Published /\ art.vis = Published
        BY <2>0, <2>6 DEF CasRun, Produced, Saving
      <3>3. run'.status = Outcome
        BY <2>0, <2>6, <3>2 DEF CasRun, MayClose, Closed, RunRecord
      <3>4. UNCHANGED <<exec, art>>
        BY <2>6 DEF CasRun
      <3>5. Produces
        BY <3>3, <3>4, OutcomeStatus DEF Produces
      <3>6. Produced(w)'
        BY <3>1, <3>2, <3>3, <3>4, OutcomeStatus
        DEF Produced, Published, Outcome, Working, Saving
      <3> QED
        BY <3>1, <3>4, <3>5, <3>6, CallPublishes
    <2>7. CASE SaveExec(w)
      <3>1. UNCHANGED <<run, art>> /\ Delivered
        BY <2>0, <2>7 DEF SaveExec, Produced, Delivered, Saving
      <3>2. PICK step \in {"emit", "compensate"} : Goto(w, step)
        BY <2>7 DEF SaveExec
      <3>3. wk'[w].pc = step /\ \A x \in Workers \ {w} : wk'[x].pc = wk[x].pc
        BY <3>2, GotoFrame DEF Steps, Saving, Failing
      <3>4. Produces
        BY <2>0, <3>1 DEF Produces
      <3>5. Produced(w)'
        BY <3>1, <3>3, OutcomeStatus
        DEF Produced, Delivered, Published, Outcome, Working, Saving
      <3>6. exec' = exec \/ exec'.status = Outcome
        <4>1. CASE Fenced(w)
          <5>1. Active(w) /\ exec' = WrittenBack(wk[w].rec, Outcome)
            BY <2>7, <4>1 DEF SaveExec, Active
          <5> QED
            BY <4>1, <5>1, WrittenBackLease, OutcomeStatus DEF Fenced, ExecStatus
        <4> QED
          BY <2>7, <4>1 DEF SaveExec
      <3> QED
        BY <3>1, <3>3, <3>4, <3>5, <3>6, CallPublishes
    <2>8. CASE EmitEvent(w) \/ FailRun(w)
      <3>1. UNCHANGED <<exec, run, art>> /\ wk' = [wk EXCEPT ![w] = Idle]
        BY <2>8 DEF EmitEvent, FailRun
      <3>2. Idle.pc = "idle"
        BY DEF Idle
      <3>3. \A x \in Workers : wk'[x].pc \in {wk[x].pc, "idle"}
        BY <3>1, <3>2 DEF TypeOK
      <3> QED
        BY <3>1, <3>3, OthersPublish
    <2>9. CASE FailExec(w)
      <3>1. UNCHANGED <<run, art>>
        BY <2>9 DEF FailExec
      <3>2. \A x \in Workers : wk'[x].pc \in {wk[x].pc} \cup Failing
        BY <2>9, GotoFrame DEF FailExec, Steps, Failing
      <3>3. exec'.status \in {exec.status, "failed"}
        <4>1. CASE exec.version = wk[w].version
          <5>1. Active(w) /\ exec' = WrittenBack(wk[w].rec, "failed")
            BY <2>9, <4>1 DEF FailExec, Active
          <5> QED
            BY <4>1, <5>1, WrittenBackLease DEF ExecStatus
        <4> QED
          BY <2>9, <4>1 DEF FailExec
      <3> QED
        BY <3>1, <3>2, <3>3, OthersPublish
    <2> QED
      BY <1>1, <2>1, <2>2, <2>3, <2>4, <2>5, <2>6, <2>7, <2>8, <2>9 DEF Proceed
  <1>2. ASSUME NEW w \in Workers, GenerateFails(w) PROVE PublicationInvariant'
    <2>1. UNCHANGED <<exec, run>> /\ art'.vis = art.vis /\ art'.pub = art.pub
      BY <1>2 DEF GenerateFails, TypeOK, ArtRecord
    <2>2. wk'[w].pc = "compensate" /\ \A x \in Workers \ {w} : wk'[x].pc = wk[x].pc
      BY <1>2 DEF GenerateFails, TypeOK, WorkerState
    <2>3. Produces
      BY <2>1 DEF Produces, PublicationInvariant
    <2>4. Produced(w)'
      BY <2>2 DEF Produced, Working, Saving
    <2> QED
      BY <2>1, <2>2, <2>3, <2>4, CallPublishes
  <1>3. ASSUME NEW w \in Workers, Disturb(w), ~GenerateFails(w)
        PROVE  PublicationInvariant'
    <2>1. UNCHANGED <<run, art>> /\ exec'.status = exec.status
      BY <1>3 DEF Disturb, GetRunRaises, StoreRaises, FailExecRaises, HeartbeatLost,
                  HeartbeatLate, Crash, TypeOK, ExecRecord
    <2>2. \A x \in Workers : wk'[x].pc \in {wk[x].pc, "idle", "leaked"} \cup Failing
      <3>1. CASE GetRunRaises(w) \/ HeartbeatLost(w)
        BY <3>1 DEF GetRunRaises, HeartbeatLost, TypeOK, WorkerState
      <3>4. CASE HeartbeatLate(w)
        <4>1. PICK v : wk' = [wk EXCEPT ![w].hb = "off", ![w].version = v]
          BY <3>4, Zenon DEF HeartbeatLate
        <4> QED
          BY <4>1 DEF TypeOK, WorkerState
      <3>2. CASE StoreRaises(w) \/ FailExecRaises(w)
        BY <3>2, GotoFrame DEF StoreRaises, FailExecRaises, Steps, Failing
      <3>3. CASE Crash(w)
        BY <3>3 DEF Crash, Idle, TypeOK
      <3> QED
        BY <1>3, <3>1, <3>2, <3>3, <3>4 DEF Disturb
    <2> QED
      BY <2>1, <2>2, OthersPublish
  <1>4. ASSUME NEW w \in Workers, Deliver(w) \/ Heartbeat(w) PROVE PublicationInvariant'
    <2>1. UNCHANGED <<run, art>>
      BY <1>4 DEF Deliver, ClaimAction, ClaimRefused, Heartbeat
    <2>2. exec'.status \in {exec.status, "running", "failed"}
      BY <1>4 DEF Deliver, ClaimAction, Granted, ClaimRefused, Heartbeat, TypeOK, ExecRecord
    <2>3. \A x \in Workers : wk'[x].pc \in {wk[x].pc, "get_run"}
      <3>1. CASE Deliver(w)
        BY <3>1 DEF Deliver, ClaimAction, ClaimRefused, TypeOK
      <3>2. CASE Heartbeat(w)
        BY <3>2 DEF Heartbeat, TypeOK, WorkerState
      <3> QED
        BY <1>4, <3>1, <3>2
    <2> QED
      BY <2>1, <2>2, <2>3, OthersPublish
  <1>5. CASE LeaseExpires \/ BackoffElapses \/ ListStalled
    BY <1>5, OthersPublish
    DEF LeaseExpires, BackoffElapses, ListStalled, TypeOK, ExecRecord
  <1>6. ASSUME NEW s \in scan, Recover(s) \/ ReclaimerStops(s)
        PROVE  PublicationInvariant'
    <2>1. UNCHANGED <<run, art, wk>>
      BY <1>6 DEF Recover, ReclaimTerminal, ReclaimForRetry, Redispatch, ReclaimerStops
    <2>2. exec'.status \in {exec.status, "pending", "failed"}
      BY <1>6
      DEF Recover, ReclaimTerminal, ReclaimForRetry, Redispatch, ReclaimerStops,
          Released, TypeOK, ExecRecord
    <2> QED
      BY <2>1, <2>2, OthersPublish
  <1> QED
    BY <1>0, <1>1, <1>2, <1>3, <1>4, <1>5, <1>6 DEF Next

(* Under Firestore a COMPLETED action has a COMPLETED Run and a published  *)
(* artifact and file, although each was perhaps written by another attempt *)
(* and the calls that fail go on to compensate.                            *)
THEOREM CompletedForPublication ==
  ASSUME Backend = "firestore" PROVE Spec => []CompletedIsPublished
  <1>1. Init => TypeOK /\ LeaseInvariant /\ PublicationInvariant
    BY TypeInit, LeaseInit, PublicationInit
  <1>2. TypeOK /\ LeaseInvariant /\ PublicationInvariant /\ [Next]_vars
           => (TypeOK /\ LeaseInvariant /\ PublicationInvariant)'
    BY TypeNext, LeaseNext, PublicationNext
  <1>3. PublicationInvariant => CompletedIsPublished
    BY DEF PublicationInvariant, CompletedIsPublished, Delivered, Outcome, Published
  <1> QED
    BY <1>1, <1>2, <1>3, PTL DEF Spec

-----------------------------------------------------------------------------
(* The lifecycle: the same record, and dispatchers that fill the queue.    *)
(* For the leases a step of theirs is no step; for the queue, agreement    *)
(* with it (ActionDispatchProofs) holds of the record and of every copy of *)
(* its dispatch half that a worker may still write back.                   *)
LifecycleTypes == TypeOK /\ Facts!DispatchTypeOK

QueueInvariant ==
    /\ Facts!Senders
    /\ Facts!Agrees(disp, tasks, dp, dclaims)
    /\ \A w \in Workers : Active(w) => Facts!Agrees(wk[w].disp, tasks, dp, dclaims)

LEMMA DispatchConstants == Facts!DispatchAssumption
  BY ConstantsAssumption, LifecycleAssumption DEF Facts!DispatchAssumption

LEMMA LifecycleInitial ==
  ASSUME LifecycleInit
  PROVE  LifecycleTypes /\ LeaseInvariant /\ QueueInvariant
  <1>1. wk \in [Workers -> WorkerState] /\ \A w \in Workers : ~Active(w)
    BY IdleType DEF LifecycleInit, Active, Idle
  <1>2. disp \in DispRecord
    BY DEF LifecycleInit, Dispatch!Undispatched, DispRecord
  <1>3. run \in RunRecord /\ art \in ArtRecord
    BY DEF LifecycleInit, NoRun, NoArt, RunRecord, ArtRecord, RunStatus, GateStatus,
           Visibility, NoToken
  <1>4. TypeOK
    BY <1>1, <1>2, <1>3, CreatedType DEF LifecycleInit, TypeOK
  <1>5. dp = [d \in Facts!Dispatchers |-> Facts!NoDispatch]
    BY DEF LifecycleInit, Dispatch!Dispatchers, Facts!Dispatchers, Dispatch!NoDispatch,
           Facts!NoDispatch
  <1>6. Facts!NoDispatch \in Facts!DpState /\ Facts!NoDispatch.pc = "idle"
    BY DEF Facts!NoDispatch, Facts!DpState, Facts!DpSteps
  <1>7. dp \in [Facts!Dispatchers -> Facts!DpState]
        /\ \A d \in Facts!Dispatchers : dp[d].pc = "idle"
    BY <1>5, <1>6
  <1>8. disp \in Facts!DispType
    BY <1>2 DEF DispRecord, Facts!DispType, Facts!DispStatus
  <1>9. Facts!DispatchTypeOK
    BY <1>4, <1>7, <1>8, LifecycleAssumption
       DEF LifecycleInit, TypeOK, Facts!DispatchTypeOK
  <1>10. LeaseInvariant
    BY <1>1, ConstantsAssumption DEF LifecycleInit, LeaseInvariant, RecordLease, Created, NoToken
  <1>11. QueueInvariant
    BY <1>1, <1>7, ConstantsAssumption
       DEF LifecycleInit, QueueInvariant, Facts!Senders, Facts!Sending, Facts!Agrees,
           Dispatch!Undispatched
  <1> QED
    BY <1>4, <1>9, <1>10, <1>11 DEF LifecycleTypes

(* What the steps of workers, reclaimer and clock do to queue and copies.  *)
QueueKept ==
    /\ \A g \in 1..MaxGeneration : tasks[g] # "absent" => tasks'[g] # "absent"
    /\ \/ disp' = disp
       \/ \E w \in Workers : Active(w) /\ disp' = WrittenBackDisp(wk[w].disp)
    /\ \A w \in Workers :
          Active(w)' => \/ wk'[w].disp = disp
                        \/ Active(w) /\ wk'[w].disp = wk[w].disp

(* A step of one call that is under way: its copy stays what it was.       *)
LEMMA CallKeepsQueue ==
  ASSUME TypeOK, NEW w \in Workers, Active(w), wk'[w].disp = wk[w].disp \/ ~Active(w)',
         \A x \in Workers \ {w} : wk'[x] = wk[x],
         disp' \in {disp, WrittenBackDisp(wk[w].disp)},
         \A g \in 1..MaxGeneration : tasks[g] # "absent" => tasks'[g] # "absent"
  PROVE  QueueKept
  BY DEF QueueKept, Active

LEMMA ExecuteKeepsQueue ==
  ASSUME TypeOK, [Next]_vars
  PROVE  QueueKept
  <1>0. CASE UNCHANGED vars
    BY <1>0 DEF vars, QueueKept, Active
  <1>1. ASSUME NEW w \in Workers, NEW g \in 1..MaxGeneration,
               ClaimAction(w, g) \/ ClaimRefused(w, g)
        PROVE  QueueKept
    <2>1. disp' = disp /\ \A h \in 1..MaxGeneration : tasks[h] # "absent" => tasks'[h] # "absent"
      BY <1>1 DEF ClaimAction, ClaimRefused, TypeOK
    <2>2. \A x \in Workers : wk'[x] = wk[x] \/ wk'[x].disp = disp
      BY <1>1 DEF ClaimAction, ClaimRefused, TypeOK
    <2> QED
      BY <2>1, <2>2 DEF QueueKept, Active
  <1>2. ASSUME NEW w \in Workers,
               \/ GetRun(w) \/ SaveFile(w) \/ SaveArtifact(w) \/ CasRun(w) \/ Compensate(w)
               \/ StoreRaises(w) \/ FailExecRaises(w) \/ SaveExec(w) \/ FailExec(w)
        PROVE  QueueKept
    <2>1. PICK step \in Steps : Goto(w, step)
      BY <1>2 DEF GetRun, SaveFile, SaveArtifact, CasRun, Compensate, StoreRaises,
         FailExecRaises, SaveExec, FailExec, Steps, Working, Saving, Failing
    <2>2. wk'[w].disp = wk[w].disp /\ \A x \in Workers \ {w} : wk'[x] = wk[x]
      BY <2>1 DEF Goto, TypeOK, WorkerState
    <2>3. Active(w) /\ UNCHANGED tasks
      BY <1>2 DEF GetRun, SaveFile, SaveArtifact, CasRun, Compensate, StoreRaises,
         FailExecRaises, SaveExec, FailExec, Active, Saving
    <2>4. disp' \in {disp, WrittenBackDisp(wk[w].disp)}
      BY <1>2 DEF GetRun, SaveFile, SaveArtifact, CasRun, Compensate, StoreRaises,
         FailExecRaises, SaveExec, FailExec
    <2> QED
      BY <2>2, <2>3, <2>4, CallKeepsQueue
  <1>3. ASSUME NEW w \in Workers,
               \/ UploadBlob(w) \/ VerifyLease(w) \/ VerifyFails(w) \/ GetRunRaises(w)
               \/ GenerateFails(w)
        PROVE  QueueKept
    <2>1. wk'[w].disp = wk[w].disp /\ \A x \in Workers \ {w} : wk'[x] = wk[x]
      BY <1>3 DEF UploadBlob, VerifyLease, VerifyFails, GetRunRaises, GenerateFails,
         TypeOK, WorkerState
    <2>2. Active(w) /\ UNCHANGED <<disp, tasks>>
      BY <1>3 DEF UploadBlob, VerifyLease, VerifyFails, GetRunRaises, GenerateFails, Active
    <2> QED
      BY <2>1, <2>2, CallKeepsQueue
  <1>4. ASSUME NEW w \in Workers, Heartbeat(w) \/ HeartbeatLost(w) \/ HeartbeatLate(w)
        PROVE  QueueKept
    <2>1. /\ wk'[w].disp = wk[w].disp /\ wk'[w].pc = wk[w].pc
          /\ \A x \in Workers \ {w} : wk'[x] = wk[x]
      <3>1. PICK hb, v : wk' = [wk EXCEPT ![w].hb = hb, ![w].version = v]
        <4>1. CASE HeartbeatLate(w)
          BY <4>1, Zenon DEF HeartbeatLate
        <4>2. CASE HeartbeatLost(w)
          <5>1. wk' = [wk EXCEPT ![w].hb = "lost", ![w].version = wk[w].version]
            BY <4>2 DEF HeartbeatLost, TypeOK, WorkerState
          <5> QED
            BY <5>1
        <4>3. CASE Heartbeat(w)
          <5>1. wk' = [wk EXCEPT ![w].version = exec'.version]
            BY <4>3 DEF Heartbeat
          <5>2. wk' = [wk EXCEPT ![w].hb = wk[w].hb, ![w].version = exec'.version]
            BY <5>1 DEF TypeOK, WorkerState
          <5> QED
            BY <5>2
        <4> QED
          BY <1>4, <4>1, <4>2, <4>3
      <3> QED
        BY <3>1 DEF TypeOK, WorkerState
    <2>2. UNCHANGED <<disp, tasks>>
      BY <1>4 DEF Heartbeat, HeartbeatLost, HeartbeatLate
    <2> QED
      BY <2>1, <2>2 DEF QueueKept, Active
  <1>5. ASSUME NEW w \in Workers, EmitEvent(w) \/ FailRun(w) \/ Crash(w)
        PROVE  QueueKept
    <2>1. wk' = [wk EXCEPT ![w] = Idle] /\ disp' = disp /\ Idle.pc = "idle"
      BY <1>5 DEF EmitEvent, FailRun, Crash, Idle
    <2>2. ~Active(w)' /\ \A x \in Workers \ {w} : wk'[x] = wk[x]
      BY <2>1 DEF TypeOK, Active
    <2>3. \A h \in 1..MaxGeneration : tasks[h] # "absent" => tasks'[h] # "absent"
      BY <1>5 DEF EmitEvent, FailRun, Crash, TypeOK
    <2> QED
      BY <2>1, <2>2, <2>3 DEF QueueKept, Active
  <1>6. CASE LeaseExpires \/ BackoffElapses \/ ListStalled
    BY <1>6 DEF LeaseExpires, BackoffElapses, ListStalled, QueueKept, Active
  <1>7. ASSUME NEW s \in scan, Recover(s) \/ ReclaimerStops(s)
        PROVE  QueueKept
    <2>1. UNCHANGED <<disp, wk>>
      BY <1>7 DEF Recover, ReclaimTerminal, ReclaimForRetry, Redispatch, ReclaimerStops
    <2>2. \A h \in 1..MaxGeneration : tasks[h] # "absent" => tasks'[h] # "absent"
      BY <1>7 DEF Recover, ReclaimTerminal, ReclaimForRetry, Redispatch, ReclaimerStops, TypeOK
    <2> QED
      BY <2>1, <2>2 DEF QueueKept, Active
  <1> QED
    BY <1>0, <1>1, <1>2, <1>3, <1>4, <1>5, <1>6, <1>7 DEF Next, Deliver, Proceed, Disturb

(* Agreement does not depend on what ages in a record.                     *)
LEMMA AgreesAlike ==
  ASSUME NEW x, NEW y, NEW queue, NEW calls, NEW n, Facts!Agrees(x, queue, calls, n),
         y.status = x.status, y.generation = x.generation, y.token = x.token
  PROVE  Facts!Agrees(y, queue, calls, n)
  BY DEF Facts!Agrees

LEMMA ExecuteKeeps ==
  ASSUME LifecycleTypes, LeaseInvariant, QueueInvariant,
         [Next]_vars, UNCHANGED <<dp, dclaims, faults>>
  PROVE  LifecycleTypes' /\ LeaseInvariant' /\ QueueInvariant'
  <1>1. TypeOK /\ TypeOK' /\ LeaseInvariant' /\ QueueKept
    BY TypeNext, LeaseNext, ExecuteKeepsQueue DEF LifecycleTypes
  <1>2. disp' \in Facts!DispType
    BY <1>1 DEF TypeOK, DispRecord, Facts!DispType, Facts!DispStatus
  <1>3. Facts!DispatchTypeOK'
    BY <1>1, <1>2 DEF LifecycleTypes, TypeOK, Facts!DispatchTypeOK
  <1>4. ASSUME NEW x, Facts!Agrees(x, tasks, dp, dclaims)
        PROVE  Facts!Agrees(x, tasks', dp', dclaims')
    BY <1>1, <1>4 DEF QueueKept, Facts!Agrees
  <1>5. Facts!Agrees(disp', tasks', dp', dclaims')
    <2>1. CASE disp' = disp
      BY <1>4, <2>1 DEF QueueInvariant
    <2>2. ASSUME NEW w \in Workers, Active(w), disp' = WrittenBackDisp(wk[w].disp)
          PROVE  Facts!Agrees(disp', tasks', dp', dclaims')
      <3>1. wk[w].disp \in DispRecord
        BY <1>1 DEF TypeOK, WorkerState
      <3>2. disp'.status = wk[w].disp.status /\ disp'.generation = wk[w].disp.generation
            /\ disp'.token = wk[w].disp.token
        BY <2>2, <3>1 DEF WrittenBackDisp, DispRecord
      <3> QED
        BY <1>4, <2>2, <3>2, AgreesAlike DEF QueueInvariant
    <2> QED
      BY <1>1, <2>1, <2>2 DEF QueueKept
  <1>6. Facts!Senders'
    BY <1>1 DEF QueueInvariant, QueueKept, Facts!Senders, Facts!Sending
  <1>7. ASSUME NEW w \in Workers, Active(w)'
        PROVE  Facts!Agrees(wk'[w].disp, tasks', dp', dclaims')
    BY <1>1, <1>4, <1>7 DEF QueueKept, QueueInvariant
  <1> QED
    BY <1>1, <1>3, <1>5, <1>6, <1>7 DEF LifecycleTypes, QueueInvariant

(* A step of the dispatchers, as ActionDispatchProofs knows it.            *)
LEMMA DispatchSteps ==
  ASSUME Dispatch!DispatchNext
  PROVE  Facts!DispatchNext /\ UNCHANGED exec
  <1>1. ASSUME NEW d \in Dispatch!Dispatchers, Dispatch!Confirm(d)
        PROVE  Facts!Confirm(d) /\ UNCHANGED exec
    BY <1>1 DEF Dispatch!Confirm, Facts!Confirm, Dispatch!DGoto, Facts!DGoto
  <1>2. ASSUME NEW d \in Dispatch!Dispatchers, Dispatch!ListUndispatched(d)
        PROVE  Facts!ListUndispatched(d) /\ UNCHANGED exec
    BY <1>2 DEF Dispatch!ListUndispatched, Facts!ListUndispatched, Dispatch!DGoto,
           Facts!DGoto, Dispatch!Overdue, Facts!Overdue
  <1>3. ASSUME NEW d \in Dispatch!Dispatchers, Dispatch!ClaimDispatch(d)
        PROVE  Facts!ClaimDispatch(d) /\ UNCHANGED exec
    BY <1>3 DEF Dispatch!ClaimDispatch, Facts!ClaimDispatch, Dispatch!Refused,
           Facts!Refused, Dispatch!KeepsGeneration, Facts!KeepsGeneration
  <1>4. ASSUME NEW d \in Dispatch!Dispatchers, Dispatch!ClaimDispatchRefused(d)
        PROVE  Facts!ClaimDispatchRefused(d) /\ UNCHANGED exec
    BY <1>4 DEF Dispatch!ClaimDispatchRefused, Facts!ClaimDispatchRefused,
           Dispatch!Refused, Facts!Refused, Dispatch!Leaves, Facts!Leaves,
           Dispatch!NoDispatch, Facts!NoDispatch
  <1>5. ASSUME NEW d \in Dispatch!Dispatchers, Dispatch!DispatchAction(d)
        PROVE  Facts!DispatchAction(d) /\ UNCHANGED exec
    BY <1>5 DEF Dispatch!DispatchAction, Facts!DispatchAction, Dispatch!Enqueued,
           Facts!Enqueued, Dispatch!DGoto, Facts!DGoto
  <1>6. ASSUME NEW d \in Dispatch!Dispatchers, Dispatch!DispatchRaises(d)
        PROVE  Facts!DispatchRaises(d) /\ UNCHANGED exec
    BY <1>6 DEF Dispatch!DispatchRaises, Facts!DispatchRaises, Dispatch!Enqueued,
           Facts!Enqueued, Dispatch!DGoto, Facts!DGoto, Dispatch!Fault, Facts!Fault
  <1>7. ASSUME NEW d \in Dispatch!Dispatchers, Dispatch!RecordSuccess(d)
        PROVE  Facts!RecordSuccess(d) /\ UNCHANGED exec
    BY <1>7 DEF Dispatch!RecordSuccess, Facts!RecordSuccess, Dispatch!Holds,
           Facts!Holds, Dispatch!Settle, Facts!Settle, Dispatch!Leaves, Facts!Leaves,
           Dispatch!NoDispatch, Facts!NoDispatch, Dispatch!DGoto, Facts!DGoto
  <1>8. ASSUME NEW d \in Dispatch!Dispatchers, Dispatch!RecordSuccessRaises(d)
        PROVE  Facts!RecordSuccessRaises(d) /\ UNCHANGED exec
    BY <1>8 DEF Dispatch!RecordSuccessRaises, Facts!RecordSuccessRaises, Dispatch!Holds,
           Facts!Holds, Dispatch!Settle, Facts!Settle, Dispatch!DGoto, Facts!DGoto,
           Dispatch!Fault, Facts!Fault
  <1>9. ASSUME NEW d \in Dispatch!Dispatchers, Dispatch!MarkUncertain(d)
        PROVE  Facts!MarkUncertain(d) /\ UNCHANGED exec
    BY <1>9 DEF Dispatch!MarkUncertain, Facts!MarkUncertain, Dispatch!Holds,
           Facts!Holds, Dispatch!Settle, Facts!Settle, Dispatch!Leaves, Facts!Leaves,
           Dispatch!NoDispatch, Facts!NoDispatch
  <1>10. ASSUME NEW d \in Dispatch!Dispatchers, Dispatch!RecordFailure(d)
        PROVE  Facts!RecordFailure(d) /\ UNCHANGED exec
    BY <1>10 DEF Dispatch!RecordFailure, Facts!RecordFailure, Dispatch!Holds,
           Facts!Holds, Dispatch!Settle, Facts!Settle, Dispatch!Leaves, Facts!Leaves,
           Dispatch!NoDispatch, Facts!NoDispatch
  <1>11. ASSUME NEW d \in Dispatch!Dispatchers, Dispatch!DispatcherStops(d)
        PROVE  Facts!DispatcherStops(d) /\ UNCHANGED exec
    BY <1>11 DEF Dispatch!DispatcherStops, Facts!DispatcherStops, Dispatch!Leaves,
           Facts!Leaves, Dispatch!NoDispatch, Facts!NoDispatch, Dispatch!Fault,
           Facts!Fault
  <1>12. ASSUME Dispatch!DispatchLeaseExpires PROVE Facts!DispatchLeaseExpires /\ UNCHANGED exec
    BY <1>12 DEF Dispatch!DispatchLeaseExpires, Facts!DispatchLeaseExpires,
           Dispatch!Fault, Facts!Fault
  <1>13. ASSUME Dispatch!AbandonedLeaseExpires PROVE Facts!AbandonedLeaseExpires /\ UNCHANGED exec
    BY <1>13 DEF Dispatch!AbandonedLeaseExpires, Facts!AbandonedLeaseExpires,
           Dispatch!Dispatchers, Facts!Dispatchers
  <1>14. ASSUME Dispatch!DispatchBackoffElapses PROVE Facts!DispatchBackoffElapses /\ UNCHANGED exec
    BY <1>14 DEF Dispatch!DispatchBackoffElapses, Facts!DispatchBackoffElapses
  <1> QED
    BY <1>1, <1>2, <1>3, <1>4, <1>5, <1>6, <1>7, <1>8, <1>9, <1>10, <1>11, <1>12, <1>13,
       <1>14
       DEF Dispatch!DispatchNext, Facts!DispatchNext, Dispatch!DispatchProceeds,
           Facts!DispatchProceeds, Dispatch!Dispatchers, Facts!Dispatchers

LEMMA DispenseKeeps ==
  ASSUME LifecycleTypes, LeaseInvariant, QueueInvariant, Dispense
  PROVE  LifecycleTypes' /\ LeaseInvariant' /\ QueueInvariant'
  <1>1. Facts!DispatchNext /\ UNCHANGED <<exec, run, art, scan, claims>>
    BY DispatchSteps DEF Dispense
  <1>2. Facts!Effects /\ faults' \in 0..MaxFaults
    BY <1>1, DispatchConstants, Facts!StepEffects DEF LifecycleTypes
  <1>3. Facts!DispatchTypeOK'
    BY <1>2, DispatchConstants, Facts!EffectsType DEF LifecycleTypes
  <1>4. /\ Facts!Senders' /\ Facts!Agrees(disp', tasks', dp', dclaims')
        /\ \A x \in Facts!DispType : Facts!Agrees(x, tasks, dp, dclaims)
                                     => Facts!Agrees(x, tasks', dp', dclaims')
    BY <1>2, DispatchConstants, Facts!EffectsAgree DEF LifecycleTypes, QueueInvariant
  <1>5. ASSUME NEW w \in Workers
        PROVE  /\ wk'[w] \in WorkerState /\ wk'[w].pc = wk[w].pc
               /\ wk'[w].rec = wk[w].rec /\ wk'[w].version = wk[w].version
               /\ wk'[w].disp.status = wk[w].disp.status
               /\ wk'[w].disp.generation = wk[w].disp.generation
               /\ wk'[w].disp.token = wk[w].disp.token
    <2>1. wk'[w] \in {wk[w], [wk[w] EXCEPT !.disp.live = FALSE]}
      BY DEF Dispense
    <2>2. wk[w] \in WorkerState
      BY DEF LifecycleTypes, TypeOK
    <2>3. CASE wk'[w] = wk[w]
      BY <2>2, <2>3
    <2>4. CASE wk'[w] = [wk[w] EXCEPT !.disp.live = FALSE]
      <3> DEFINE aged == [wk[w].disp EXCEPT !.live = FALSE]
      <3>1. wk[w].disp \in DispRecord
        BY <2>2 DEF WorkerState
      <3>2. /\ aged \in DispRecord /\ aged.status = wk[w].disp.status
            /\ aged.generation = wk[w].disp.generation /\ aged.token = wk[w].disp.token
        BY <3>1 DEF DispRecord
      <3>3. wk'[w] = [wk[w] EXCEPT !.disp = aged]
        BY <2>4
      <3> HIDE DEF aged
      <3> QED
        BY <2>2, <3>2, <3>3 DEF WorkerState
    <2> QED
      BY <2>1, <2>3, <2>4
  <1>6. wk' \in [Workers -> WorkerState]
    <2>1. wk' = [w \in Workers |-> wk'[w]]
      BY DEF Dispense
    <2> QED
      BY <1>5, <2>1
  <1>7. disp' \in DispRecord
        /\ tasks' \in [1..MaxGeneration -> {"absent", "queued", "done"}]
    BY <1>3 DEF Facts!DispatchTypeOK, Facts!DispType, Facts!DispStatus, DispRecord
  <1>8. TypeOK /\ TypeOK'
    BY <1>1, <1>6, <1>7 DEF LifecycleTypes, TypeOK
  <1>9. LeaseInvariant'
    <2>1. RecordLease'
      BY <1>1 DEF LeaseInvariant, RecordLease
    <2>2. exec'.version >= exec.version
      BY <1>1, <1>8 DEF TypeOK, ExecRecord
    <2> QED
      BY <1>1, <1>5, <1>8, <2>1, <2>2, LeaseFrame DEF Active
  <1>10. ASSUME NEW w \in Workers, Active(w)'
         PROVE  Facts!Agrees(wk'[w].disp, tasks', dp', dclaims')
    <2>1. wk[w].disp \in Facts!DispType
      BY <1>8 DEF TypeOK, WorkerState, DispRecord, Facts!DispType, Facts!DispStatus
    <2>2. Facts!Agrees(wk[w].disp, tasks', dp', dclaims')
      BY <1>4, <1>5, <1>10, <2>1 DEF QueueInvariant, Active
    <2> QED
      BY <1>5, <2>2, AgreesAlike
  <1> QED
    BY <1>3, <1>4, <1>8, <1>9, <1>10 DEF LifecycleTypes, QueueInvariant

LEMMA LifecycleCorrect ==
  LifecycleSpec => [](LifecycleTypes /\ LeaseInvariant /\ QueueInvariant)
  <1>1. LifecycleInit => LifecycleTypes /\ LeaseInvariant /\ QueueInvariant
    BY LifecycleInitial
  <1>2. LifecycleTypes /\ LeaseInvariant /\ QueueInvariant /\ [LifecycleNext]_lvars
          => (LifecycleTypes /\ LeaseInvariant /\ QueueInvariant)'
    <2> SUFFICES ASSUME LifecycleTypes, LeaseInvariant, QueueInvariant,
                        [LifecycleNext]_lvars
                 PROVE  (LifecycleTypes /\ LeaseInvariant /\ QueueInvariant)'
      OBVIOUS
    <2>1. CASE UNCHANGED lvars
      <3>1. [Next]_vars /\ UNCHANGED <<dp, dclaims, faults>>
        BY <2>1 DEF lvars, vars
      <3> QED
        BY <3>1, ExecuteKeeps
    <2>2. CASE Execute
      BY <2>2, ExecuteKeeps DEF Execute
    <2>3. CASE Dispense
      BY <2>3, DispenseKeeps
    <2> QED
      BY <2>1, <2>2, <2>3 DEF LifecycleNext
  <1> QED
    BY <1>1, <1>2, PTL DEF LifecycleSpec

(* However often dispatchers and reclaimer enqueue the action, it is       *)
(* executed under at most MaxAttempts leases.                              *)
THEOREM LeasesStayBoundedAlways == LifecycleSpec => []LeasesStayBounded
  <1>1. LeaseInvariant => LeasesStayBounded
    BY DEF LeaseInvariant, RecordLease, LeasesStayBounded
  <1> QED
    BY <1>1, LifecycleCorrect, PTL

(* A record that calls its action dispatched, or in doubt, has its task,   *)
(* also after workers have written their copies of the record back.        *)
THEOREM RecordsTellTheQueue == LifecycleSpec => []RecordTellsTheQueue
  <1>1. QueueInvariant => RecordTellsTheQueue
    BY DEF QueueInvariant, Facts!Agrees, RecordTellsTheQueue, Dispatch!RecordedTaskExists
  <1> QED
    BY <1>1, LifecycleCorrect, PTL

=============================================================================
