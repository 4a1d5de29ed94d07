------------------------ MODULE ActionDispatchProofs ------------------------
(***************************************************************************)
(* Proofs about ActionDispatch, for every number of confirm calls and      *)
(* recoverers, both stores, and every bound: at most one dispatcher holds  *)
(* the fence of the dispatch, a record tells the truth about its task, and *)
(* tasks are duplicated only by ends of a dispatch that were recorded.     *)
(*                                                                         *)
(* First what the steps do, then what they keep.  Agreement, the part of   *)
(* the invariant that says why a record tells the truth, is kept for any   *)
(* record, the stored one or an older copy: ActionLifecycle has both.      *)
(***************************************************************************)
EXTENDS ActionDispatch, FiniteSetTheorems, TLAPS

(* A dispatcher that was granted a lease and is not through with it.       *)
Sending(d) == dp[d].pc \notin {"idle", "claim"}

-----------------------------------------------------------------------------
(* Besides claims: time passes, or a dispatcher goes on, leaves or begins, *)
(* enqueues the task of its generation, and has an end recorded if it      *)
(* holds the fence.                                                        *)
TimePassesOnly ==
    /\ disp' \in DispType
    /\ disp'.status = disp.status /\ disp'.version = disp.version
    /\ disp'.generation = disp.generation /\ disp'.token = disp.token
    /\ disp'.named = disp.named

Settles(d) ==
    /\ Holds(d)
    /\ disp' \in DispType
    /\ disp'.status \in {"dispatched", "confirmation_pending", "failed"}
    /\ disp'.status # "failed" => dp[d].pc \in {"success", "uncertain"}
    /\ disp'.version = disp.version + 1
    /\ disp'.generation = disp.generation /\ disp'.token = 0

(* Dispatcher d goes on as c ...                                           *)
GoesOn(d, c) ==
    /\ Sending(d) /\ c.pc \notin {"idle", "claim"}
    /\ c.token = dp[d].token /\ c.generation = dp[d].generation
    /\ c.pc \in {"success", "uncertain"} =>
           dp[d].pc = "success" \/ Enqueued(dp[d].generation)

(* ... or is not, or not yet, under way.                                   *)
Waits(d, c) ==
    /\ c.pc \in {"idle", "claim"}
    /\ c.token = 0 \/ (~Sending(d) /\ c.token = dp[d].token)

Works(d, c) ==
    /\ dp' = [dp EXCEPT ![d] = c] /\ dclaims' = dclaims
    /\ GoesOn(d, c) \/ Waits(d, c)
    /\ UNCHANGED tasks \/ (Sending(d) /\ Enqueued(dp[d].generation))
    /\ TimePassesOnly \/ Settles(d)

(* A claim draws the next token, and begins a generation unless it keeps   *)
(* the one there is.                                                       *)
Claims(d) ==
    /\ ~Refused
    /\ dclaims' = dclaims + 1
    /\ disp' \in DispType /\ disp'.status = "dispatching" /\ disp'.token = dclaims + 1
    /\ disp'.version = disp.version
    /\ disp'.generation = IF KeepsGeneration THEN disp.generation ELSE disp.generation + 1
    /\ KeepsGeneration \/ disp.generation < MaxGeneration
    /\ dp' \in [Dispatchers -> DpState]
    /\ Sending(d)' /\ dp'[d].pc = "send"
    /\ dp'[d].token = dclaims + 1 /\ dp'[d].generation = disp'.generation
    /\ \A e \in Dispatchers \ {d} : dp'[e] = dp[e]
    /\ UNCHANGED tasks

Waiting == UNCHANGED <<tasks, dp, dclaims>> /\ TimePassesOnly

Effects ==
    \/ Waiting
    \/ \E d \in Dispatchers : Claims(d) \/ \E c \in DpState : Works(d, c)

-----------------------------------------------------------------------------
LEMMA SettlingType ==
  ASSUME disp \in DispType, NEW status \in DispStatus, NEW waits \in BOOLEAN,
         NEW names \in BOOLEAN, Settle(status, waits, names)
  PROVE  /\ disp' \in DispType /\ disp'.status = status
         /\ disp'.version = disp.version + 1
         /\ disp'.generation = disp.generation /\ disp'.token = 0
  <1>1. disp' = [disp EXCEPT !.status = status, !.token = 0, !.live = FALSE,
                             !.version = disp.version + 1, !.wait = waits,
                             !.named = disp.named \/ names]
    BY DEF Settle
  <1>2. disp.version \in Nat /\ disp.version + 1 \in Nat
        /\ (disp.named \/ names) \in BOOLEAN
    BY DEF DispType
  <1> QED
    BY <1>1, <1>2 DEF DispType

LEMMA RecordUnchanged ==
  ASSUME DispatchTypeOK, UNCHANGED disp
  PROVE  TimePassesOnly
  BY DEF DispatchTypeOK, TimePassesOnly

LEMMA AnotherStep ==
  ASSUME NEW r \in DpState, NEW pc \in DpSteps
  PROVE  /\ [r EXCEPT !.pc = pc] \in DpState /\ [r EXCEPT !.pc = pc].pc = pc
         /\ [r EXCEPT !.pc = pc].token = r.token
         /\ [r EXCEPT !.pc = pc].generation = r.generation
  BY DEF DpState, DpSteps

(* A dispatcher that leaves, begins, or goes on.                           *)
LEMMA MovingWorks ==
  ASSUME DispatchTypeOK, NEW d \in Dispatchers,
         \/ Leaves(d)
         \/ ~Sending(d) /\ DGoto(d, "claim")
         \/ Sending(d) /\ DGoto(d, "failure")
         \/ Sending(d) /\ Enqueued(dp[d].generation) /\ DGoto(d, "success")
         \/ dp[d].pc = "success" /\ DGoto(d, "uncertain"),
         TimePassesOnly \/ Settles(d),
         UNCHANGED tasks \/ (Sending(d) /\ Enqueued(dp[d].generation)),
         dclaims' = dclaims
  PROVE  \E c \in DpState : Works(d, c)
  <1>1. dp[d] \in DpState
    BY DEF DispatchTypeOK
  <1>2. CASE Leaves(d)
    <2>1. NoDispatch \in DpState /\ Waits(d, NoDispatch)
      BY DEF NoDispatch, DpState, DpSteps, Waits
    <2> QED
      BY <1>2, <2>1 DEF Leaves, Works
  <1>3. ASSUME NEW pc \in DpSteps, DGoto(d, pc),
               \/ ~Sending(d) /\ pc = "claim"
               \/ Sending(d) /\ pc \notin {"idle", "claim", "success", "uncertain"}
               \/ Sending(d) /\ Enqueued(dp[d].generation) /\ pc = "success"
               \/ dp[d].pc = "success" /\ pc = "uncertain"
        PROVE  \E c \in DpState : Works(d, c)
    <2> DEFINE c == [dp[d] EXCEPT !.pc = pc]
    <2>1. dp' = [dp EXCEPT ![d] = c]
      BY <1>3 DEF DGoto
    <2>2. c \in DpState /\ c.pc = pc /\ c.token = dp[d].token
          /\ c.generation = dp[d].generation
      BY <1>1, AnotherStep
    <2> HIDE DEF c
    <2>3. GoesOn(d, c) \/ Waits(d, c)
      BY <1>3, <2>2 DEF GoesOn, Waits, Sending
    <2> QED
      BY <2>1, <2>2, <2>3 DEF Works
  <1> QED
    BY <1>2, <1>3 DEF DpSteps

LEMMA RecordingWorks ==
  ASSUME DispatchTypeOK, NEW d \in Dispatchers,
         \/ RecordSuccess(d) \/ RecordSuccessRaises(d) \/ MarkUncertain(d)
         \/ RecordFailure(d)
  PROVE  \E c \in DpState : Works(d, c)
  <1>1. disp \in DispType /\ disp.wait \in BOOLEAN
    BY DEF DispatchTypeOK, DispType
  <1>2. UNCHANGED <<tasks, dclaims>>
    BY DEF RecordSuccess, RecordSuccessRaises, MarkUncertain, RecordFailure
  <1>3. Leaves(d) \/ (dp[d].pc = "success" /\ DGoto(d, "uncertain"))
    BY DEF RecordSuccess, RecordSuccessRaises, MarkUncertain, RecordFailure
  <1>4. \/ UNCHANGED disp
        \/ Holds(d) /\ dp[d].pc = "success" /\ Settle("dispatched", disp.wait, TRUE)
        \/ Holds(d) /\ dp[d].pc = "uncertain"
             /\ Settle("confirmation_pending", Backend = "firestore", TRUE)
        \/ Holds(d) /\ Settle("failed", TRUE, FALSE)
    BY DEF RecordSuccess, RecordSuccessRaises, MarkUncertain, RecordFailure
  <1>5. TimePassesOnly \/ Settles(d)
    <2>1. CASE UNCHANGED disp
      BY <2>1, RecordUnchanged
    <2>2. CASE Holds(d) /\ dp[d].pc = "success" /\ Settle("dispatched", disp.wait, TRUE)
      BY <1>1, <2>2, SettlingType DEF Settles, DispStatus
    <2>3. CASE Holds(d) /\ dp[d].pc = "uncertain"
               /\ Settle("confirmation_pending", Backend = "firestore", TRUE)
      <3>1. PICK b \in BOOLEAN : b = (Backend = "firestore")
        OBVIOUS
      <3>2. Settle("confirmation_pending", b, TRUE)
        BY <2>3, <3>1 DEF Settle
      <3> QED
        BY <1>1, <2>3, <3>2, SettlingType DEF Settles, DispStatus
    <2>4. CASE Holds(d) /\ Settle("failed", TRUE, FALSE)
      BY <1>1, <2>4, SettlingType DEF Settles, DispStatus
    <2> QED
      BY <1>4, <2>1, <2>2, <2>3, <2>4
  <1> QED
    BY <1>2, <1>3, <1>5, MovingWorks

LEMMA ClaimingClaims ==
  ASSUME DispatchTypeOK, NEW d \in Dispatchers, ClaimDispatch(d)
  PROVE  Claims(d)
  <1>1. disp \in DispType /\ disp.generation \in Nat /\ disp.version \in Nat
        /\ dclaims \in Nat
    BY DEF DispatchTypeOK, DispType
  <1>2. PICK t \in Nat : t = dclaims + 1 /\ dclaims' = t
    BY <1>1 DEF ClaimDispatch
  <1>3. PICK g \in Nat :
           g = IF KeepsGeneration THEN disp.generation ELSE disp.generation + 1
    BY <1>1
  <1>4. disp' = [disp EXCEPT !.status = "dispatching", !.live = TRUE,
                             !.token = t, !.generation = g]
    BY <1>2, <1>3 DEF ClaimDispatch
  <1>5. /\ disp' \in DispType /\ disp'.status = "dispatching" /\ disp'.token = t
        /\ disp'.generation = g /\ disp'.version = disp.version
    BY <1>1, <1>4 DEF DispType, DispStatus
  <1> DEFINE c == [pc |-> "send", token |-> t, version |-> disp.version, generation |-> g]
  <1>6. dp' = [dp EXCEPT ![d] = c]
    BY <1>2, <1>5 DEF ClaimDispatch
  <1>7. c \in DpState /\ c.pc = "send" /\ c.token = t /\ c.generation = g
    BY <1>1 DEF DpState, DpSteps
  <1> HIDE DEF c
  <1>8. dp' \in [Dispatchers -> DpState] /\ dp'[d] = c
        /\ \A e \in Dispatchers \ {d} : dp'[e] = dp[e]
    BY <1>6, <1>7 DEF DispatchTypeOK
  <1>9. ~Refused /\ (KeepsGeneration \/ disp.generation < MaxGeneration) /\ UNCHANGED tasks
    BY DEF ClaimDispatch
  <1> QED
    BY <1>2, <1>3, <1>5, <1>7, <1>8, <1>9 DEF Claims, Sending

LEMMA StepEffects ==
  ASSUME DispatchTypeOK, [DispatchNext]_dvars
  PROVE  Effects /\ faults' \in 0..MaxFaults
  <1>1. disp \in DispType /\ faults \in 0..MaxFaults /\ MaxFaults \in Nat
    BY DispatchAssumption DEF DispatchTypeOK
  <1>2. CASE UNCHANGED dvars
    BY <1>1, <1>2, RecordUnchanged DEF dvars, Effects, Waiting
  <1>3. CASE DispatchLeaseExpires \/ AbandonedLeaseExpires \/ DispatchBackoffElapses
    <2>1. \/ disp' = [disp EXCEPT !.live = FALSE]
          \/ disp' = [disp EXCEPT !.wait = FALSE]
      BY <1>3 DEF DispatchLeaseExpires, AbandonedLeaseExpires, DispatchBackoffElapses
    <2>2. TimePassesOnly
      BY <1>1, <2>1 DEF TimePassesOnly, DispType
    <2> QED
      BY <1>1, <1>3, <2>2 DEF DispatchLeaseExpires, AbandonedLeaseExpires,
         DispatchBackoffElapses, Fault, Effects, Waiting
  <1>4. ASSUME NEW d \in Dispatchers,
               \/ Confirm(d) \/ ListUndispatched(d) \/ ClaimDispatchRefused(d)
               \/ DispatcherStops(d)
        PROVE  (\E c \in DpState : Works(d, c)) /\ faults' \in 0..MaxFaults
    <2>1. UNCHANGED <<disp, tasks, dclaims>> /\ faults' \in 0..MaxFaults
      BY <1>1, <1>4 DEF Confirm, ListUndispatched, ClaimDispatchRefused,
                        DispatcherStops, Fault
    <2>2. Leaves(d) \/ (~Sending(d) /\ DGoto(d, "claim"))
      BY <1>4 DEF Confirm, ListUndispatched, ClaimDispatchRefused, DispatcherStops, Sending
    <2> QED
      BY <2>1, <2>2, RecordUnchanged, MovingWorks
  <1>5. ASSUME NEW d \in Dispatchers, DispatchAction(d) \/ DispatchRaises(d)
        PROVE  (\E c \in DpState : Works(d, c)) /\ faults' \in 0..MaxFaults
    <2>1. UNCHANGED <<disp, dclaims>> /\ faults' \in 0..MaxFaults
      BY <1>1, <1>5 DEF DispatchAction, DispatchRaises, Fault
    <2>2. Sending(d) /\ (UNCHANGED tasks \/ Enqueued(dp[d].generation))
          /\ (DGoto(d, "failure") \/ (Enqueued(dp[d].generation) /\ DGoto(d, "success")))
      BY <1>5 DEF DispatchAction, DispatchRaises, Sending
    <2> QED
      BY <2>1, <2>2, RecordUnchanged, MovingWorks
  <1>6. ASSUME NEW d \in Dispatchers,
               \/ RecordSuccess(d) \/ RecordSuccessRaises(d) \/ MarkUncertain(d)
               \/ RecordFailure(d) \/ ClaimDispatch(d)
        PROVE  faults' \in 0..MaxFaults
    <2>1. CASE RecordSuccess(d) \/ RecordFailure(d)
      BY <1>1, <2>1 DEF RecordSuccess, RecordFailure
    <2>2. CASE MarkUncertain(d) \/ ClaimDispatch(d)
      BY <1>1, <2>2 DEF MarkUncertain, ClaimDispatch
    <2>3. CASE RecordSuccessRaises(d)
      BY <1>1, <2>3 DEF RecordSuccessRaises, Fault
    <2> QED
      BY <1>6, <2>1, <2>2, <2>3
  <1> QED
    BY <1>2, <1>3, <1>4, <1>5, <1>6, RecordingWorks, ClaimingClaims
       DEF DispatchNext, DispatchProceeds, Effects

(* The types follow.                                                       *)
LEMMA WorkingFrame ==
  ASSUME DispatchTypeOK, NEW d \in Dispatchers, NEW c \in DpState, Works(d, c)
  PROVE  /\ dp' \in [Dispatchers -> DpState] /\ dp'[d] = c
         /\ \A e \in Dispatchers \ {d} : dp'[e] = dp[e]
         /\ tasks' \in [1..MaxGeneration -> {"absent", "queued", "done"}]
         /\ \A g \in 1..MaxGeneration : tasks[g] # "absent" => tasks'[g] # "absent"
         /\ \A g \in 1..MaxGeneration : tasks[g] = "absent" /\ tasks'[g] # "absent"
               => Sending(d) /\ g = dp[d].generation
  BY DEF DispatchTypeOK, Works, Enqueued

LEMMA EffectsType ==
  ASSUME DispatchTypeOK, Effects, faults' \in 0..MaxFaults
  PROVE  DispatchTypeOK'
  <1>1. CASE Waiting
    BY <1>1 DEF DispatchTypeOK, Waiting, TimePassesOnly
  <1>2. ASSUME NEW d \in Dispatchers, Claims(d)
        PROVE  DispatchTypeOK'
    BY <1>2 DEF DispatchTypeOK, Claims
  <1>3. ASSUME NEW d \in Dispatchers, NEW c \in DpState, Works(d, c)
        PROVE  DispatchTypeOK'
    <2>1. disp' \in DispType /\ dclaims' \in Nat
      BY <1>3 DEF Works, TimePassesOnly, Settles, DispatchTypeOK
    <2> QED
      BY <1>3, <2>1, WorkingFrame DEF DispatchTypeOK
  <1> QED
    BY <1>1, <1>2, <1>3 DEF Effects

-----------------------------------------------------------------------------
(* A dispatcher under way has a token, and a task once its call succeeded. *)
Senders ==
    \A d \in Dispatchers :
        Sending(d) => /\ dp[d].token \in 1..dclaims
                      /\ dp[d].generation \in 1..MaxGeneration
                      /\ dp[d].pc \in {"success", "uncertain"}
                           => tasks[dp[d].generation] # "absent"

(* What makes a record x true of a queue, of n leases granted, and of the  *)
(* calls under way: the task of a record that says so is there, and who    *)
(* has the record's token has its generation.                              *)
Agrees(x, queue, calls, n) ==
    /\ x.generation \in 1..MaxGeneration /\ x.token \in 0..n
    /\ x.status \in {"dispatched", "confirmation_pending"} => queue[x.generation] # "absent"
    /\ \A d \in Dispatchers :
          calls[d].pc \notin {"idle", "claim"} /\ calls[d].token = x.token
            => calls[d].generation = x.generation

(* The stored record and every older one stay true.                        *)
LEMMA EffectsAgree ==
  ASSUME DispatchTypeOK, Effects, Senders, Agrees(disp, tasks, dp, dclaims)
  PROVE  /\ Senders' /\ Agrees(disp', tasks', dp', dclaims')
         /\ \A x \in DispType : Agrees(x, tasks, dp, dclaims)
                                => Agrees(x, tasks', dp', dclaims')
  <1>1. dclaims \in Nat /\ MaxGeneration \in Nat
    BY DispatchAssumption DEF DispatchTypeOK
  <1>2. CASE Waiting
    BY <1>2 DEF Waiting, TimePassesOnly, Senders, Sending, Agrees
  <1>3. ASSUME NEW d \in Dispatchers, Claims(d)
        PROVE  /\ Senders' /\ Agrees(disp', tasks', dp', dclaims')
               /\ \A x \in DispType : Agrees(x, tasks, dp, dclaims)
                                      => Agrees(x, tasks', dp', dclaims')
    <2>1. /\ dclaims' = dclaims + 1 /\ UNCHANGED tasks
          /\ disp'.status = "dispatching" /\ disp'.token = dclaims + 1
          /\ dp'[d].pc = "send" /\ dp'[d].token = dclaims + 1
          /\ dp'[d].generation = disp'.generation
          /\ \A e \in Dispatchers \ {d} : dp'[e] = dp[e]
      BY <1>3 DEF Claims
    <2>2. disp'.generation \in 1..MaxGeneration
      BY <1>1, <1>3 DEF Claims, Agrees
    <2>3. \A e \in Dispatchers \ {d} : Sending(e)' => Sending(e) /\ dp[e].token \in 1..dclaims
      BY <2>1 DEF Sending, Senders
    <2>4. Senders'
      BY <1>1, <2>1, <2>2, <2>3 DEF Senders, Sending
    <2>5. Agrees(disp', tasks', dp', dclaims')
      <3>1. ASSUME NEW e \in Dispatchers, Sending(e)', dp'[e].token = disp'.token
            PROVE  dp'[e].generation = disp'.generation
        BY <1>1, <2>1, <2>3, <3>1
      <3> QED
        BY <1>1, <2>1, <2>2, <3>1 DEF Agrees, Sending
    <2>6. ASSUME NEW x \in DispType, Agrees(x, tasks, dp, dclaims)
          PROVE  Agrees(x, tasks', dp', dclaims')
      <3>1. x.token \in 0..dclaims /\ x.token # dclaims + 1
        BY <1>1, <2>6 DEF Agrees
      <3> QED
        BY <1>1, <2>1, <2>6, <3>1 DEF Agrees
    <2> QED
      BY <2>4, <2>5, <2>6
  <1>4. ASSUME NEW d \in Dispatchers, NEW c \in DpState, Works(d, c)
        PROVE  /\ Senders' /\ Agrees(disp', tasks', dp', dclaims')
               /\ \A x \in DispType : Agrees(x, tasks, dp, dclaims)
                                      => Agrees(x, tasks', dp', dclaims')
    <2>1. /\ dp'[d] = c /\ dclaims' = dclaims
          /\ \A e \in Dispatchers \ {d} : dp'[e] = dp[e]
          /\ \A g \in 1..MaxGeneration : tasks[g] # "absent" => tasks'[g] # "absent"
      BY <1>4, WorkingFrame DEF Works
    <2>2. ASSUME NEW e \in Dispatchers, Sending(e)'
          PROVE  Sending(e) /\ dp'[e].token = dp[e].token
                 /\ dp'[e].generation = dp[e].generation
      BY <1>4, <2>1, <2>2 DEF Works, GoesOn, Waits, Sending
    <2>3. ASSUME NEW e \in Dispatchers, Sending(e)', dp'[e].pc \in {"success", "uncertain"}
          PROVE  tasks'[dp'[e].generation] # "absent"
      <3>1. dp[e].generation \in 1..MaxGeneration /\ dp'[e].generation = dp[e].generation
        BY <2>2, <2>3 DEF Senders
      <3>2. CASE dp[e].pc \in {"success", "uncertain"}
        BY <2>1, <2>2, <2>3, <3>1, <3>2 DEF Senders
      <3>3. CASE dp[e].pc \notin {"success", "uncertain"}
        <4>1. e = d /\ Enqueued(dp[d].generation)
          BY <1>4, <2>1, <2>3, <3>3 DEF Works, GoesOn, Waits
        <4> QED
          BY <3>1, <4>1 DEF Enqueued, DispatchTypeOK
      <3> QED
        BY <3>2, <3>3
    <2>4. Senders'
      BY <2>1, <2>2, <2>3 DEF Senders
    <2>5. ASSUME NEW x \in DispType, Agrees(x, tasks, dp, dclaims)
          PROVE  Agrees(x, tasks', dp', dclaims')
      BY <2>1, <2>2, <2>5 DEF Agrees, Sending
    <2>6. Agrees(disp', tasks', dp', dclaims')
      <3>1. CASE TimePassesOnly
        BY <2>1, <2>2, <3>1 DEF Agrees, Sending, TimePassesOnly
      <3>2. CASE Settles(d)
        <4>1. disp'.status # "failed" => tasks[disp.generation] # "absent"
          BY <3>2 DEF Settles, Holds, Senders, Sending, Agrees
        <4>2. \A e \in Dispatchers : Sending(e)' => dp'[e].token # 0
          BY <2>2 DEF Senders
        <4> QED
          BY <1>1, <2>1, <3>2, <4>1, <4>2 DEF Agrees, Sending, Settles
      <3> QED
        BY <1>4, <3>1, <3>2 DEF Works
    <2> QED
      BY <2>4, <2>5, <2>6
  <1> QED
    BY <1>2, <1>3, <1>4 DEF Effects

-----------------------------------------------------------------------------
(* Where only dispatchers write the record, more holds of it: every lease  *)
(* is one dispatcher's alone ...                                           *)
LeaseTokens ==
    /\ \A d \in Dispatchers : ~Sending(d) => dp[d].token = 0
    /\ \A d, e \in Dispatchers : dp[d].token = dp[e].token /\ dp[d].token # 0 => d = e
    /\ disp.status = "dispatching" => disp.token # 0

(* ... no generation is older than one that was sent ...                   *)
SentGenerations ==
    /\ disp.status # "pending" => disp.generation >= 2
    /\ disp.status = "pending" => ~disp.named
    /\ \A d \in Dispatchers : Sending(d) => dp[d].generation \in 2..disp.generation
    /\ \A g \in 1..MaxGeneration : tasks[g] # "absent" => g \in 2..disp.generation

(* ... and one is begun for the first task, or after a recorded failure.   *)
GenerationsAreSettled ==
    disp.generation <= disp.version + (IF disp.status \in {"pending", "failed"} THEN 0 ELSE 1)

DispatchInvariant ==
    /\ Senders /\ Agrees(disp, tasks, dp, dclaims)
    /\ LeaseTokens /\ SentGenerations /\ GenerationsAreSettled

LEMMA DispatchInitial ==
  ASSUME DispatchInit
  PROVE  DispatchTypeOK /\ DispatchInvariant
  <1>1. NoDispatch \in DpState /\ NoDispatch.token = 0 /\ NoDispatch.pc = "idle"
    BY DEF NoDispatch, DpState, DpSteps
  <1>2. \A d \in Dispatchers : dp[d] = NoDispatch
    BY DEF DispatchInit
  <1>3. dp \in [Dispatchers -> DpState]
    BY <1>1 DEF DispatchInit
  <1>4. DispatchTypeOK
    BY <1>3, DispatchAssumption
       DEF DispatchInit, DispatchTypeOK, DispType, DispStatus, Undispatched
  <1>5. Senders /\ Agrees(disp, tasks, dp, dclaims)
    BY <1>1, <1>2, DispatchAssumption
       DEF DispatchInit, Senders, Agrees, Sending, Undispatched
  <1>6. LeaseTokens /\ SentGenerations /\ GenerationsAreSettled
    BY <1>1, <1>2, DispatchAssumption
       DEF DispatchInit, LeaseTokens, SentGenerations, GenerationsAreSettled, Sending,
           Undispatched
  <1> QED
    BY <1>4, <1>5, <1>6 DEF DispatchInvariant

LEMMA WaitingKeeps ==
  ASSUME DispatchTypeOK, DispatchInvariant, Waiting
  PROVE  LeaseTokens' /\ SentGenerations' /\ GenerationsAreSettled'
  BY DEF DispatchInvariant, Waiting, TimePassesOnly, LeaseTokens, SentGenerations,
         GenerationsAreSettled, Sending

LEMMA ClaimingKeeps ==
  ASSUME DispatchTypeOK, DispatchInvariant, NEW d \in Dispatchers, Claims(d)
  PROVE  LeaseTokens' /\ SentGenerations' /\ GenerationsAreSettled'
  <1>1. /\ dclaims \in Nat /\ MaxGeneration \in Nat /\ disp \in DispType
        /\ disp.generation \in 1..MaxGeneration
    BY DispatchAssumption DEF DispatchTypeOK, DispatchInvariant, Agrees
  <1>2. /\ dclaims' = dclaims + 1 /\ UNCHANGED tasks
        /\ disp'.status = "dispatching" /\ disp'.token = dclaims + 1
        /\ disp'.version = disp.version
        /\ dp'[d].pc = "send" /\ dp'[d].token = dclaims + 1
        /\ dp'[d].generation = disp'.generation
        /\ \A e \in Dispatchers \ {d} : dp'[e] = dp[e]
    BY DEF Claims
  <1>3. \A e \in Dispatchers : dp[e].token \in 0..dclaims
    BY <1>1 DEF DispatchInvariant, LeaseTokens, Senders
  <1>4. LeaseTokens'
    BY <1>1, <1>2, <1>3 DEF DispatchInvariant, LeaseTokens, Sending
  <1>5. disp'.generation \in Nat /\ disp'.generation >= 2
        /\ disp'.generation >= disp.generation
    BY <1>1 DEF Claims, DispatchInvariant, SentGenerations, KeepsGeneration
  <1>6. SentGenerations'
    <2>1. ASSUME NEW e \in Dispatchers, Sending(e)'
          PROVE  dp'[e].generation \in 2..disp'.generation
      BY <1>1, <1>2, <1>5, <2>1 DEF DispatchInvariant, SentGenerations, Sending
    <2>2. \A x \in 1..MaxGeneration : tasks'[x] # "absent" => x \in 2..disp'.generation
      BY <1>1, <1>2, <1>5 DEF DispatchInvariant, SentGenerations
    <2> QED
      BY <1>2, <1>5, <2>1, <2>2 DEF SentGenerations
  <1>7. GenerationsAreSettled'
    <2>1. disp.version \in Nat /\ disp.status \in DispStatus
      BY <1>1 DEF DispType
    <2>2. disp'.generation <= disp.version + 1
      <3>1. CASE disp.status \in {"pending", "failed"}
        BY <1>1, <2>1, <3>1 DEF Claims, DispatchInvariant, GenerationsAreSettled
      <3>2. CASE disp.status \notin {"pending", "failed"}
        <4>1. KeepsGeneration
          BY <2>1, <3>2 DEF Claims, Refused, KeepsGeneration, DispStatus
        <4> QED
          BY <2>1, <3>2, <4>1 DEF Claims, DispatchInvariant, GenerationsAreSettled
      <3> QED
        BY <3>1, <3>2
    <2> QED
      BY <1>2, <2>2 DEF GenerationsAreSettled
  <1> QED
    BY <1>4, <1>6, <1>7

LEMMA WorkingKeeps ==
  ASSUME DispatchTypeOK, DispatchInvariant,
         NEW d \in Dispatchers, NEW c \in DpState, Works(d, c)
  PROVE  LeaseTokens' /\ SentGenerations' /\ GenerationsAreSettled'
  <1>1. /\ dp'[d] = c /\ \A e \in Dispatchers \ {d} : dp'[e] = dp[e]
        /\ \A g \in 1..MaxGeneration : tasks[g] = "absent" /\ tasks'[g] # "absent"
               => Sending(d) /\ g = dp[d].generation
    BY WorkingFrame
  <1>2. disp \in DispType
    BY DEF DispatchTypeOK
  <1>3. /\ disp'.generation = disp.generation
        /\ disp'.status = "dispatching" =>
               disp.status = "dispatching" /\ disp'.token = disp.token
        /\ disp'.status = "pending" => disp.status = "pending" /\ disp'.named = disp.named
        /\ disp.status = "pending" => disp'.status = "pending"
    BY DEF Works, TimePassesOnly, Settles, Holds
  <1>4. LeaseTokens'
    <2>1. ASSUME NEW e \in Dispatchers
          PROVE  /\ ~Sending(e)' => dp'[e].token = 0
                 /\ dp'[e].token \in {0, dp[e].token}
      BY <1>1 DEF Works, GoesOn, Waits, DispatchInvariant, LeaseTokens, Sending
    <2>2. \A e, f \in Dispatchers : dp'[e].token = dp'[f].token /\ dp'[e].token # 0 => e = f
      BY <2>1 DEF DispatchInvariant, LeaseTokens
    <2> QED
      BY <1>3, <2>1, <2>2 DEF DispatchInvariant, LeaseTokens
  <1>5. SentGenerations'
    <2>1. ASSUME NEW e \in Dispatchers, Sending(e)'
          PROVE  dp'[e].generation \in 2..disp.generation
      BY <1>1, <2>1 DEF Works, GoesOn, Waits, DispatchInvariant, SentGenerations, Sending
    <2>2. \A g \in 1..MaxGeneration : tasks'[g] # "absent" => g \in 2..disp.generation
      BY <1>1 DEF DispatchInvariant, SentGenerations
    <2> QED
      BY <1>3, <2>1, <2>2 DEF DispatchInvariant, SentGenerations
  <1>6. GenerationsAreSettled'
    BY <1>2 DEF Works, TimePassesOnly, Settles, Holds, DispatchInvariant,
                GenerationsAreSettled, DispType
  <1> QED
    BY <1>4, <1>5, <1>6

LEMMA DispatchStepKeeps ==
  ASSUME DispatchTypeOK, DispatchInvariant, [DispatchNext]_dvars
  PROVE  DispatchTypeOK' /\ DispatchInvariant'
  <1>1. Effects /\ DispatchTypeOK'
    BY StepEffects, EffectsType
  <1>2. Senders' /\ Agrees(disp, tasks, dp, dclaims)'
    BY <1>1, EffectsAgree DEF DispatchInvariant
  <1>3. LeaseTokens' /\ SentGenerations' /\ GenerationsAreSettled'
    BY <1>1, WaitingKeeps, ClaimingKeeps, WorkingKeeps DEF Effects
  <1> QED
    BY <1>1, <1>2, <1>3 DEF DispatchInvariant

-----------------------------------------------------------------------------
LEMMA DispatchCorrect == DispatchSpec => [](DispatchTypeOK /\ DispatchInvariant)
  <1>1. DispatchInit => DispatchTypeOK /\ DispatchInvariant
    BY DispatchInitial
  <1>2. DispatchTypeOK /\ DispatchInvariant /\ [DispatchNext]_dvars
          => (DispatchTypeOK /\ DispatchInvariant)'
    BY DispatchStepKeeps
  <1> QED
    BY <1>1, <1>2, PTL DEF DispatchSpec

(* Every variable of the dispatch stays in its type.                       *)
THEOREM DispatchTypeCorrect == DispatchSpec => []DispatchTypeOK
  BY DispatchCorrect, PTL

(* However claims, expired leases and recoveries interleave, no two        *)
(* dispatchers can have their results recorded.                            *)
THEOREM OneHolder == DispatchSpec => []OneDispatcherHolds
  <1>1. DispatchTypeOK /\ DispatchInvariant => OneDispatcherHolds
    BY DEF DispatchInvariant, LeaseTokens, Holds, OneDispatcherHolds
  <1> QED
    BY <1>1, DispatchCorrect, PTL

(* A record that calls its action dispatched, or in doubt, has its task.   *)
THEOREM RecordsTellTheTruth == DispatchSpec => []RecordedTaskExists
  <1>1. DispatchTypeOK /\ DispatchInvariant => RecordedTaskExists
    BY DEF DispatchInvariant, Agrees, RecordedTaskExists
  <1> QED
    BY <1>1, DispatchCorrect, PTL

(* The tasks of an action are no more than the recorded ends of its        *)
(* dispatch, and one: whatever died or timed out in between enqueued its   *)
(* task under a name that was used again.                                  *)
THEOREM DuplicatesAreBounded == DispatchSpec => []DuplicatesNeedFailures
  <1>1. ASSUME DispatchTypeOK, DispatchInvariant PROVE DuplicatesNeedFailures
    <2>1. disp.generation \in 1..MaxGeneration /\ disp.version \in Nat
          /\ MaxGeneration \in Nat
      BY <1>1, DispatchAssumption
         DEF DispatchTypeOK, DispType, DispatchInvariant, Agrees
    <2>2. Enqueues \subseteq 2..disp.generation
      BY <1>1 DEF Enqueues, DispatchTypeOK, DispatchInvariant, SentGenerations
    <2>3. IsFiniteSet(2..disp.generation)
          /\ Cardinality(2..disp.generation) = disp.generation - 1
      <3>1. 2 \in Int /\ disp.generation \in Int
        BY <2>1
      <3>2. /\ IsFiniteSet(2..disp.generation)
            /\ Cardinality(2..disp.generation)
                 = IF 2 > disp.generation THEN 0 ELSE disp.generation - 2 + 1
        BY <3>1, FS_Interval
      <3> QED
        BY <2>1, <3>2
    <2>4. Cardinality(Enqueues) <= disp.generation - 1
      BY <2>2, <2>3, FS_Subset
    <2>5. Cardinality(Enqueues) \in Nat
      BY <2>2, <2>3, FS_Subset, FS_CardinalityType
    <2>6. disp.generation - 1 <= disp.version
      BY <1>1, <2>1 DEF DispatchInvariant, GenerationsAreSettled
    <2> QED
      BY <2>1, <2>4, <2>5, <2>6 DEF DuplicatesNeedFailures
  <1> QED
    BY <1>1, DispatchCorrect, PTL
=============================================================================
