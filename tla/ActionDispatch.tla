--------------------------- MODULE ActionDispatch ---------------------------
(***************************************************************************)
(* The dispatch half of an action record: how a confirmed action gets into *)
(* the Cloud Tasks queue.  A dispatcher is a call of the confirm route     *)
(* (api/chat_routes.py) or one row of reclaim_pending_dispatches           *)
(* (services/deliverable_service.py).  Each claims the dispatch, enqueues  *)
(* a task whose name is drawn from the dispatch generation, and records    *)
(* what became of it; each of the three calls is atomic, and the           *)
(* dispatchers interleave between them.                                    *)
(*                                                                         *)
(* A record, its tasks and their queue are shared with ActionExecution.    *)
(***************************************************************************)
EXTENDS Naturals, FiniteSets

CONSTANTS
    Confirmers,     \* concurrent calls of confirm_action_proposal
    Recoverers,     \* concurrent rows of reclaim_pending_dispatches
    Backend,        \* "firestore" or "memory"
    MaxGeneration,  \* bound: highest generation that names a task
    MaxFaults       \* bound on failed calls, deaths and expired leases

ASSUME DispatchAssumption ==
    /\ Backend \in {"firestore", "memory"}
    /\ MaxGeneration \in Nat \ {0, 1}
    /\ MaxFaults \in Nat

VARIABLES
    exec,     \* the execution half of the record: only its status is read here
    disp,     \* the dispatch half
    tasks,    \* the queue: one deduplicating task name per generation
    dp,       \* local state of every dispatcher
    dclaims,  \* dispatch leases granted so far: the source of fresh tokens
    faults    \* faults so far

dvars == <<exec, disp, tasks, dp, dclaims, faults>>

Dispatchers == Confirmers \cup Recoverers

DispStatus == {"pending", "dispatching", "dispatched", "confirmation_pending", "failed"}
DispType == [status: DispStatus, version: Nat, generation: Nat, token: Nat,
             live: BOOLEAN, wait: BOOLEAN, named: BOOLEAN]

(* dispatch_status, dispatch_version, dispatch_generation,                 *)
(* dispatch_lease_token, dispatch_lease_until > now, next_dispatch_at > now *)
(* and task_name # None of a new record.                                   *)
Undispatched == [status |-> "pending", version |-> 1, generation |-> 1, token |-> 0,
                 live |-> FALSE, wait |-> FALSE, named |-> FALSE]

DpSteps == {"idle", "claim", "send", "success", "failure", "uncertain"}
DpState == [pc: DpSteps, token: Nat, version: Nat, generation: Nat]
NoDispatch == [pc |-> "idle", token |-> 0, version |-> 0, generation |-> 0]

DGoto(d, step) == dp' = [dp EXCEPT ![d].pc = step]
Leaves(d) == dp' = [dp EXCEPT ![d] = NoDispatch]
Fault == faults < MaxFaults /\ faults' = faults + 1

(* Operators marked "mutant" stand for a bug in the definition after them  *)
(* and are used by no specification; PROJECT.json lists what each breaks.  *)

(* Mutant: the dispatch token is not compared.                             *)
HoldsWithoutToken(d) ==
    disp.status = "dispatching" /\ disp.live /\ disp.version = dp[d].version

(* Every record_* and mark_* call is accepted under the same fence.        *)
Holds(d) ==
    /\ disp.status = "dispatching"
    /\ disp.token = dp[d].token
    /\ disp.live
    /\ disp.version = dp[d].version

Settle(status, waits, names) ==
    disp' = [disp EXCEPT !.status = status, !.token = 0, !.live = FALSE,
                         !.version = @ + 1, !.wait = waits,
                         !.named = @ \/ names]

-----------------------------------------------------------------------------
(* A confirm call finds the record undispatched, or in doubt.              *)
Confirm(d) ==
    /\ d \in Confirmers
    /\ dp[d].pc = "idle"
    /\ disp.status \in {"pending", "failed", "confirmation_pending"}
    /\ DGoto(d, "claim")
    /\ UNCHANGED <<exec, disp, tasks, dclaims, faults>>

(* Mutant: a dispatch whose holder died is not listed.                     *)
OverdueUnlessDispatching ==
    \/ disp.status = "failed" /\ ~disp.wait
    \/ disp.status = "pending"

Overdue ==
    \/ disp.status = "failed" /\ ~disp.wait
    \/ disp.status = "dispatching" /\ ~disp.live
    \/ disp.status = "pending"

(* The recoverer lists the actions that still wait for a worker and whose  *)
(* dispatch failed, timed out, or never began.                             *)
ListUndispatched(d) ==
    /\ d \in Recoverers
    /\ dp[d].pc = "idle"
    /\ exec.status = "pending"
    /\ Overdue
    /\ DGoto(d, "claim")
    /\ UNCHANGED <<exec, disp, tasks, dclaims, faults>>

(* claim_action_dispatch refuses a dispatched action, a live dispatch, and *)
(* a failed or doubtful one that backs off.                                *)
Refused ==
    \/ disp.status = "dispatched"
    \/ disp.status = "dispatching" /\ disp.live
    \/ disp.status \in {"failed", "confirmation_pending"} /\ disp.wait

(* Mutant: taking over a dead dispatch begins a new generation.            *)
KeepsGenerationInDoubt ==
    \/ disp.status = "confirmation_pending"
    \/ Backend = "firestore" /\ disp.named

(* A dispatch that may already have enqueued its task keeps its            *)
(* generation, so that a second create_task meets AlreadyExists.           *)
KeepsGeneration ==
    \/ disp.status \in {"dispatching", "confirmation_pending"}
    \/ Backend = "firestore" /\ disp.named

ClaimDispatch(d) ==
    /\ dp[d].pc = "claim"
    /\ ~Refused
    /\ KeepsGeneration \/ disp.generation < MaxGeneration
    /\ dclaims' = dclaims + 1
    /\ disp' = [disp EXCEPT !.status = "dispatching", !.live = TRUE,
                            !.token = dclaims + 1,
                            !.generation = IF KeepsGeneration THEN @ ELSE @ + 1]
    /\ dp' = [dp EXCEPT ![d] = [pc |-> "send", token |-> dclaims + 1,
                                version |-> disp.version,
                                generation |-> disp'.generation]]
    /\ UNCHANGED <<exec, tasks, faults>>

ClaimDispatchRefused(d) ==
    /\ dp[d].pc = "claim"
    /\ Refused
    /\ Leaves(d)
    /\ UNCHANGED <<exec, disp, tasks, dclaims, faults>>

(* create_task; AlreadyExists is absorbed as success.                      *)
Enqueued(g) == tasks' = [tasks EXCEPT ![g] = IF @ = "absent" THEN "queued" ELSE @]

DispatchAction(d) ==
    /\ dp[d].pc = "send"
    /\ Enqueued(dp[d].generation)
    /\ DGoto(d, "success")
    /\ UNCHANGED <<exec, disp, dclaims, faults>>

(* Mutant: an error of the call is swallowed.                              *)
DispatchErrorSwallowed(d) ==
    /\ dp[d].pc = "send"
    /\ Fault
    /\ DGoto(d, "success")
    /\ UNCHANGED <<exec, disp, tasks, dclaims>>

(* The call raises, with or without having enqueued the task.              *)
DispatchRaises(d) ==
    /\ dp[d].pc = "send"
    /\ Fault
    /\ Enqueued(dp[d].generation) \/ UNCHANGED tasks
    /\ DGoto(d, "failure")
    /\ UNCHANGED <<exec, disp, dclaims>>

(* The recoverer marks a refused success uncertain, the confirm route does *)
(* not look at the answer.                                                 *)
RecordSuccess(d) ==
    /\ dp[d].pc = "success"
    /\ IF Holds(d)
       THEN Settle("dispatched", disp.wait, TRUE) /\ Leaves(d)
       ELSE /\ IF d \in Recoverers THEN DGoto(d, "uncertain") ELSE Leaves(d)
            /\ UNCHANGED disp
    /\ UNCHANGED <<exec, tasks, dclaims, faults>>

(* The store raises, with or without having committed.                     *)
RecordSuccessRaises(d) ==
    /\ dp[d].pc = "success"
    /\ Fault
    /\ \/ Holds(d) /\ Settle("dispatched", disp.wait, TRUE)
       \/ UNCHANGED disp
    /\ DGoto(d, "uncertain")
    /\ UNCHANGED <<exec, tasks, dclaims>>

(* Mutant: a status that DispatchStatus does not have.                     *)
MarkUnknown(d) ==
    /\ dp[d].pc = "uncertain"
    /\ IF Holds(d) THEN Settle("unknown", FALSE, TRUE) ELSE UNCHANGED disp
    /\ Leaves(d)
    /\ UNCHANGED <<exec, tasks, dclaims, faults>>

(* Firestore backs off five seconds, MemoryStore not at all.               *)
MarkUncertain(d) ==
    /\ dp[d].pc = "uncertain"
    /\ IF Holds(d)
       THEN Settle("confirmation_pending", Backend = "firestore", TRUE)
       ELSE UNCHANGED disp
    /\ Leaves(d)
    /\ UNCHANGED <<exec, tasks, dclaims, faults>>

RecordFailure(d) ==
    /\ dp[d].pc = "failure"
    /\ IF Holds(d) THEN Settle("failed", TRUE, FALSE) ELSE UNCHANGED disp
    /\ Leaves(d)
    /\ UNCHANGED <<exec, tasks, dclaims, faults>>

(* The dispatcher dies, or its last resort raises as well: the record is   *)
(* left DISPATCHING for lease-based recovery.                              *)
DispatcherStops(d) ==
    /\ dp[d].pc \notin {"idle"}
    /\ Fault
    /\ Leaves(d)
    /\ UNCHANGED <<exec, disp, tasks, dclaims>>

DispatchLeaseExpires ==
    /\ disp.live
    /\ Fault
    /\ disp' = [disp EXCEPT !.live = FALSE]
    /\ UNCHANGED <<exec, tasks, dp, dclaims>>

(* A lease whose dispatcher is gone runs out; nobody is raced by that.     *)
AbandonedLeaseExpires ==
    /\ disp.live
    /\ \A d \in Dispatchers : dp[d].token # disp.token
    /\ disp' = [disp EXCEPT !.live = FALSE]
    /\ UNCHANGED <<exec, tasks, dp, dclaims, faults>>

DispatchBackoffElapses ==
    /\ disp.wait
    /\ disp' = [disp EXCEPT !.wait = FALSE]
    /\ UNCHANGED <<exec, tasks, dp, dclaims, faults>>

-----------------------------------------------------------------------------
(* The record has just been created by a confirm call.                     *)
DispatchInit ==
    /\ exec = [status |-> "pending"]
    /\ disp = Undispatched
    /\ tasks = [g \in 1..MaxGeneration |-> "absent"]
    /\ dp = [d \in Dispatchers |-> NoDispatch]
    /\ dclaims = 0
    /\ faults = 0

DispatchProceeds(d) ==
    \/ ClaimDispatch(d) \/ ClaimDispatchRefused(d) \/ DispatchAction(d)
    \/ RecordSuccess(d) \/ MarkUncertain(d) \/ RecordFailure(d)

DispatchNext ==
    \/ \E d \in Dispatchers :
          \/ Confirm(d) \/ ListUndispatched(d) \/ DispatchProceeds(d)
          \/ DispatchRaises(d) \/ RecordSuccessRaises(d) \/ DispatcherStops(d)
    \/ DispatchLeaseExpires \/ AbandonedLeaseExpires \/ DispatchBackoffElapses

DispatchSpec == DispatchInit /\ [][DispatchNext]_dvars

(* A dispatcher goes on, the maintenance endpoint keeps calling the        *)
(* recoverer, and time passes.  No user confirms again.                    *)
DispatchFairness ==
    /\ \A d \in Dispatchers : WF_dvars(DispatchProceeds(d))
    /\ \A d \in Recoverers : WF_dvars(ListUndispatched(d))
    /\ WF_dvars(AbandonedLeaseExpires)
    /\ WF_dvars(DispatchBackoffElapses)

FairDispatchSpec == DispatchSpec /\ DispatchFairness

-----------------------------------------------------------------------------
(* Every variable stays in its type.                                       *)
DispatchTypeOK ==
    /\ disp \in DispType
    /\ tasks \in [1..MaxGeneration -> {"absent", "queued", "done"}]
    /\ dp \in [Dispatchers -> DpState]
    /\ dclaims \in Nat
    /\ faults \in 0..MaxFaults

(* A record that says its task was enqueued, or may have been, tells the   *)
(* truth: the task named by its generation is in the queue or was.         *)
RecordedTaskExists ==
    disp.status \in {"dispatched", "confirmation_pending"}
        => tasks[disp.generation] # "absent"

(* At most one dispatcher holds the dispatch fence at a time.              *)
OneDispatcherHolds ==
    \A d, e \in Dispatchers :
        dp[d].pc # "idle" /\ dp[e].pc # "idle" /\ Holds(d) /\ Holds(e) => d = e

(* Duplicate tasks come from recorded ends of a dispatch alone: races of   *)
(* dispatchers, deaths and expired leases are absorbed by the task name.   *)
(* (dispatch_version counts the ends that were recorded.)                  *)
Enqueues == {g \in DOMAIN tasks : tasks[g] # "absent"}

DuplicatesNeedFailures == Cardinality(Enqueues) <= disp.version

(* A confirmed action gets into the queue, whatever dies on the way.       *)
ConfirmedIsEnqueued == <>(Enqueues # {})
=============================================================================
