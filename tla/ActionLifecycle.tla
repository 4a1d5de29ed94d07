-------------------------- MODULE ActionLifecycle --------------------------
(***************************************************************************)
(* An action from its confirmation to its outcome: the dispatchers of      *)
(* ActionDispatch and the workers and reclaimer of ActionExecution share   *)
(* one action_executions record and one task queue.  Neither half of the   *)
(* record fences the other: dispatch calls do not advance state_version,   *)
(* and a worker writes the whole record it was handed when it claimed.     *)
(***************************************************************************)
EXTENDS ActionExecution

CONSTANTS
    Confirmers,     \* concurrent calls of confirm_action_proposal
    Recoverers,     \* concurrent rows of reclaim_pending_dispatches
    MaxFaults       \* bound on the dispatchers' faults

ASSUME LifecycleAssumption == MaxFaults \in Nat

VARIABLES dp, dclaims, faults   \* of the dispatchers

Dispatch == INSTANCE ActionDispatch

lvars == <<exec, disp, run, art, tasks, wk, scan, claims, dp, dclaims, faults>>

(* The confirm route has just created the record.                          *)
LifecycleInit ==
    /\ exec = Created
    /\ disp = Dispatch!Undispatched
    /\ run = NoRun
    /\ art = NoArt
    /\ tasks = [g \in 1..MaxGeneration |-> "absent"]
    /\ wk = [w \in Workers |-> Idle]
    /\ scan = {}
    /\ claims = 0
    /\ dp = [d \in Dispatch!Dispatchers |-> Dispatch!NoDispatch]
    /\ dclaims = 0
    /\ faults = 0

Execute == Next /\ UNCHANGED <<dp, dclaims, faults>>

(* dispatch_lease_until is an instant: when it passes, it passes for the   *)
(* record and for the copies of it that workers hold.                      *)
ExpiresNow == disp.live /\ disp' = [disp EXCEPT !.live = FALSE]

Dispense ==
    /\ Dispatch!DispatchNext
    /\ wk' = [w \in Workers |->
                IF ExpiresNow /\ wk[w].disp.token = disp.token
                THEN [wk[w] EXCEPT !.disp.live = FALSE] ELSE wk[w]]
    /\ UNCHANGED <<run, art, scan, claims>>

LifecycleNext == Execute \/ Dispense

LifecycleSpec == LifecycleInit /\ [][LifecycleNext]_lvars

-----------------------------------------------------------------------------
(* However the queue was filled, the deliverable is generated under at     *)
(* most max_attempts leases (ActionExecution's bound, with every duplicate *)
(* task that the dispatchers can produce).                                 *)
LeasesStayBounded == claims <= MaxAttempts

(* A record that says its task was enqueued tells the truth, although      *)
(* workers write the dispatch half back from older copies.                 *)
RecordTellsTheQueue == Dispatch!RecordedTaskExists

(* A recovery claim preserves the generation and nothing lowers it: a      *)
(* dispatched action is not dispatched again.                              *)
DispatchedStaysDispatched ==
    [][disp.status = "dispatched"
          => disp'.status = "dispatched" /\ disp'.generation >= disp.generation]_lvars
=============================================================================
