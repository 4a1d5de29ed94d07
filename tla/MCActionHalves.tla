--------------------------- MODULE MCActionHalves ---------------------------
(***************************************************************************)
(* The two halves of an action, each on its own: the dispatchers that put  *)
(* it into the queue (Firestore), or one worker at a time that executes it *)
(* against MemoryStore.  "half" names the one that moves; ActionLifecycle  *)
(* has both at once, without liveness.                                     *)
(***************************************************************************)
EXTENDS ActionDispatch, TLC

CONSTANTS c1, c2, r1, r2, w1

TwoConfirmers == {c1, c2}
TwoRecoverers == {r1, r2}

VARIABLES half, run, art, wk, scan, claims

Execution == INSTANCE ActionExecution
    WITH Workers <- {w1}, Backend <- "memory", Critical <- FALSE,
         MaxAttempts <- 2, MaxVersion <- 3, MaxGeneration <- 2

xvars == <<run, art, wk, scan, claims>>
hvars == <<half, dvars, xvars>>

HalvesInit ==
    \/ /\ half = "dispatch" /\ DispatchInit
       /\ run = Execution!NoRun /\ art = Execution!NoArt
       /\ wk = <<>> /\ scan = {} /\ claims = 0
    \/ /\ half = "execution" /\ Execution!Init
       /\ dp = [d \in Dispatchers |-> NoDispatch]
       /\ dclaims = 0 /\ faults = 0

HalvesNext ==
    /\ UNCHANGED half
    /\ \/ half = "dispatch" /\ DispatchNext /\ UNCHANGED xvars
       \/ half = "execution" /\ Execution!Next /\ UNCHANGED <<dp, dclaims, faults>>

(* DispatchFairness, while the dispatchers are what moves.                 *)
DispatcherFairness ==
    /\ \A d \in Dispatchers : WF_dvars(half = "dispatch" /\ DispatchProceeds(d))
    /\ \A d \in Recoverers : WF_dvars(half = "dispatch" /\ ListUndispatched(d))
    /\ WF_dvars(half = "dispatch" /\ AbandonedLeaseExpires)
    /\ WF_dvars(half = "dispatch" /\ DispatchBackoffElapses)

(* Fairness of ActionExecution, while the worker and the reclaimer move.   *)
evars == <<exec, disp, tasks, xvars>>
WorkerFairness ==
    /\ WF_evars(half = "execution" /\ Execution!Deliver(w1))
    /\ WF_evars(half = "execution" /\ Execution!Proceed(w1))
    /\ WF_evars(half = "execution" /\ Execution!HeartbeatLate(w1))
    /\ WF_evars(half = "execution" /\ Execution!Unattended /\ Execution!LeaseExpires)
    /\ WF_evars(half = "execution" /\ Execution!BackoffElapses)
    /\ WF_evars(half = "execution" /\ Execution!ListStalled)
    /\ \A t \in 1..2 :
          SF_evars(half = "execution" /\ \E s \in scan : s.token = t /\ Execution!Recover(s))

HalvesSpec ==
    HalvesInit /\ [][HalvesNext]_hvars /\ DispatcherFairness /\ WorkerFairness

-----------------------------------------------------------------------------
(* An execution whose lease ran out leaves that state (the reclaimer       *)
(* reclaim_stalled_action_executions), under its name in ActionExecution.  *)
StalledIsReclaimed == Execution!StalledIsReclaimed
=============================================================================
