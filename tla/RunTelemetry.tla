---------------------------- MODULE RunTelemetry ----------------------------
(***************************************************************************)
(* The telemetry status of one Run: the worker that ends the Run marks its *)
(* trace as exporting, and verifications (services/telemetry_service.py),  *)
(* asked for by users or by the reconciler, take a lease on the Run, query *)
(* the tracing backend, and decide from what they are given.  Spans arrive *)
(* at the backend late, one after the other, or not at all.  The fence by  *)
(* telemetry_generation is implied by that by the token: every update      *)
(* advances the one and clears the other.                                  *)
(***************************************************************************)
EXTENDS Naturals

CONSTANTS
    Verifiers,    \* calls of verify_run_telemetry that may be under way
    MaxAttempts,  \* TELEMETRY_VERIFICATION_MAX_ATTEMPTS
    Configured,   \* is a tracing backend configured
    None,         \* nobody
    MaxTroubles   \* bound on the calls that die or outlive their lease

ASSUME TelemetryAssumption ==
    /\ MaxAttempts \in Nat \ {0} /\ MaxTroubles \in Nat
    /\ Configured \in BOOLEAN /\ None \notin Verifiers

VARIABLES
    run,    \* the telemetry half of runs/<id>
    trace,  \* what the tracing backend holds of the Run
    ver,    \* local state of every verification
    troubles

tvars == <<run, trace, ver, troubles>>

TelemetryStatus == {"not_instrumented", "exporting", "delayed", "available", "unavailable"}
Pending == {"exporting", "delayed"}

(* A whole trace has an authentic execution node: trace, tenant and Run    *)
(* agree.  A partial one has spans, and none of that kind yet.             *)
Traces == {"absent", "partial", "whole", "foreign"}

(* The time since telemetry_last_checked_at: below one second, below the   *)
(* throttle, below the cooldown of a terminal status, and more.            *)
Ages == 0..3
Cooled == 3

RunHalf == [status: TelemetryStatus, attempts: Nat, holder: Verifiers \cup {None},
            live: BOOLEAN, wait: BOOLEAN, age: Ages, ended: BOOLEAN, dated: BOOLEAN]
Verifier == [pc: {"idle", "claim", "query", "update"}, force: BOOLEAN, tried: Nat,
             saw: Traces \cup {"error"}, late: BOOLEAN]
Resting == [pc |-> "idle", force |-> FALSE, tried |-> 0, saw |-> "absent", late |-> FALSE]

Stop(v) == ver' = [ver EXCEPT ![v] = Resting]

(* Operators marked "mutant" stand for a bug in the definition after them  *)
(* and are used by no specification; PROJECT.json lists what each breaks.  *)

-----------------------------------------------------------------------------
(* The worker ends the Run.  Its compare-and-swap copies the status and    *)
(* leaves attempts, lease and backoff as verifications made them meanwhile *)
(* and the beginning of the export unset; where that fails, the whole Run  *)
(* is saved over what is there.                                            *)
Initial == IF Configured THEN "exporting" ELSE "unavailable"

EndRun ==
    /\ ~run.ended
    /\ run' = [run EXCEPT !.status = Initial, !.ended = TRUE]
    /\ UNCHANGED <<trace, ver, troubles>>

SaveRun ==
    /\ ~run.ended
    /\ run' = [status |-> Initial, attempts |-> 0, holder |-> None, live |-> FALSE,
               wait |-> FALSE, age |-> Cooled, ended |-> TRUE, dated |-> TRUE]
    /\ UNCHANGED <<trace, ver, troubles>>

SpansArrive ==
    /\ \/ trace = "absent" /\ trace' \in {"partial", "foreign"}
       \/ trace = "partial" /\ trace' = "whole"
    /\ UNCHANGED <<run, ver, troubles>>

-----------------------------------------------------------------------------
(* A call reads the Run and asks no more of one that is decided.           *)
Verify(v, force) ==
    /\ ver[v].pc = "idle"
    /\ run.status # "available" /\ (run.status = "unavailable" => force)
    /\ ver' = [ver EXCEPT ![v].pc = "claim", ![v].force = force]
    /\ UNCHANGED <<run, trace, troubles>>

Reconcile(v) ==
    /\ run.status \in Pending /\ ~run.live /\ ~run.wait
    /\ Verify(v, FALSE)

(* Mutant: the budget is spent one attempt early.                          *)
TerminalEarly == run.status = "unavailable" \/ run.attempts + 1 >= MaxAttempts

Terminal == run.status = "unavailable" \/ run.attempts >= MaxAttempts

(* claim_run_telemetry_verification: lease, floor, backoff, and for a      *)
(* decided or spent Run the cooldown and the force of the caller.          *)
Granted(force) ==
    /\ run.status # "available"
    /\ Terminal => force /\ run.age >= Cooled
    /\ ~run.live
    /\ run.age >= (IF force THEN 1 ELSE 2)
    /\ run.wait => force

Claim(v) ==
    LET tried == IF Terminal THEN 0 ELSE run.attempts IN
    /\ ver[v].pc = "claim"
    /\ IF Granted(ver[v].force)
       THEN /\ run' = [run EXCEPT !.attempts = tried, !.holder = v, !.live = TRUE, !.age = 0]
            /\ ver' = [ver EXCEPT ![v].pc = "query", ![v].tried = tried]
       ELSE Stop(v) /\ UNCHANGED run
    /\ UNCHANGED <<trace, troubles>>

(* The backend answers or fails; without one there is nothing to ask.  The *)
(* grace period is counted from the beginning of the export, or, where     *)
(* that is unset, from the claim itself, so that it never ends.            *)
Query(v) ==
    /\ ver[v].pc = "query"
    /\ \E saw \in {trace, "error"} :
       \E late \in {FALSE, run.dated} :
           ver' = [ver EXCEPT ![v].pc = "update", ![v].saw = saw, ![v].late = late]
    /\ UNCHANGED <<run, trace, troubles>>

(* Mutant: spans that match no execution node are as good as ones that do. *)
OutcomeOnSight(v) ==
    CASE ver[v].saw \in {"whole", "partial"} -> "available"
      [] ver[v].saw = "foreign" -> "unavailable"
      [] OTHER -> IF ver[v].tried + 1 >= MaxAttempts THEN "unavailable" ELSE "delayed"

Outcome(v) ==
    CASE ~Configured -> "unavailable"
      [] Configured /\ ver[v].saw = "whole" -> "available"
      [] Configured /\ ver[v].saw \in {"partial", "foreign"} -> "unavailable"
      [] OTHER -> IF ver[v].tried + 1 >= MaxAttempts \/ ver[v].late
                  THEN "unavailable" ELSE "delayed"

(* Mutant: the lease is not compared with the caller.                      *)
FencedByTrace(v) == TRUE

Fenced(v) == run.holder = v /\ run.live

Update(v) ==
    /\ ver[v].pc = "update"
    /\ run' = IF Fenced(v)
              THEN [run EXCEPT !.status = Outcome(v), !.attempts = @ + 1, !.holder = None,
                        !.live = FALSE, !.wait = Outcome(v) = "delayed", !.age = 0]
              ELSE run
    /\ Stop(v)
    /\ UNCHANGED <<trace, troubles>>

Advance(v) == Claim(v) \/ Query(v) \/ Update(v)

-----------------------------------------------------------------------------
(* A verification dies or raises; the lease it had is nobody's.            *)
Die(v) ==
    /\ ver[v].pc # "idle" /\ troubles < MaxTroubles
    /\ Stop(v)
    /\ run' = IF run.holder = v THEN [run EXCEPT !.holder = None] ELSE run
    /\ troubles' = troubles + 1
    /\ UNCHANGED trace

LeaseExpires ==
    /\ run.live
    /\ IF run.holder = None THEN UNCHANGED troubles
       ELSE troubles < MaxTroubles /\ troubles' = troubles + 1
    /\ run' = [run EXCEPT !.live = FALSE]
    /\ UNCHANGED <<trace, ver>>

TimePasses ==
    /\ run.age < Cooled
    /\ run' = [run EXCEPT !.age = @ + 1]
    /\ UNCHANGED <<trace, ver, troubles>>

BackoffElapses ==
    /\ run.wait
    /\ run' = [run EXCEPT !.wait = FALSE]
    /\ UNCHANGED <<trace, ver, troubles>>

Init ==
    /\ run = [status |-> "not_instrumented", attempts |-> 0, holder |-> None, live |-> FALSE,
              wait |-> FALSE, age |-> Cooled, ended |-> FALSE, dated |-> FALSE]
    /\ trace = "absent"
    /\ ver = [v \in Verifiers |-> Resting]
    /\ troubles = 0

Next ==
    \/ EndRun \/ SaveRun \/ SpansArrive
    \/ \E v \in Verifiers :
           \/ \E force \in BOOLEAN : Verify(v, force)
           \/ Reconcile(v) \/ Advance(v) \/ Die(v)
    \/ LeaseExpires \/ TimePasses \/ BackoffElapses

Spec == Init /\ [][Next]_tvars

(* The reconciler lists a pending Run again and again (TelemetryScan), a   *)
(* call goes on unless it dies, and time passes.                           *)
Fairness ==
    /\ WF_tvars(\E v \in Verifiers : Reconcile(v))
    /\ \A v \in Verifiers : WF_tvars(Advance(v))
    /\ WF_tvars(run.holder = None /\ LeaseExpires)
    /\ WF_tvars(TimePasses) /\ WF_tvars(BackoffElapses)

FairSpec == Spec /\ Fairness

-----------------------------------------------------------------------------
TelemetryTypeOK ==
    /\ run \in RunHalf /\ trace \in Traces
    /\ ver \in [Verifiers -> Verifier]
    /\ troubles \in 0..MaxTroubles

(* "Only set to 'available' after verifying the real trace exists and      *)
(* matches both the tenant hash and Run ID."                               *)
AvailableIsAuthentic == run.status = "available" => trace = "whole"

(* Once available a Run stays so, whatever a verification that lost its    *)
(* lease had seen; only the end of the Run opens the question again.       *)
AvailableStands ==
    [][run.status = "available" => run'.status = "available" \/ run'.ended # run.ended]_tvars

(* A pending Run with attempts left is decided, whoever died with the      *)
(* lease, and whatever the backend answers.                                *)
PendingIsDecided ==
    run.ended /\ run.status \in Pending /\ run.attempts < MaxAttempts ~> run.status \notin Pending

-----------------------------------------------------------------------------
(* What one might expect besides and the code does not give: a Run that    *)
(* was verified max_attempts times before it ended is exporting for ever,  *)
(* as the reconciler, which never forces, is refused the claim.            *)
EndedIsDecided == run.ended ~> run.status \notin Pending
=============================================================================
