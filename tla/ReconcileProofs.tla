--------------------------- MODULE ReconcileProofs ---------------------------
(***************************************************************************)
(* Proofs about what the maintenance cycle drives.                         *)
(*                                                                         *)
(* RunTelemetry, for every set of verifications, with or without a tracing *)
(* backend: who says "available" has seen the whole trace, and no late     *)
(* verification takes it back.  TelemetryTypeOK is inductive by itself,    *)
(* and TelemetryInvariant given it: an available Run has no live lease, so *)
(* that nobody passes the fence.                                           *)
(*                                                                         *)
(* SandboxCleanup, for every set of calls, number of collections, set of   *)
(* documents and page size: what outlives a sandbox came late, and bytes   *)
(* go before their records (TeardownInvariant).                            *)
(***************************************************************************)
EXTENDS RunTelemetry, SandboxCleanup, TLAPS

LEMMA OutcomeIsStatus ==
  ASSUME NEW v \in Verifiers
  PROVE  Outcome(v) \in {"available", "unavailable", "delayed"}
  <1>1. CASE ~Configured
    BY <1>1 DEF Outcome
  <1>2. CASE Configured /\ ver[v].saw \in {"whole", "partial", "foreign"}
    BY <1>2 DEF Outcome
  <1>3. CASE Configured /\ ver[v].saw \notin {"whole", "partial", "foreign"}
    BY <1>3 DEF Outcome
  <1> QED
    BY <1>1, <1>2, <1>3

LEMMA OutcomeIsSeen ==
  ASSUME NEW v \in Verifiers, Outcome(v) = "available"
  PROVE  ver[v].saw = "whole"
  <1>1. CASE ~Configured
    BY <1>1 DEF Outcome
  <1>2. CASE Configured /\ ver[v].saw \in {"partial", "foreign"}
    BY <1>2 DEF Outcome
  <1>3. CASE Configured /\ ver[v].saw \notin {"whole", "partial", "foreign"}
    BY <1>3 DEF Outcome
  <1> QED
    BY <1>1, <1>2, <1>3

-----------------------------------------------------------------------------
(* A verification that goes on, or rests, is one again, and so is the half *)
(* of a Run whose fields are replaced.                                     *)
LEMMA RestingType == Resting \in Verifier
  BY DEF Resting, Verifier, Traces

LEMMA StopType ==
  ASSUME ver \in [Verifiers -> Verifier], NEW v \in Verifiers, Stop(v)
  PROVE  ver' \in [Verifiers -> Verifier]
  BY RestingType DEF Stop

LEMMA QueryingType ==
  ASSUME ver \in [Verifiers -> Verifier], NEW v \in Verifiers, NEW tried \in Nat
  PROVE  [ver EXCEPT ![v].pc = "query", ![v].tried = tried] \in [Verifiers -> Verifier]
  <1> DEFINE c == [ver[v] EXCEPT !.pc = "query", !.tried = tried]
  <1>1. ver[v] \in Verifier
    OBVIOUS
  <1>2. c \in Verifier
    BY <1>1 DEF Verifier
  <1> QED
    BY <1>2

LEMMA AnsweredType ==
  ASSUME ver \in [Verifiers -> Verifier], NEW v \in Verifiers,
         NEW saw \in Traces \cup {"error"}, NEW tardy \in BOOLEAN
  PROVE  [ver EXCEPT ![v].pc = "update", ![v].saw = saw, ![v].late = tardy]
           \in [Verifiers -> Verifier]
  <1> DEFINE c == [ver[v] EXCEPT !.pc = "update", !.saw = saw, !.late = tardy]
  <1>1. ver[v] \in Verifier
    OBVIOUS
  <1>2. c \in Verifier
    BY <1>1 DEF Verifier
  <1> QED
    BY <1>2

LEMMA LeasedType ==
  ASSUME run \in RunHalf, NEW v \in Verifiers, NEW n \in Nat, NEW age \in Ages
  PROVE  [run EXCEPT !.attempts = n, !.holder = v, !.live = TRUE, !.age = age] \in RunHalf
  BY DEF RunHalf

LEMMA DecidedType ==
  ASSUME run \in RunHalf, NEW status \in TelemetryStatus, NEW n \in Nat,
         NEW wait \in BOOLEAN, NEW age \in Ages
  PROVE  [run EXCEPT !.status = status, !.attempts = n, !.holder = None,
                     !.live = FALSE, !.wait = wait, !.age = age] \in RunHalf
  BY DEF RunHalf

LEMMA ZeroIsAge == 0 \in Ages
  BY DEF Ages

(* What a granted claim and an accepted update write is well typed.        *)
LEMMA ClaimType ==
  ASSUME TelemetryTypeOK, NEW v \in Verifiers, Claim(v)
  PROVE  TelemetryTypeOK'
  <1>1. PICK tried \in Nat : tried = IF Terminal THEN 0 ELSE run.attempts
    BY DEF TelemetryTypeOK, RunHalf
  <1>2. CASE Granted(ver[v].force)
    <2>1. run' = [run EXCEPT !.attempts = tried, !.holder = v, !.live = TRUE, !.age = 0]
      BY <1>1, <1>2, Zenon DEF Claim
    <2>2. ver' = [ver EXCEPT ![v].pc = "query", ![v].tried = tried]
      BY <1>1, <1>2, Zenon DEF Claim
    <2>3. run' \in RunHalf
      BY <2>1, LeasedType, ZeroIsAge DEF TelemetryTypeOK
    <2>4. ver' \in [Verifiers -> Verifier]
      BY <2>2, QueryingType DEF TelemetryTypeOK
    <2> QED
      BY <2>3, <2>4 DEF TelemetryTypeOK, Claim
  <1>3. CASE ~Granted(ver[v].force)
    BY <1>3, StopType DEF Claim, TelemetryTypeOK
  <1> QED
    BY <1>2, <1>3

LEMMA QueryType ==
  ASSUME TelemetryTypeOK, NEW v \in Verifiers, Query(v)
  PROVE  TelemetryTypeOK'
  <1>1. PICK saw \in {trace, "error"}, tardy \in {FALSE, run.dated} :
          ver' = [ver EXCEPT ![v].pc = "update", ![v].saw = saw, ![v].late = tardy]
    BY DEF Query
  <1>2. saw \in Traces \cup {"error"} /\ tardy \in BOOLEAN
    BY DEF TelemetryTypeOK, RunHalf
  <1>3. ver' \in [Verifiers -> Verifier]
    BY <1>1, <1>2, AnsweredType DEF TelemetryTypeOK
  <1> QED
    BY <1>3 DEF TelemetryTypeOK, Query

LEMMA UpdateType ==
  ASSUME TelemetryTypeOK, NEW v \in Verifiers, Update(v)
  PROVE  TelemetryTypeOK'
  <1>1. ver' \in [Verifiers -> Verifier]
    BY StopType DEF Update, TelemetryTypeOK
  <1>2. run' \in RunHalf
    <2>1. CASE Fenced(v)
      <3>1. PICK status \in {"available", "unavailable", "delayed"} : status = Outcome(v)
        BY OutcomeIsStatus
      <3>2. PICK wait \in BOOLEAN : wait = (status = "delayed")
        OBVIOUS
      <3>3. PICK n \in Nat : n = run.attempts + 1
        BY DEF TelemetryTypeOK, RunHalf
      <3>4. run' = [run EXCEPT !.status = status, !.attempts = n, !.holder = None,
                               !.live = FALSE, !.wait = wait, !.age = 0]
        BY <2>1, <3>1, <3>2, <3>3, Zenon DEF Update
      <3> QED
        BY <3>4, DecidedType, ZeroIsAge DEF TelemetryTypeOK, TelemetryStatus
    <2>2. CASE ~Fenced(v)
      BY <2>2 DEF Update, TelemetryTypeOK
    <2> QED
      BY <2>1, <2>2
  <1> QED
    BY <1>1, <1>2 DEF TelemetryTypeOK, Update

LEMMA TelemetryStepType ==
  ASSUME TelemetryTypeOK, [Next]_tvars
  PROVE  TelemetryTypeOK'
  <1>1. Initial \in TelemetryStatus
    BY DEF Initial, TelemetryStatus
  <1>2. CASE EndRun
    BY <1>1, <1>2 DEF EndRun, TelemetryTypeOK, RunHalf
  <1>3. CASE SaveRun
    BY <1>1, <1>3 DEF SaveRun, TelemetryTypeOK, RunHalf, Ages, Cooled
  <1>4. CASE SpansArrive
    BY <1>4 DEF SpansArrive, TelemetryTypeOK, Traces
  <1>5. ASSUME NEW v \in Verifiers, NEW force \in BOOLEAN, Verify(v, force)
        PROVE  TelemetryTypeOK'
    <2> DEFINE c == [ver[v] EXCEPT !.pc = "claim", !.force = force]
    <2>1. ver \in [Verifiers -> Verifier] /\ UNCHANGED <<run, trace, troubles>>
      BY <1>5 DEF Verify, TelemetryTypeOK
    <2>2. c \in Verifier
      BY <2>1 DEF Verifier
    <2>3. ver' = [ver EXCEPT ![v] = c]
      BY <1>5 DEF Verify
    <2> HIDE DEF c
    <2>4. ver' \in [Verifiers -> Verifier]
      BY <2>1, <2>2, <2>3
    <2> QED
      BY <2>1, <2>4 DEF TelemetryTypeOK
  <1>6. ASSUME NEW v \in Verifiers, Die(v)
        PROVE  TelemetryTypeOK'
    <2>1. ver' \in [Verifiers -> Verifier] /\ trace' = trace
      BY <1>6, StopType DEF Die, TelemetryTypeOK
    <2>2. run' \in RunHalf
      BY <1>6 DEF Die, TelemetryTypeOK, RunHalf
    <2>3. troubles' \in 0..MaxTroubles
      BY <1>6, TelemetryAssumption DEF Die, TelemetryTypeOK
    <2> QED
      BY <2>1, <2>2, <2>3 DEF TelemetryTypeOK
  <1>7. CASE LeaseExpires
    <2>1. run' \in RunHalf
      BY <1>7 DEF LeaseExpires, TelemetryTypeOK, RunHalf
    <2>2. troubles' \in 0..MaxTroubles
      BY <1>7, TelemetryAssumption DEF LeaseExpires, TelemetryTypeOK
    <2> QED
      BY <1>7, <2>1, <2>2 DEF LeaseExpires, TelemetryTypeOK
  <1>8. CASE TimePasses
    <2>1. PICK age \in Ages : age = run.age + 1
      BY <1>8 DEF TimePasses, TelemetryTypeOK, RunHalf, Ages, Cooled
    <2>2. run' = [run EXCEPT !.age = age]
      BY <1>8, <2>1, Zenon DEF TimePasses
    <2> QED
      BY <1>8, <2>2 DEF TimePasses, TelemetryTypeOK, RunHalf
  <1>9. CASE BackoffElapses
    BY <1>9 DEF BackoffElapses, TelemetryTypeOK, RunHalf
  <1>10. CASE UNCHANGED tvars
    BY <1>10 DEF tvars, TelemetryTypeOK
  <1> QED
    BY <1>2, <1>3, <1>4, <1>5, <1>6, <1>7, <1>8, <1>9, <1>10,
       ClaimType, QueryType, UpdateType DEF Next, Reconcile, Advance

-----------------------------------------------------------------------------
(* A verification that saw the whole trace saw what is still there; an     *)
(* available Run was decided by one of them, and its lease was released    *)
(* with the decision, never to be granted again while it stands.           *)
TelemetryInvariant ==
    /\ \A v \in Verifiers : ver[v].saw = "whole" => trace = "whole"
    /\ run.status = "available" => trace = "whole" /\ ~run.live

(* A verification that rests has seen nothing.                             *)
LEMMA RestedSaw ==
  ASSUME TelemetryTypeOK, TelemetryInvariant, NEW v \in Verifiers, Stop(v), trace' = trace
  PROVE  \A u \in Verifiers : ver'[u].saw = "whole" => trace' = "whole"
  BY DEF Stop, Resting, TelemetryTypeOK, TelemetryInvariant

LEMMA UpdateKeeps ==
  ASSUME TelemetryTypeOK, TelemetryInvariant, NEW v \in Verifiers, Update(v)
  PROVE  TelemetryInvariant' /\ (run.status = "available" => run'.status = "available")
  <1>1. \A u \in Verifiers : ver'[u].saw = "whole" => trace' = "whole"
    BY RestedSaw DEF Update
  <1>2. CASE Fenced(v)
    <2>1. run.status # "available"
      BY <1>2 DEF Fenced, TelemetryInvariant
    <2>2. run'.status = Outcome(v) /\ run'.live = FALSE /\ trace' = trace
      BY <1>2 DEF Update, TelemetryTypeOK, RunHalf
    <2>3. run'.status = "available" => trace' = "whole"
      BY <2>2, OutcomeIsSeen DEF TelemetryInvariant
    <2> QED
      BY <1>1, <2>1, <2>2, <2>3 DEF TelemetryInvariant
  <1>3. CASE ~Fenced(v)
    BY <1>1, <1>3 DEF Update, TelemetryInvariant
  <1> QED
    BY <1>2, <1>3

LEMMA ClaimKeeps ==
  ASSUME TelemetryTypeOK, TelemetryInvariant, NEW v \in Verifiers, Claim(v)
  PROVE  TelemetryInvariant' /\ (run.status = "available" => run'.status = "available")
  <1>1. CASE Granted(ver[v].force)
    <2>1. run'.status = run.status /\ run.status # "available" /\ trace' = trace
      BY <1>1 DEF Claim, Granted, TelemetryTypeOK, RunHalf
    <2>2. \A u \in Verifiers : ver'[u].saw = ver[u].saw
      BY <1>1 DEF Claim, TelemetryTypeOK, Verifier
    <2> QED
      BY <2>1, <2>2 DEF TelemetryInvariant
  <1>2. CASE ~Granted(ver[v].force)
    BY <1>2, RestedSaw DEF Claim, TelemetryInvariant
  <1> QED
    BY <1>1, <1>2

LEMMA QueryKeeps ==
  ASSUME TelemetryTypeOK, TelemetryInvariant, NEW v \in Verifiers, Query(v)
  PROVE  TelemetryInvariant' /\ run' = run
  <1>1. PICK saw \in {trace, "error"}, tardy \in {FALSE, run.dated} :
          ver' = [ver EXCEPT ![v].pc = "update", ![v].saw = saw, ![v].late = tardy]
    BY DEF Query
  <1>2. \A u \in Verifiers : ver'[u].saw = IF u = v THEN saw ELSE ver[u].saw
    BY <1>1 DEF TelemetryTypeOK, Verifier
  <1>3. run' = run /\ trace' = trace
    BY DEF Query
  <1> QED
    BY <1>2, <1>3 DEF TelemetryInvariant

(* Every step keeps the invariant, and only the end of the Run takes       *)
(* "available" back.                                                       *)
LEMMA TelemetryStep ==
  ASSUME TelemetryTypeOK, TelemetryInvariant, [Next]_tvars
  PROVE  /\ TelemetryInvariant'
         /\ run.status = "available" => run'.status = "available" \/ run'.ended # run.ended
  <1>1. CASE EndRun \/ SaveRun
    <2>1. Initial # "available"
      BY DEF Initial
    <2>2. run'.status = Initial /\ ~run.ended /\ run'.ended /\ ver' = ver /\ trace' = trace
      <3>1. PICK i : i = Initial
        OBVIOUS
      <3>2. CASE EndRun
        BY <3>1, <3>2 DEF EndRun, TelemetryTypeOK, RunHalf
      <3>3. CASE SaveRun
        BY <3>1, <3>3 DEF SaveRun
      <3> QED
        BY <1>1, <3>2, <3>3
    <2> QED
      BY <2>1, <2>2 DEF TelemetryInvariant
  <1>2. CASE SpansArrive
    BY <1>2 DEF SpansArrive, TelemetryInvariant
  <1>3. ASSUME NEW v \in Verifiers, NEW force \in BOOLEAN, Verify(v, force)
        PROVE  TelemetryInvariant' /\ run' = run
    <2>1. \A u \in Verifiers : ver'[u].saw = ver[u].saw
      BY <1>3 DEF Verify, TelemetryTypeOK, Verifier
    <2> QED
      BY <1>3, <2>1 DEF Verify, TelemetryInvariant
  <1>4. ASSUME NEW v \in Verifiers, Die(v)
        PROVE  TelemetryInvariant' /\ run'.status = run.status
    <2>1. \A u \in Verifiers : ver'[u].saw = "whole" => trace' = "whole"
      BY <1>4, RestedSaw DEF Die
    <2>2. run'.status = run.status /\ run'.live = run.live /\ trace' = trace
      BY <1>4 DEF Die, TelemetryTypeOK, RunHalf
    <2> QED
      BY <2>1, <2>2 DEF TelemetryInvariant
  <1>5. CASE LeaseExpires
    <2>1. run'.status = run.status /\ ~run'.live /\ ver' = ver /\ trace' = trace
      BY <1>5 DEF LeaseExpires, TelemetryTypeOK, RunHalf
    <2> QED
      BY <2>1 DEF TelemetryInvariant
  <1>6. CASE TimePasses \/ BackoffElapses \/ UNCHANGED tvars
    <2>1. run'.status = run.status /\ run'.live = run.live /\ ver' = ver /\ trace' = trace
      BY <1>6 DEF TimePasses, BackoffElapses, tvars, TelemetryTypeOK, RunHalf
    <2> QED
      BY <2>1 DEF TelemetryInvariant
  <1> QED
    BY <1>1, <1>2, <1>3, <1>4, <1>5, <1>6, ClaimKeeps, QueryKeeps, UpdateKeeps
    DEF Next, Reconcile, Advance

LEMMA TelemetryInit ==
  ASSUME Init
  PROVE  TelemetryTypeOK /\ TelemetryInvariant
  <1>1. run \in RunHalf /\ run.status = "not_instrumented"
    BY DEF Init, RunHalf, TelemetryStatus, Ages, Cooled
  <1>2. ver \in [Verifiers -> Verifier] /\ \A v \in Verifiers : ver[v].saw = "absent"
    BY RestingType DEF Init, Resting
  <1>3. trace \in Traces /\ troubles \in 0..MaxTroubles
    BY TelemetryAssumption DEF Init, Traces
  <1> QED
    BY <1>1, <1>2, <1>3 DEF TelemetryTypeOK, TelemetryInvariant

(* Every reachable state is well typed and satisfies the invariant.        *)
THEOREM TelemetryCorrect == Spec => [](TelemetryTypeOK /\ TelemetryInvariant)
  <1>1. Init => TelemetryTypeOK /\ TelemetryInvariant
    BY TelemetryInit
  <1>2. TelemetryTypeOK /\ TelemetryInvariant /\ [Next]_tvars
          => (TelemetryTypeOK /\ TelemetryInvariant)'
    BY TelemetryStepType, TelemetryStep
  <1> QED
    BY <1>1, <1>2, PTL DEF Spec

(* "Only set to 'available' after verifying the real trace exists and      *)
(* matches both the tenant hash and Run ID."                               *)
THEOREM AvailableRunsAreAuthentic == Spec => []AvailableIsAuthentic
  <1>1. TelemetryInvariant => AvailableIsAuthentic
    BY DEF TelemetryInvariant, AvailableIsAuthentic
  <1> QED
    BY <1>1, TelemetryCorrect, PTL

(* Once available a Run stays so until it ends, whatever a verification    *)
(* that lost its lease had seen (update_run_telemetry_status).             *)
THEOREM AvailableForGood == Spec => AvailableStands
  <1>1. TelemetryTypeOK /\ TelemetryInvariant /\ [Next]_tvars =>
          [run.status = "available" => run'.status = "available" \/ run'.ended # run.ended]_tvars
    BY TelemetryStep
  <1> QED
    BY <1>1, TelemetryCorrect, PTL DEF Spec, AvailableStands

-----------------------------------------------------------------------------
(***************************************************************************)
(* The cascade over a sandbox.  A call that holds the lease is where the   *)
(* phase of the job says; a call that lost it may go on deleting pages,    *)
(* but only in a job that has left the blobs behind for good.  So a        *)
(* document that outlives the space was written behind the verification,   *)
(* and a record whose bytes are still there when the pages are deleted is  *)
(* of a file that was registered or written behind the inventory.          *)
(***************************************************************************)
Left == job.phase \in {"children", "verifying", "finalizing", "completed"}
Verified == job.phase \in {"finalizing", "completed"}

Fits(pc, phase) ==
    CASE pc = "idle" -> TRUE
      [] pc = "mark" -> phase = "pending"
      [] pc \in {"inventory", "erase", "leave"} -> phase = "blobs"
      [] pc \in {"sweep", "save", "next", "check"} -> phase = "children"
      [] pc \in {"verify", "confirm"} -> phase = "verifying"
      [] OTHER -> phase = "finalizing"

PastBlobs == {"sweep", "save", "next", "check", "verify", "confirm", "finalize"}

(* Collection n holds nothing but what came late; no record has bytes but  *)
(* those of "known" and of files that were written late.                   *)
OnlyLate(n) == \A d \in docs[n] : <<n, d>> \in late
Covered(known) == \A d \in docs[Files] : d \in blobs => d \in known \cup missed

CollectionInvariant ==
    \A c \in Cleaners :
       /\ work[c].pc \notin {"idle", "check", "confirm", "finalize"} => work[c].coll \in Colls
       /\ work[c].pc = "confirm" => work[c].coll = Collections + 1

CallInvariantOf(c) ==
    /\ work[c].pc \in PastBlobs => Left
    /\ Holds(c) =>
          /\ Fits(work[c].pc, job.phase)
          /\ work[c].pc \in {"verify", "confirm"} =>
                \A n \in Colls : n < work[c].coll => OnlyLate(n)
          /\ work[c].pc = "erase" => Covered(work[c].found)
          /\ work[c].pc = "leave" => Covered({})

TeardownInvariant ==
    /\ ~job.there => job.phase = "pending" /\ \A c \in Cleaners : ~Holds(c)
    /\ ~space.there => Verified
    /\ Verified => \A n \in Colls : OnlyLate(n)
    /\ Left => Covered({})
    /\ \A d \in Ids : writer[d] = "drop" => d \notin blobs
    /\ \A c \in Cleaners : CallInvariantOf(c)

-----------------------------------------------------------------------------
LEMMA SandboxConstants ==
  /\ Collections \in Nat \ {0} /\ Ids \subseteq Nat \ {0} /\ Nobody \notin Cleaners
  /\ MaxWrites \in Nat /\ MaxFailures \in Nat
  /\ Files \in Colls /\ Colls \subseteq Nat /\ 1 \in 1..Collections + 1
  BY SandboxAssumption DEF Files, Colls

Pcs == {"idle", "mark", "inventory", "erase", "leave", "sweep", "save", "next",
        "check", "verify", "confirm", "finalize"}

CascadeTypes == SandboxTypeOK /\ CollectionInvariant

(* The local state of a call is replaced by w.                             *)
Becomes(c, w) == w \in Work /\ work' = [work EXCEPT ![c] = w]

LEMMA AtRestType == AtRest \in Work /\ AtRest.pc = "idle" /\ AtRest.coll = 1
  <1>1. 0 \in Ids \cup {0} /\ {} \in SUBSET Ids /\ 1 \in 1..Collections + 1
    BY SandboxConstants
  <1> QED
    BY <1>1 DEF AtRest, Work

LEMMA BecomesWork ==
  ASSUME work \in [Cleaners -> Work], NEW c \in Cleaners, NEW w, Becomes(c, w)
  PROVE  /\ work' \in [Cleaners -> Work] /\ work'[c] = w
         /\ \A e \in Cleaners \ {c} : work'[e] = work[e]
  BY DEF Becomes

LEMMA OverBecomes ==
  ASSUME NEW c \in Cleaners, work' = Over(c)
  PROVE  Becomes(c, AtRest)
  BY AtRestType DEF Over, Becomes

LEMMA GotoBecomes ==
  ASSUME work \in [Cleaners -> Work], NEW c \in Cleaners, NEW pc \in Pcs, work' = Goto(c, pc)
  PROVE  \E w \in Work : /\ Becomes(c, w) /\ w.pc = pc /\ w.coll = work[c].coll
                         /\ w.found = work[c].found
  <1> DEFINE w == [work[c] EXCEPT !.pc = pc]
  <1>1. w \in Work /\ w.pc = pc /\ w.coll = work[c].coll /\ w.found = work[c].found
    BY DEF Work, Pcs
  <1>2. work' = [work EXCEPT ![c] = w]
    BY DEF Goto
  <1> HIDE DEF w
  <1> QED
    BY <1>1, <1>2 DEF Becomes

LEMMA PhaseType ==
  ASSUME job \in Job, NEW phase \in Phases
  PROVE  /\ [job EXCEPT !.phase = phase] \in Job
         /\ [job EXCEPT !.phase = phase].phase = phase
         /\ [job EXCEPT !.phase = phase].there = job.there
         /\ [job EXCEPT !.phase = phase].holder = job.holder
         /\ [job EXCEPT !.phase = phase].live = job.live
  BY DEF Job

LEMMA ReentryType ==
  ASSUME job \in Job, NEW phase \in Phases, NEW n \in 1..Collections + 1,
         job' = [job EXCEPT !.phase = phase, !.coll = n, !.cursor = 0]
  PROVE  /\ job' \in Job /\ job'.phase = phase /\ job'.there = job.there
         /\ job'.holder = job.holder /\ job'.live = job.live
  <1> DEFINE one == [job EXCEPT !.phase = phase]
             two == [one EXCEPT !.coll = n]
  <1>1. one \in Job /\ one.phase = phase /\ one.there = job.there
        /\ one.holder = job.holder /\ one.live = job.live
    BY PhaseType
  <1>2. job' = [two EXCEPT !.cursor = 0]
    OBVIOUS
  <1> HIDE DEF one
  <1>3. two \in Job /\ two.phase = phase /\ two.there = job.there
        /\ two.holder = job.holder /\ two.live = job.live
    BY <1>1 DEF Job
  <1> HIDE DEF two
  <1> QED
    BY <1>2, <1>3 DEF Job

LEMMA ReleaseType ==
  ASSUME job \in Job,
         NEW wait \in BOOLEAN,
         NEW j, j = [job EXCEPT !.holder = Nobody, !.live = FALSE, !.wait = wait]
  PROVE  /\ j \in Job /\ j.phase = job.phase /\ j.there = job.there /\ j.holder = Nobody
  BY DEF Job

(* What a step does to lease and phase.  Nobody gains a lease by it.       *)
NoGain == \A e \in Cleaners : Holds(e)' => Holds(e)

JobRests ==
    /\ job' \in Job /\ job'.phase = job.phase /\ job'.there = job.there /\ NoGain

JobMoves(phase) ==
    /\ job' \in Job /\ job'.phase = phase /\ job'.there = job.there /\ NoGain

LEMMA JobSame == job \in Job /\ UNCHANGED job => JobRests
  BY DEF JobRests, NoGain, Holds

LEMMA JobMovesOn ==
  ASSUME job \in Job, NEW phase \in Phases,
         \/ job' = [job EXCEPT !.phase = phase]
         \/ \E n \in 1..Collections + 1 :
               job' = [job EXCEPT !.phase = phase, !.coll = n, !.cursor = 0]
  PROVE  JobMoves(phase)
  <1>1. CASE job' = [job EXCEPT !.phase = phase]
    BY <1>1, PhaseType DEF JobMoves, NoGain, Holds
  <1>2. ASSUME NEW n \in 1..Collections + 1,
               job' = [job EXCEPT !.phase = phase, !.coll = n, !.cursor = 0]
        PROVE  JobMoves(phase)
    <2>1. /\ job' \in Job /\ job'.phase = phase /\ job'.there = job.there
          /\ job'.holder = job.holder /\ job'.live = job.live
      BY <1>2, ReentryType
    <2> QED
      BY <2>1 DEF JobMoves, NoGain, Holds
  <1> QED
    BY <1>1, <1>2

LEMMA JobReleased ==
  ASSUME job \in Job, NEW wait \in BOOLEAN,
         job' = [job EXCEPT !.holder = Nobody, !.live = FALSE, !.wait = wait]
  PROVE  JobRests
  <1>1. /\ job' \in Job /\ job'.phase = job.phase /\ job'.there = job.there
        /\ job'.holder = Nobody
    BY ReleaseType
  <1> QED
    BY <1>1, SandboxConstants DEF JobRests, NoGain, Holds

LEMMA JobAges ==
  ASSUME job \in Job,
         \/ job' = [job EXCEPT !.live = FALSE]
         \/ job' = [job EXCEPT !.wait = FALSE]
         \/ job' = [job EXCEPT !.holder = Nobody]
         \/ \E d \in Ids : job' = [job EXCEPT !.cursor = d]
         \/ \E n \in 1..Collections + 1 : job' = [job EXCEPT !.coll = n, !.cursor = 0]
  PROVE  JobRests
  <1>1. CASE job' = [job EXCEPT !.live = FALSE]
    BY <1>1 DEF Job, JobRests, NoGain, Holds
  <1>2. CASE job' = [job EXCEPT !.wait = FALSE]
    BY <1>2 DEF Job, JobRests, NoGain, Holds
  <1>3. CASE job' = [job EXCEPT !.holder = Nobody]
    BY <1>3, SandboxConstants DEF Job, JobRests, NoGain, Holds
  <1>4. ASSUME NEW d \in Ids, job' = [job EXCEPT !.cursor = d]
        PROVE  JobRests
    BY <1>4 DEF Job, JobRests, NoGain, Holds
  <1>5. ASSUME NEW n \in 1..Collections + 1, job' = [job EXCEPT !.coll = n, !.cursor = 0]
        PROVE  JobRests
    <2>1. job.phase \in Phases
      BY DEF Job
    <2>2. job' = [job EXCEPT !.phase = job.phase, !.coll = n, !.cursor = 0]
      BY <1>5 DEF Job
    <2>3. JobMoves(job.phase)
      BY <1>5, <2>1, <2>2, JobMovesOn
    <2> QED
      BY <2>3 DEF JobMoves, JobRests
  <1> QED
    BY <1>1, <1>2, <1>3, <1>4, <1>5

-----------------------------------------------------------------------------
(* The types after a step, from those of what it changes.                  *)
Placed(w) ==
    /\ w.pc \notin {"idle", "check", "confirm", "finalize"} => w.coll \in Colls
    /\ w.pc = "confirm" => w.coll = Collections + 1

LEMMA TypesAfter ==
  ASSUME CascadeTypes, NEW c \in Cleaners, NEW w, Becomes(c, w), Placed(w),
         space' \in Space, job' \in Job, docs' \in [Colls -> SUBSET Ids],
         blobs' \subseteq Ids, cached' \in BOOLEAN, late' \subseteq Colls \X Ids,
         missed' \subseteq Ids, failures' \in 0..MaxFailures, UNCHANGED <<writer, writes>>
  PROVE  CascadeTypes'
  <1>1. work' \in [Cleaners -> Work] /\ work'[c] = w
        /\ \A e \in Cleaners \ {c} : work'[e] = work[e]
    BY BecomesWork DEF CascadeTypes, SandboxTypeOK
  <1>2. CollectionInvariant'
    BY <1>1 DEF CascadeTypes, CollectionInvariant, Placed
  <1>3. writer' \in [Ids -> Stages] /\ writes' \in 0..MaxWrites
    BY DEF CascadeTypes, SandboxTypeOK
  <1> QED
    BY <1>1, <1>2, <1>3 DEF CascadeTypes, SandboxTypeOK

(* A step of a call that leaves the phase of the job as it was.            *)
Rests(c, w) ==
    /\ Becomes(c, w) /\ Placed(w) /\ JobRests
    /\ UNCHANGED <<space, writer, late, missed, writes>>
    /\ \A b \in blobs' : b \in blobs
    /\ cached' \in BOOLEAN /\ failures' \in 0..MaxFailures
    /\ \/ docs' = docs
       \/ /\ Left /\ docs' \in [Colls -> SUBSET Ids]
          /\ \A n \in Colls : docs'[n] \subseteq docs[n]
    /\ w.pc \in PastBlobs => work[c].pc \in PastBlobs
    /\ Holds(c) =>
          /\ Fits(w.pc, job.phase)
          /\ w.pc \in {"verify", "confirm"} =>
                \A n \in Colls : n < w.coll => OnlyLate(n)
          /\ w.pc = "erase" => Covered(w.found)
          /\ w.pc = "leave" => Covered({})'

LEMMA RestsKeeps ==
  ASSUME CascadeTypes, TeardownInvariant, NEW c \in Cleaners, NEW w, Rests(c, w)
  PROVE  CascadeTypes' /\ TeardownInvariant'
  <1>1. CascadeTypes'
    <2>1. docs' \in [Colls -> SUBSET Ids] /\ blobs' \subseteq Ids
      BY DEF Rests, CascadeTypes, SandboxTypeOK
    <2>2. space' \in Space /\ late' \subseteq Colls \X Ids /\ missed' \subseteq Ids
      BY DEF Rests, CascadeTypes, SandboxTypeOK
    <2>3. /\ Becomes(c, w) /\ Placed(w) /\ job' \in Job /\ cached' \in BOOLEAN
          /\ failures' \in 0..MaxFailures /\ UNCHANGED <<writer, writes>>
      BY DEF Rests, JobRests
    <2> QED
      BY <2>1, <2>2, <2>3, TypesAfter
  <1>2. work'[c] = w /\ \A e \in Cleaners \ {c} : work'[e] = work[e]
    BY BecomesWork DEF Rests, CascadeTypes, SandboxTypeOK
  <1>3. /\ job'.phase = job.phase /\ job'.there = job.there /\ (Left' <=> Left)
        /\ (Verified' <=> Verified) /\ \A e \in Cleaners : Holds(e)' => Holds(e)
    BY DEF Rests, JobRests, NoGain, Left, Verified
  <1>4. \A n \in Colls : OnlyLate(n) => OnlyLate(n)'
    BY DEF Rests, OnlyLate
  <1>5. ASSUME NEW known, Covered(known)
        PROVE  \A d \in docs'[Files] : d \in blobs' => d \in known \cup missed'
    BY <1>5, SandboxConstants DEF Rests, Covered
  <1>6. Covered({}) => Covered({})'
    BY <1>5 DEF Covered
  <1>7. ASSUME NEW e \in Cleaners
        PROVE  CallInvariantOf(e)'
    <2>1. CallInvariantOf(e) /\ CallInvariantOf(c)
      BY DEF TeardownInvariant
    <2>2. CASE e = c
      <3>1. work'[e].pc \in PastBlobs => Left'
        BY <1>2, <1>3, <2>1, <2>2 DEF Rests, CallInvariantOf
      <3>2. ASSUME Holds(c)
            PROVE  /\ Fits(w.pc, job.phase)
                   /\ w.pc \in {"verify", "confirm"} =>
                         \A n \in Colls : n < w.coll => OnlyLate(n)'
                   /\ w.pc = "erase" =>
                         \A d \in docs'[Files] : d \in blobs' => d \in w.found \cup missed'
                   /\ w.pc = "leave" => Covered({})'
        BY <1>4, <1>5, <3>2 DEF Rests
      <3> QED
        BY <1>2, <1>3, <2>2, <3>1, <3>2 DEF CallInvariantOf, Covered
    <2>3. CASE e # c
      <3>1. work'[e] = work[e]
        BY <1>2, <2>3
      <3>2. ASSUME Holds(e)
            PROVE  /\ Fits(work[e].pc, job.phase)
                   /\ work[e].pc \in {"verify", "confirm"} =>
                         \A n \in Colls : n < work[e].coll => OnlyLate(n)'
                   /\ work[e].pc = "erase" =>
                         \A d \in docs'[Files] : d \in blobs' => d \in work[e].found \cup missed'
                   /\ work[e].pc = "leave" => Covered({})'
        BY <1>4, <1>5, <1>6, <2>1, <3>2 DEF CallInvariantOf
      <3> QED
        BY <1>3, <2>1, <3>1, <3>2 DEF CallInvariantOf, Covered
    <2> QED
      BY <2>2, <2>3
  <1>8. \A d \in Ids : writer'[d] = "drop" => d \notin blobs'
    BY DEF Rests, TeardownInvariant
  <1>9. space' = space
    BY DEF Rests
  <1> QED
    BY <1>1, <1>3, <1>4, <1>6, <1>7, <1>8, <1>9 DEF TeardownInvariant

(* A step of the call that holds the lease, which moves the job on, or     *)
(* back to a collection that is not empty.                                 *)
Shifts(c, w, phase) ==
    /\ Holds(c) /\ Becomes(c, w) /\ Placed(w) /\ JobMoves(phase)
    /\ UNCHANGED <<space, docs, blobs, writer, missed, writes>>
    /\ cached' \in BOOLEAN /\ failures' \in 0..MaxFailures
    /\ w.pc \notin {"erase", "leave"} /\ Fits(w.pc, phase)
    /\ \/ late' = late /\ (phase = "verifying" => w.coll = 1)
       \/ late' = {} /\ w.pc = "idle" /\ phase = "children"
    /\ <<job.phase, phase>> \in {<<"pending", "blobs">>, <<"blobs", "children">>,
                                 <<"children", "verifying">>, <<"verifying", "finalizing">>,
                                 <<"verifying", "children">>}
    /\ phase = "children" => Left \/ Covered({})
    /\ phase = "finalizing" => \A n \in Colls : OnlyLate(n)

LEMMA ShiftsKeeps ==
  ASSUME CascadeTypes, TeardownInvariant, NEW c \in Cleaners, NEW w, NEW phase,
         Shifts(c, w, phase)
  PROVE  CascadeTypes' /\ TeardownInvariant'
  <1>1. CascadeTypes'
    <2>1. docs' \in [Colls -> SUBSET Ids] /\ blobs' \subseteq Ids
      BY DEF Shifts, CascadeTypes, SandboxTypeOK
    <2>2. space' \in Space /\ late' \subseteq Colls \X Ids /\ missed' \subseteq Ids
      BY DEF Shifts, CascadeTypes, SandboxTypeOK
    <2>3. /\ Becomes(c, w) /\ Placed(w) /\ job' \in Job /\ cached' \in BOOLEAN
          /\ failures' \in 0..MaxFailures /\ UNCHANGED <<writer, writes>>
      BY DEF Shifts, JobMoves
    <2> QED
      BY <2>1, <2>2, <2>3, TypesAfter
  <1>2. work'[c] = w /\ \A e \in Cleaners \ {c} : work'[e] = work[e]
    BY BecomesWork DEF Shifts, CascadeTypes, SandboxTypeOK
  <1>3. job'.phase = phase /\ job'.there = job.there
        /\ \A e \in Cleaners \ {c} : ~Holds(e)'
    BY DEF Shifts, JobMoves, NoGain, Holds
  <1>4. UNCHANGED <<space, docs, blobs, writer, missed>>
    BY DEF Shifts
  <1>5. ~Verified /\ (Left => Left') /\ (Verified' <=> phase = "finalizing")
        /\ (Left' <=> phase \in {"children", "verifying", "finalizing"})
    BY <1>3 DEF Shifts, Left, Verified
  <1>6. Left' => Covered({})'
    <2>1. Left' => Left \/ phase = "children"
      BY <1>5 DEF Shifts, Left
    <2>2. Left' => Covered({})
      BY <2>1 DEF Shifts, TeardownInvariant
    <2> QED
      BY <1>4, <2>2 DEF Covered
  <1>7. ASSUME NEW e \in Cleaners
        PROVE  CallInvariantOf(e)'
    <2>1. CallInvariantOf(e)
      BY DEF TeardownInvariant
    <2>2. CASE e = c
      <3>1. w.pc \in PastBlobs => Left'
        BY <1>5 DEF Shifts, Fits, PastBlobs
      <3>2. w.pc \in {"verify", "confirm"} => phase = "verifying"
        BY DEF Shifts, Fits
      <3>3. w.pc \in {"verify", "confirm"} => \A n \in Colls : ~(n < w.coll)
        BY <3>2 DEF Shifts, Colls
      <3> QED
        BY <1>2, <1>3, <2>2, <3>1, <3>3 DEF CallInvariantOf, Shifts
    <2>3. CASE e # c
      BY <1>2, <1>3, <1>5, <2>1, <2>3 DEF CallInvariantOf
    <2> QED
      BY <2>2, <2>3
  <1>8. job'.there
    BY <1>3 DEF Shifts, TeardownInvariant
  <1>9. space'.there
    BY <1>4, <1>5 DEF TeardownInvariant
  <1>10. Verified' => \A n \in Colls : OnlyLate(n)'
    <2>1. Verified' => late' = late /\ \A n \in Colls : OnlyLate(n)
      BY <1>5 DEF Shifts
    <2> QED
      BY <1>4, <2>1 DEF OnlyLate
  <1>11. \A d \in Ids : writer'[d] = "drop" => d \notin blobs'
    BY <1>4 DEF TeardownInvariant
  <1> QED
    BY <1>1, <1>6, <1>7, <1>8, <1>9, <1>10, <1>11 DEF TeardownInvariant

-----------------------------------------------------------------------------
(* The steps of a call.                                                    *)
LEMMA CallTypes ==
  ASSUME CascadeTypes, NEW c \in Cleaners
  PROVE  /\ job \in Job /\ work \in [Cleaners -> Work] /\ work[c] \in Work
         /\ docs \in [Colls -> SUBSET Ids] /\ blobs \subseteq Ids
         /\ cached \in BOOLEAN /\ failures \in 0..MaxFailures
  BY DEF CascadeTypes, SandboxTypeOK

(* Without the lease, or with nothing left to do, the call is over.        *)
Ends(c) ==
    /\ work' = Over(c) /\ JobRests
    /\ UNCHANGED <<space, docs, writer, late, missed, writes>>
    /\ \A b \in blobs' : b \in blobs
    /\ cached' \in BOOLEAN /\ failures' \in 0..MaxFailures

LEMMA EndsKeeps ==
  ASSUME CascadeTypes, TeardownInvariant, NEW c \in Cleaners, Ends(c)
  PROVE  CascadeTypes' /\ TeardownInvariant'
  <1>1. Becomes(c, AtRest) /\ AtRest.pc = "idle"
    BY OverBecomes, AtRestType DEF Ends
  <1>2. Placed(AtRest) /\ AtRest.pc \notin PastBlobs /\ Fits(AtRest.pc, job.phase)
    BY <1>1 DEF Placed, PastBlobs, Fits
  <1>3. Rests(c, AtRest)
    BY <1>1, <1>2 DEF Ends, Rests
  <1> QED
    BY <1>3, RestsKeeps

LEMMA MarkBlobsKeeps ==
  ASSUME CascadeTypes, TeardownInvariant, NEW c \in Cleaners, MarkBlobs(c)
  PROVE  CascadeTypes' /\ TeardownInvariant'
  <1>1. CASE Holds(c)
    <2>1. job' = [job EXCEPT !.phase = "blobs"] /\ work' = Goto(c, "inventory")
      BY <1>1 DEF MarkBlobs, FencedUpdate
    <2>2. PICK w \in Work : Becomes(c, w) /\ w.pc = "inventory" /\ w.coll = work[c].coll
      BY <2>1, CallTypes, GotoBecomes DEF Pcs
    <2>3. JobMoves("blobs")
      BY <2>1, CallTypes, JobMovesOn DEF Phases
    <2>4. job.phase = "pending"
      BY <1>1 DEF MarkBlobs, TeardownInvariant, CallInvariantOf, Fits
    <2>5. Placed(w) /\ Fits(w.pc, "blobs")
      BY <2>2 DEF MarkBlobs, CascadeTypes, CollectionInvariant, Placed, Fits
    <2>6. Shifts(c, w, "blobs")
      BY <1>1, <2>2, <2>3, <2>4, <2>5, CallTypes DEF MarkBlobs, Shifts, spared
    <2> QED
      BY <2>6, ShiftsKeeps
  <1>2. CASE ~Holds(c)
    <2>1. Ends(c)
      BY <1>2, CallTypes, JobSame DEF MarkBlobs, FencedUpdate, Ends, spared
    <2> QED
      BY <2>1, EndsKeeps
  <1> QED
    BY <1>1, <1>2

LEMMA InventoryKeeps ==
  ASSUME CascadeTypes, TeardownInvariant, NEW c \in Cleaners, Inventory(c)
  PROVE  CascadeTypes' /\ TeardownInvariant'
  <1> DEFINE w == [work[c] EXCEPT !.pc = "erase", !.found = docs[Files]]
  <1>1. docs[Files] \in SUBSET Ids
    BY CallTypes, SandboxConstants
  <1>2. w \in Work /\ w.pc = "erase" /\ w.found = docs[Files] /\ w.coll = work[c].coll
    BY <1>1, CallTypes DEF Work
  <1>3. work' = [work EXCEPT ![c] = w]
    BY DEF Inventory
  <1> HIDE DEF w
  <1>4. Covered(w.found)
    BY <1>2 DEF Covered
  <1>5. Holds(c) => Fits(w.pc, job.phase)
    BY <1>2 DEF Inventory, TeardownInvariant, CallInvariantOf, Fits
  <1>6. Becomes(c, w) /\ Placed(w) /\ w.pc \notin PastBlobs
    BY <1>2, <1>3 DEF Inventory, CascadeTypes, CollectionInvariant, Becomes, Placed, PastBlobs
  <1>7. Rests(c, w)
    BY <1>2, <1>4, <1>5, <1>6, CallTypes, JobSame DEF Inventory, Rests, spared
  <1> QED
    BY <1>7, RestsKeeps

LEMMA EraseKeeps ==
  ASSUME CascadeTypes, TeardownInvariant, NEW c \in Cleaners, Erase(c)
  PROVE  CascadeTypes' /\ TeardownInvariant'
  <1> DEFINE w == [work[c] EXCEPT !.pc = "leave", !.found = {}]
  <1>1. w \in Work /\ w.pc = "leave" /\ w.coll = work[c].coll
    BY CallTypes DEF Work
  <1>2. work' = [work EXCEPT ![c] = w]
    BY DEF Erase
  <1> HIDE DEF w
  <1>3. Holds(c) => Covered({})'
    <2>1. Holds(c) => Covered(work[c].found)
      BY DEF Erase, TeardownInvariant, CallInvariantOf
    <2> QED
      BY <2>1 DEF Erase, Covered, spared
  <1>4. Holds(c) => Fits(w.pc, job.phase)
    BY <1>1 DEF Erase, TeardownInvariant, CallInvariantOf, Fits
  <1>5. Becomes(c, w) /\ Placed(w) /\ w.pc \notin PastBlobs
    BY <1>1, <1>2 DEF Erase, CascadeTypes, CollectionInvariant, Becomes, Placed, PastBlobs
  <1>6. Rests(c, w)
    BY <1>1, <1>3, <1>4, <1>5, CallTypes, JobSame DEF Erase, Rests, spared
  <1> QED
    BY <1>6, RestsKeeps

LEMMA LeaveBlobsKeeps ==
  ASSUME CascadeTypes, TeardownInvariant, NEW c \in Cleaners, LeaveBlobs(c)
  PROVE  CascadeTypes' /\ TeardownInvariant'
  <1>1. CASE Holds(c)
    <2>1. /\ job' = [job EXCEPT !.phase = "children", !.coll = 1, !.cursor = 0]
          /\ work' = Goto(c, "sweep")
      BY <1>1 DEF LeaveBlobs, FencedUpdate
    <2>2. PICK w \in Work : Becomes(c, w) /\ w.pc = "sweep" /\ w.coll = work[c].coll
      BY <2>1, CallTypes, GotoBecomes DEF Pcs
    <2>3. JobMoves("children")
      BY <2>1, CallTypes, JobMovesOn, SandboxConstants DEF Phases
    <2>4. job.phase = "blobs" /\ Covered({})
      BY <1>1 DEF LeaveBlobs, TeardownInvariant, CallInvariantOf, Fits
    <2>5. Placed(w) /\ Fits(w.pc, "children")
      BY <2>2 DEF LeaveBlobs, CascadeTypes, CollectionInvariant, Placed, Fits
    <2>6. Shifts(c, w, "children")
      BY <1>1, <2>2, <2>3, <2>4, <2>5, CallTypes DEF LeaveBlobs, Shifts, spared
    <2> QED
      BY <2>6, ShiftsKeeps
  <1>2. CASE ~Holds(c)
    <2>1. Ends(c)
      BY <1>2, CallTypes, JobSame DEF LeaveBlobs, FencedUpdate, Ends, spared
    <2> QED
      BY <2>1, EndsKeeps
  <1> QED
    BY <1>1, <1>2

LEMMA DeletePageKeeps ==
  ASSUME CascadeTypes, TeardownInvariant, NEW c \in Cleaners, DeletePage(c)
  PROVE  CascadeTypes' /\ TeardownInvariant'
  <1>1. work[c].pc = "sweep" /\ work[c].coll \in Colls /\ Left
    BY DEF DeletePage, CascadeTypes, CollectionInvariant, TeardownInvariant, CallInvariantOf,
           PastBlobs
  <1>2. /\ docs' \in [Colls -> SUBSET Ids]
        /\ \A n \in Colls : docs'[n] \subseteq docs[n]
    BY <1>1, CallTypes DEF DeletePage
  <1>3. Holds(c) => job.phase = "children"
    BY <1>1 DEF TeardownInvariant, CallInvariantOf, Fits
  <1>4. \E w \in Work : Becomes(c, w) /\ w.pc \in {"save", "next"} /\ w.coll = work[c].coll
    <2>1. CASE Page(c) = {} /\ work' = Goto(c, "next")
      BY <2>1, CallTypes, GotoBecomes DEF Pcs
    <2>2. ASSUME NEW last \in Page(c),
                 work' = [work EXCEPT ![c].pc = "save", ![c].cursor = last,
                                      ![c].full = Cardinality(Page(c)) = Batch]
          PROVE  \E w \in Work : Becomes(c, w) /\ w.pc \in {"save", "next"}
                                 /\ w.coll = work[c].coll
      <3>1. PICK full \in BOOLEAN : full = (Cardinality(Page(c)) = Batch)
        OBVIOUS
      <3> DEFINE w == [work[c] EXCEPT !.pc = "save", !.cursor = last, !.full = full]
      <3>2. last \in Ids
        BY <1>1, CallTypes DEF Page, Ahead
      <3>3. w \in Work /\ w.pc = "save" /\ w.coll = work[c].coll
        BY <3>2, CallTypes DEF Work
      <3>4. work' = [work EXCEPT ![c] = w]
        BY <2>2, <3>1
      <3> HIDE DEF w
      <3> QED
        BY <3>3, <3>4 DEF Becomes
    <2> QED
      BY <2>1, <2>2 DEF DeletePage
  <1>5. PICK w \in Work : Becomes(c, w) /\ w.pc \in {"save", "next"} /\ w.coll = work[c].coll
    BY <1>4
  <1>6. Placed(w) /\ (Holds(c) => Fits(w.pc, job.phase))
    BY <1>1, <1>3, <1>5 DEF Placed, Fits
  <1>7. work[c].pc \in PastBlobs
    BY <1>1 DEF PastBlobs
  <1>8. Rests(c, w)
    BY <1>1, <1>2, <1>5, <1>6, <1>7, CallTypes, JobSame DEF DeletePage, Rests, spared
  <1> QED
    BY <1>8, RestsKeeps

LEMMA SaveCursorKeeps ==
  ASSUME CascadeTypes, TeardownInvariant, NEW c \in Cleaners, SaveCursor(c)
  PROVE  CascadeTypes' /\ TeardownInvariant'
  <1>1. CASE Holds(c)
    <2>1. PICK pc \in {"sweep", "next"} : work' = Goto(c, pc)
      BY <1>1 DEF SaveCursor, FencedUpdate
    <2>2. PICK w \in Work : Becomes(c, w) /\ w.pc = pc /\ w.coll = work[c].coll
      BY <2>1, CallTypes, GotoBecomes DEF Pcs
    <2>3. JobRests
      <3>1. job' = [job EXCEPT !.cursor = work[c].cursor]
        BY <1>1 DEF SaveCursor, FencedUpdate
      <3>2. work[c].cursor \in Ids \/ work[c].cursor = 0
        BY CallTypes DEF Work
      <3>3. CASE work[c].cursor \in Ids
        BY <3>1, <3>3, CallTypes, JobAges
      <3>4. CASE work[c].cursor = 0
        <4>1. job' = [job EXCEPT !.cursor = 0]
          BY <3>1, <3>4
        <4> QED
          BY <4>1, CallTypes DEF Job, JobRests, NoGain, Holds
      <3> QED
        BY <3>2, <3>3, <3>4
    <2>4. Placed(w) /\ Fits(w.pc, job.phase)
      BY <1>1, <2>2 DEF SaveCursor, CascadeTypes, CollectionInvariant, TeardownInvariant,
                        CallInvariantOf, Placed, Fits
    <2>5. work[c].pc \in PastBlobs /\ w.pc \notin {"verify", "confirm", "erase", "leave"}
      BY <2>2 DEF SaveCursor, PastBlobs
    <2>6. Rests(c, w)
      BY <2>2, <2>3, <2>4, <2>5, CallTypes DEF SaveCursor, Rests, spared
    <2> QED
      BY <2>6, RestsKeeps
  <1>2. CASE ~Holds(c)
    <2>1. Ends(c)
      BY <1>2, CallTypes, JobSame DEF SaveCursor, FencedUpdate, Ends, spared
    <2> QED
      BY <2>1, EndsKeeps
  <1> QED
    BY <1>1, <1>2

LEMMA NextCollectionKeeps ==
  ASSUME CascadeTypes, TeardownInvariant, NEW c \in Cleaners, NextCollection(c)
  PROVE  CascadeTypes' /\ TeardownInvariant'
  <1> DEFINE n == work[c].coll + 1
  <1>1. n \in 1..Collections + 1
    BY SandboxConstants DEF NextCollection, CascadeTypes, CollectionInvariant, Colls
  <1>2. CASE Holds(c)
    <2>1. PICK pc \in {"sweep", "check"} :
             /\ pc = IF n \in Colls THEN "sweep" ELSE "check"
             /\ work' = [work EXCEPT ![c] = [AtRest EXCEPT !.coll = n, !.pc = pc]]
      BY <1>2 DEF NextCollection, FencedUpdate
    <2>2. job' = [job EXCEPT !.coll = n, !.cursor = 0]
      BY <1>2 DEF NextCollection, FencedUpdate
    <2> HIDE DEF n
    <2> DEFINE w == [AtRest EXCEPT !.coll = n, !.pc = pc]
    <2>3. w \in Work /\ w.pc = pc /\ w.coll = n
      BY <1>1, AtRestType DEF Work
    <2>4. work' = [work EXCEPT ![c] = w]
      BY <2>1
    <2> HIDE DEF w
    <2>5. JobRests
      BY <1>1, <2>2, CallTypes, JobAges
    <2>6. Placed(w) /\ Fits(w.pc, job.phase)
      BY <1>2, <2>1, <2>3 DEF NextCollection, TeardownInvariant, CallInvariantOf, Placed, Fits
    <2>7. work[c].pc \in PastBlobs /\ w.pc \notin {"verify", "confirm", "erase", "leave"}
      BY <2>3 DEF NextCollection, PastBlobs
    <2>8. Rests(c, w)
      BY <2>3, <2>4, <2>5, <2>6, <2>7, CallTypes DEF NextCollection, Becomes, Rests, spared
    <2> QED
      BY <2>8, RestsKeeps
  <1>3. CASE ~Holds(c)
    <2>1. Ends(c)
      BY <1>3, CallTypes, JobSame DEF NextCollection, FencedUpdate, Ends, spared
    <2> QED
      BY <2>1, EndsKeeps
  <1> QED
    BY <1>2, <1>3

LEMMA BeginVerificationKeeps ==
  ASSUME CascadeTypes, TeardownInvariant, NEW c \in Cleaners, BeginVerification(c)
  PROVE  CascadeTypes' /\ TeardownInvariant'
  <1>1. cached' \in BOOLEAN
    BY CallTypes DEF BeginVerification
  <1>2. CASE Holds(c)
    <2> DEFINE w == [AtRest EXCEPT !.pc = "verify"]
    <2>1. w \in Work /\ w.pc = "verify" /\ w.coll = 1
      BY AtRestType DEF Work
    <2>2. job' = [job EXCEPT !.phase = "verifying"] /\ work' = [work EXCEPT ![c] = w]
      BY <1>2 DEF BeginVerification, FencedUpdate
    <2> HIDE DEF w
    <2>3. JobMoves("verifying")
      BY <2>2, CallTypes, JobMovesOn DEF Phases
    <2>4. job.phase = "children"
      BY <1>2 DEF BeginVerification, TeardownInvariant, CallInvariantOf, Fits
    <2>5. Placed(w) /\ Fits(w.pc, "verifying") /\ Becomes(c, w)
      BY <2>1, <2>2, SandboxConstants DEF Placed, Fits, Becomes, Files
    <2>6. Shifts(c, w, "verifying")
      BY <1>1, <1>2, <2>1, <2>3, <2>4, <2>5, CallTypes DEF BeginVerification, Shifts, spared
    <2> QED
      BY <2>6, ShiftsKeeps
  <1>3. CASE ~Holds(c)
    <2>1. Ends(c)
      BY <1>1, <1>3, CallTypes, JobSame DEF BeginVerification, FencedUpdate, Ends, spared
    <2> QED
      BY <2>1, EndsKeeps
  <1> QED
    BY <1>2, <1>3

LEMMA VerifyCollectionKeeps ==
  ASSUME CascadeTypes, TeardownInvariant, NEW c \in Cleaners, VerifyCollection(c)
  PROVE  CascadeTypes' /\ TeardownInvariant'
  <1> DEFINE n == work[c].coll
  <1>1. n \in Colls /\ n + 1 \in 1..Collections + 1 /\ n \in 1..Collections + 1
    BY SandboxConstants DEF VerifyCollection, CascadeTypes, CollectionInvariant, Colls
  <1>2. CASE docs[n] = {}
    <2>1. PICK pc \in {"verify", "confirm"} :
             /\ pc = IF n + 1 \in Colls THEN "verify" ELSE "confirm"
             /\ work' = [work EXCEPT ![c].coll = n + 1, ![c].pc = pc]
             /\ UNCHANGED <<job, late>>
      BY <1>2 DEF VerifyCollection
    <2> DEFINE w == [work[c] EXCEPT !.coll = n + 1, !.pc = pc]
    <2>2. w \in Work /\ w.pc = pc /\ w.coll = n + 1
      <3>1. work[c] \in Work
        BY CallTypes
      <3> HIDE DEF n
      <3> QED
        BY <1>1, <3>1 DEF Work
    <2>3. work' = [work EXCEPT ![c] = w]
      BY <2>1
    <2> HIDE DEF w
    <2>4. Holds(c) => Fits(w.pc, job.phase)
      BY <2>2 DEF VerifyCollection, TeardownInvariant, CallInvariantOf, Fits
    <2>5. Placed(w) /\ work[c].pc \in PastBlobs /\ w.pc \notin {"erase", "leave"}
      <3>1. n + 1 \notin Colls => n + 1 = Collections + 1
        BY <1>1, SandboxConstants DEF Colls
      <3> QED
        BY <2>1, <2>2, <3>1 DEF VerifyCollection, Placed, PastBlobs
    <2>6. ASSUME Holds(c), NEW m \in Colls, m < w.coll
          PROVE  OnlyLate(m)
      <3>1. m < n \/ m = n
        BY <1>1, <2>2, <2>6 DEF Colls
      <3>2. CASE m < n
        BY <2>6, <3>2 DEF VerifyCollection, TeardownInvariant, CallInvariantOf
      <3>3. CASE m = n
        BY <1>2, <3>3 DEF OnlyLate
      <3> QED
        BY <3>1, <3>2, <3>3
    <2>7. JobRests
      BY <2>1, CallTypes, JobSame
    <2>8. Rests(c, w)
      BY <2>1, <2>2, <2>3, <2>4, <2>5, <2>6, <2>7, CallTypes
         DEF VerifyCollection, Becomes, Rests
    <2> QED
      BY <2>8, RestsKeeps
  <1>3. CASE docs[n] # {} /\ Holds(c)
    <2>1. /\ job' = [job EXCEPT !.phase = "children", !.coll = n, !.cursor = 0]
          /\ work' = Over(c) /\ late' = {}
      BY <1>3 DEF VerifyCollection, FencedUpdate
    <2>2. JobMoves("children")
      BY <1>1, <2>1, CallTypes, JobMovesOn DEF Phases
    <2>3. Becomes(c, AtRest) /\ AtRest.pc = "idle"
      BY <2>1, OverBecomes, AtRestType
    <2>4. job.phase = "verifying"
      BY <1>3 DEF VerifyCollection, TeardownInvariant, CallInvariantOf, Fits
    <2>5. Placed(AtRest) /\ Fits(AtRest.pc, "children")
      BY <2>3 DEF Placed, Fits
    <2>6. Left
      BY <2>4 DEF Left
    <2>7. Shifts(c, AtRest, "children")
      BY <1>3, <2>1, <2>2, <2>3, <2>4, <2>5, <2>6, CallTypes DEF VerifyCollection, Shifts
    <2> QED
      BY <2>7, ShiftsKeeps
  <1>4. CASE docs[n] # {} /\ ~Holds(c)
    <2>1. Ends(c)
      BY <1>4, CallTypes, JobSame DEF VerifyCollection, FencedUpdate, Ends
    <2> QED
      BY <2>1, EndsKeeps
  <1> QED
    BY <1>2, <1>3, <1>4

LEMMA ConfirmKeeps ==
  ASSUME CascadeTypes, TeardownInvariant, NEW c \in Cleaners, Confirm(c)
  PROVE  CascadeTypes' /\ TeardownInvariant'
  <1>1. CASE Holds(c)
    <2>1. job' = [job EXCEPT !.phase = "finalizing"] /\ work' = Goto(c, "finalize")
      BY <1>1 DEF Confirm, FencedUpdate
    <2>2. PICK w \in Work : Becomes(c, w) /\ w.pc = "finalize"
      BY <2>1, CallTypes, GotoBecomes DEF Pcs
    <2>3. JobMoves("finalizing")
      BY <2>1, CallTypes, JobMovesOn DEF Phases
    <2>4. job.phase = "verifying"
      BY <1>1 DEF Confirm, TeardownInvariant, CallInvariantOf, Fits
    <2>5. \A n \in Colls : OnlyLate(n)
      <3>1. work[c].coll = Collections + 1
        BY DEF Confirm, CascadeTypes, CollectionInvariant
      <3>2. \A n \in Colls : n < work[c].coll
        BY <3>1, SandboxConstants DEF Colls
      <3> QED
        BY <1>1, <3>2 DEF Confirm, TeardownInvariant, CallInvariantOf
    <2>6. Placed(w) /\ Fits(w.pc, "finalizing")
      BY <2>2 DEF Placed, Fits
    <2>7. Shifts(c, w, "finalizing")
      BY <1>1, <2>2, <2>3, <2>4, <2>5, <2>6, CallTypes DEF Confirm, Shifts, spared
    <2> QED
      BY <2>7, ShiftsKeeps
  <1>2. CASE ~Holds(c)
    <2>1. Ends(c)
      BY <1>2, CallTypes, JobSame DEF Confirm, FencedUpdate, Ends, spared
    <2> QED
      BY <2>1, EndsKeeps
  <1> QED
    BY <1>1, <1>2

LEMMA FinalizeKeeps ==
  ASSUME CascadeTypes, TeardownInvariant, NEW c \in Cleaners, Finalize(c)
  PROVE  CascadeTypes' /\ TeardownInvariant'
  <1>1. CASE Holds(c)
    <2>1. /\ space' = [space EXCEPT !.there = FALSE]
          /\ job' = [job EXCEPT !.phase = "completed", !.holder = Nobody, !.live = FALSE]
          /\ work' = Over(c)
          /\ UNCHANGED <<docs, blobs, writer, cached, late, missed, writes, failures>>
      BY <1>1 DEF Finalize
    <2>2. job.phase = "finalizing"
      BY <1>1 DEF Finalize, TeardownInvariant, CallInvariantOf, Fits
    <2>3. job' \in Job /\ job'.phase = "completed" /\ job'.there = job.there
          /\ job'.holder = Nobody
      <3> DEFINE one == [job EXCEPT !.phase = "completed"]
      <3>1. one \in Job /\ one.phase = "completed" /\ one.there = job.there
        BY CallTypes, PhaseType DEF Phases
      <3>2. job' = [one EXCEPT !.holder = Nobody, !.live = FALSE]
        BY <2>1
      <3> HIDE DEF one
      <3> QED
        BY <3>1, <3>2 DEF Job
    <2>4. space' \in Space
      BY <2>1 DEF CascadeTypes, SandboxTypeOK, Space
    <2>5. Becomes(c, AtRest) /\ Placed(AtRest)
      BY <2>1, OverBecomes, AtRestType DEF Placed
    <2>6. CascadeTypes'
      <3>1. /\ docs' \in [Colls -> SUBSET Ids] /\ blobs' \subseteq Ids /\ cached' \in BOOLEAN
            /\ failures' \in 0..MaxFailures
        BY <2>1, CallTypes
      <3>2. late' \subseteq Colls \X Ids /\ missed' \subseteq Ids
        BY <2>1 DEF CascadeTypes, SandboxTypeOK
      <3> QED
        BY <2>1, <2>3, <2>4, <2>5, <3>1, <3>2, TypesAfter
    <2>7. Left /\ Left' /\ Verified /\ Verified' /\ \A e \in Cleaners : ~Holds(e)'
      BY <2>2, <2>3, SandboxConstants DEF Left, Verified, Holds
    <2>8. \A e \in Cleaners : CallInvariantOf(e)'
      BY <2>7 DEF CallInvariantOf
    <2>9. /\ (\A n \in Colls : OnlyLate(n)') /\ Covered({})'
          /\ \A d \in Ids : writer'[d] = "drop" => d \notin blobs'
      BY <2>1, <2>7 DEF TeardownInvariant, OnlyLate, Covered
    <2>10. job'.there
      BY <1>1, <2>3 DEF TeardownInvariant
    <2> QED
      BY <2>6, <2>7, <2>8, <2>9, <2>10 DEF TeardownInvariant
  <1>2. CASE ~Holds(c)
    <2>1. Ends(c)
      BY <1>2, CallTypes, JobSame DEF Finalize, Ends
    <2> QED
      BY <2>1, EndsKeeps
  <1> QED
    BY <1>1, <1>2

LEMMA TroubleKeeps ==
  ASSUME CascadeTypes, TeardownInvariant, NEW c \in Cleaners, CallRaises(c) \/ CallDies(c)
  PROVE  CascadeTypes' /\ TeardownInvariant'
  <1>1. failures' \in 0..MaxFailures
    BY CallTypes, SandboxConstants DEF CallRaises, CallDies
  <1>2. JobRests
    <2>1. \/ job' = job \/ job' = [job EXCEPT !.holder = Nobody]
          \/ job' = [job EXCEPT !.holder = Nobody, !.live = FALSE, !.wait = TRUE]
      BY DEF CallRaises, RecordFailure, CallDies
    <2>2. TRUE \in BOOLEAN
      OBVIOUS
    <2> QED
      BY <2>1, <2>2, CallTypes, JobSame, JobAges, JobReleased
  <1>3. Ends(c)
    BY <1>1, <1>2, CallTypes DEF CallRaises, RecordFailure, CallDies, Ends
  <1> QED
    BY <1>3, EndsKeeps

LEMMA ClaimCleanupLeaseKeeps ==
  ASSUME CascadeTypes, TeardownInvariant, NEW c \in Cleaners, ClaimCleanupLease(c)
  PROVE  CascadeTypes' /\ TeardownInvariant'
  <1> DEFINE phase == IF ~job.there THEN "pending"
                      ELSE IF job.phase = "completed" THEN "finalizing" ELSE job.phase
             pc == Resume(phase)
             w == [AtRest EXCEPT !.pc = pc,
                       !.coll = IF pc \in {"sweep", "check"} THEN job.coll ELSE 1,
                       !.cursor = IF pc = "sweep" THEN job.cursor ELSE 0]
  <1>1. /\ space.there /\ space' = [space EXCEPT !.deleting = TRUE]
        /\ late' = IF phase = "finalizing" THEN late ELSE {}
        /\ missed' = IF phase \in {"pending", "blobs"} THEN {} ELSE missed
        /\ UNCHANGED <<docs, blobs, writer, cached, writes, failures>>
        /\ job' = [there |-> TRUE, phase |-> phase,
                   coll |-> IF job.phase = "completed" THEN 1 ELSE job.coll,
                   cursor |-> IF job.phase = "completed" THEN 0 ELSE job.cursor,
                   holder |-> c, live |-> TRUE, wait |-> FALSE]
        /\ work' = [work EXCEPT ![c] = w]
    BY DEF ClaimCleanupLease
  <1>2. /\ phase \in {"pending", "blobs", "children", "verifying", "finalizing"}
        /\ phase \in {"pending", "blobs"} <=> ~Left
        /\ phase = "finalizing" <=> Verified
    BY CallTypes DEF Job, Phases, Left, Verified, TeardownInvariant
  <1> HIDE DEF phase
  <1>3. /\ pc \in {"mark", "inventory", "sweep", "check", "verify", "finalize"}
        /\ Fits(pc, phase) /\ (pc \in PastBlobs => Left)
        /\ pc = "sweep" => job.coll \in Colls
    <2>1. CASE phase = "children"
      BY <1>2, <2>1 DEF Resume, Fits, PastBlobs
    <2>2. CASE phase # "children"
      BY <1>2, <2>2 DEF Resume, Fits, PastBlobs
    <2> QED
      BY <2>1, <2>2
  <1> HIDE DEF pc
  <1>4. job.coll \in 1..Collections + 1 /\ job.cursor \in Ids \cup {0}
        /\ 1 \in 1..Collections + 1 /\ 0 \in Ids \cup {0} /\ 1 \in Colls
    BY CallTypes, SandboxConstants DEF Job, Files
  <1>5. w \in Work /\ w.pc = pc /\ w.coll = IF pc \in {"sweep", "check"} THEN job.coll ELSE 1
    <2>1. PICK n \in 1..Collections + 1 : n = IF pc \in {"sweep", "check"} THEN job.coll ELSE 1
      BY <1>4
    <2>2. PICK d \in Ids \cup {0} : d = IF pc = "sweep" THEN job.cursor ELSE 0
      BY <1>4
    <2>3. w = [AtRest EXCEPT !.pc = pc, !.coll = n, !.cursor = d]
      BY <2>1, <2>2
    <2>4. AtRest \in Work
      BY AtRestType
    <2>5. w \in Work /\ w.pc = pc /\ w.coll = n
      BY <1>3, <2>3, <2>4 DEF Work
    <2> QED
      BY <2>1, <2>5
  <1> HIDE DEF w
  <1>6. job' \in Job
    <2>1. PICK n \in 1..Collections + 1 : n = IF job.phase = "completed" THEN 1 ELSE job.coll
      BY <1>4
    <2>2. PICK d \in Ids \cup {0} : d = IF job.phase = "completed" THEN 0 ELSE job.cursor
      BY <1>4
    <2>3. job' = [there |-> TRUE, phase |-> phase, coll |-> n, cursor |-> d,
                  holder |-> c, live |-> TRUE, wait |-> FALSE]
      BY <1>1, <2>1, <2>2
    <2> QED
      BY <1>2, <2>3 DEF Job, Phases
  <1>7. Becomes(c, w) /\ Placed(w)
    BY <1>1, <1>3, <1>4, <1>5 DEF Becomes, Placed
  <1>8. CascadeTypes'
    <2>1. /\ docs' \in [Colls -> SUBSET Ids] /\ blobs' \subseteq Ids /\ cached' \in BOOLEAN
          /\ failures' \in 0..MaxFailures /\ UNCHANGED <<writer, writes>>
      BY <1>1, CallTypes
    <2>2. late' \subseteq Colls \X Ids /\ missed' \subseteq Ids
      BY <1>1 DEF CascadeTypes, SandboxTypeOK
    <2>3. space' \in Space
      BY <1>1 DEF CascadeTypes, SandboxTypeOK, Space
    <2> QED
      BY <1>6, <1>7, <2>1, <2>2, <2>3, TypesAfter
  <1>9. work'[c] = w /\ \A e \in Cleaners \ {c} : work'[e] = work[e]
    BY <1>7, BecomesWork DEF CascadeTypes, SandboxTypeOK
  <1>10. /\ job'.there /\ job'.phase = phase /\ (Left' <=> Left) /\ (Verified' <=> Verified)
         /\ \A e \in Cleaners \ {c} : ~Holds(e)'
    BY <1>1, <1>2 DEF Left, Verified, Holds
  <1>11. space'.there
    BY <1>1 DEF CascadeTypes, SandboxTypeOK, Space
  <1>12. Verified => \A n \in Colls : OnlyLate(n)'
    BY <1>1, <1>2 DEF TeardownInvariant, OnlyLate
  <1>13. Left => Covered({})'
    BY <1>1, <1>2 DEF TeardownInvariant, Covered
  <1>14. ASSUME NEW e \in Cleaners
         PROVE  CallInvariantOf(e)'
    <2>1. CASE e = c
      <3>1. pc = "verify" => \A n \in Colls : ~(n < w.coll)
        BY <1>3, <1>5 DEF Colls
      <3>2. pc \notin {"confirm", "erase", "leave"}
        BY <1>3
      <3> QED
        BY <1>3, <1>5, <1>9, <1>10, <2>1, <3>1, <3>2 DEF CallInvariantOf
    <2>2. CASE e # c
      BY <1>9, <1>10, <2>2 DEF TeardownInvariant, CallInvariantOf
    <2> QED
      BY <2>1, <2>2
  <1>15. \A d \in Ids : writer'[d] = "drop" => d \notin blobs'
    BY <1>1 DEF TeardownInvariant
  <1> QED
    BY <1>8, <1>10, <1>11, <1>12, <1>13, <1>14, <1>15 DEF TeardownInvariant

-----------------------------------------------------------------------------
(* The steps of others: time, members and dispatchers.                     *)
Aside ==
    /\ JobRests /\ UNCHANGED work /\ space' \in Space /\ space'.there = space.there
    /\ docs' \in [Colls -> SUBSET Ids] /\ blobs' \subseteq Ids /\ writer' \in [Ids -> Stages]
    /\ late' \subseteq Colls \X Ids /\ missed' \subseteq Ids /\ cached' \in BOOLEAN
    /\ writes' \in 0..MaxWrites /\ failures' \in 0..MaxFailures
    /\ \A n \in Colls : Passed(n) /\ OnlyLate(n) => OnlyLate(n)'
    /\ \A d \in docs'[Files] :
          d \in blobs' => (d \in docs[Files] /\ d \in blobs) \/ (Escapes(d) => d \in missed')
    /\ \A d \in Ids : writer'[d] = "drop" => d \notin blobs'
    /\ \A d \in missed : d \in missed'

LEMMA AsideKeeps ==
  ASSUME CascadeTypes, TeardownInvariant, Aside
  PROVE  CascadeTypes' /\ TeardownInvariant'
  <1>1. CascadeTypes'
    <2>1. work' \in [Cleaners -> Work] /\ CollectionInvariant'
      BY DEF Aside, CascadeTypes, SandboxTypeOK, CollectionInvariant
    <2>2. job' \in Job
      BY DEF Aside, JobRests
    <2> QED
      BY <2>1, <2>2 DEF Aside, CascadeTypes, SandboxTypeOK
  <1>2. /\ job'.phase = job.phase /\ job'.there = job.there /\ (Left' <=> Left)
        /\ (Verified' <=> Verified) /\ \A e \in Cleaners : Holds(e)' => Holds(e)
    BY DEF Aside, JobRests, NoGain, Left, Verified
  <1>3. ASSUME NEW known, Covered(known), \A d \in Ids : d \notin known => Escapes(d)
        PROVE  \A d \in docs'[Files] : d \in blobs' => d \in known \cup missed'
    <2> SUFFICES ASSUME NEW d \in docs'[Files], d \in blobs', d \notin known
                 PROVE  d \in missed'
      OBVIOUS
    <2>1. d \in Ids /\ Escapes(d)
      BY <1>3 DEF Aside
    <2>2. d \in docs[Files] /\ d \in blobs => d \in missed
      BY <1>3 DEF Covered
    <2> QED
      BY <2>1, <2>2 DEF Aside
  <1>4. Left => Covered({})'
    <2>1. Left => Covered({}) /\ \A d \in Ids : Escapes(d)
      BY DEF Left, Escapes, TeardownInvariant
    <2> QED
      BY <1>3, <2>1 DEF Covered
  <1>5. Verified => \A n \in Colls : OnlyLate(n)'
    BY DEF Verified, Passed, Aside, TeardownInvariant
  <1>6. \A d \in Ids : writer'[d] = "drop" => d \notin blobs'
    BY DEF Aside
  <1>7. ASSUME NEW e \in Cleaners
        PROVE  CallInvariantOf(e)'
    <2>1. CallInvariantOf(e)
      BY DEF TeardownInvariant
    <2>2. work' = work
      BY DEF Aside
    <2>3. ASSUME Holds(e)
          PROVE  /\ work[e].pc \in {"verify", "confirm"} =>
                        \A n \in Colls : n < work[e].coll => OnlyLate(n)'
                 /\ work[e].pc = "erase" =>
                        \A d \in docs'[Files] : d \in blobs' => d \in work[e].found \cup missed'
                 /\ work[e].pc = "leave" =>
                        \A d \in docs'[Files] : d \in blobs' => d \in {} \cup missed'
      <3>1. ASSUME work[e].pc \in {"verify", "confirm"}, NEW n \in Colls, n < work[e].coll
            PROVE  OnlyLate(n)'
        <4>1. Passed(n)
          <5>1. work[e].coll > n
            BY <3>1, CallTypes DEF Colls, Work
          <5> QED
            BY <2>3, <3>1, <5>1 DEF Passed
        <4> QED
          BY <2>1, <2>3, <3>1, <4>1 DEF CallInvariantOf, Aside
      <3>2. /\ work[e].pc = "erase" => \A d \in Ids : d \notin work[e].found => Escapes(d)
            /\ work[e].pc = "leave" => \A d \in Ids : d \notin {} => Escapes(d)
        BY <2>3 DEF Escapes
      <3>3. work[e].pc = "erase" =>
               \A d \in docs'[Files] : d \in blobs' => d \in work[e].found \cup missed'
        BY <1>3, <2>1, <2>3, <3>2 DEF CallInvariantOf
      <3>4. work[e].pc = "leave" => \A d \in docs'[Files] : d \in blobs' => d \in {} \cup missed'
        BY <1>3, <2>1, <2>3, <3>2 DEF CallInvariantOf
      <3> QED
        BY <3>1, <3>3, <3>4
    <2> QED
      BY <1>2, <2>1, <2>2, <2>3 DEF CallInvariantOf, Covered
  <1>8. space'.there = space.there
    BY DEF Aside
  <1> QED
    BY <1>1, <1>2, <1>4, <1>5, <1>6, <1>7, <1>8 DEF TeardownInvariant

LEMMA TimeKeeps ==
  ASSUME CascadeTypes, TeardownInvariant,
         CleanupLeaseExpires \/ CleanupBackoffElapses \/ SandboxExpires \/ TagOperation
  PROVE  CascadeTypes' /\ TeardownInvariant'
  <1>1. JobRests
    <2>1. job' = job \/ job' = [job EXCEPT !.live = FALSE] \/ job' = [job EXCEPT !.wait = FALSE]
      BY DEF CleanupLeaseExpires, CleanupBackoffElapses, SandboxExpires, TagOperation
    <2>2. job \in Job
      BY DEF CascadeTypes, SandboxTypeOK
    <2> QED
      BY <2>1, <2>2, JobSame, JobAges
  <1>2. space' \in Space /\ space'.there = space.there
    <2>1. space \in Space
      BY DEF CascadeTypes, SandboxTypeOK
    <2>2. \/ space' = space \/ space' = [space EXCEPT !.expired = TRUE]
          \/ space' = [space EXCEPT !.sandbox = FALSE, !.expired = FALSE, !.deleting = FALSE]
      BY DEF CleanupLeaseExpires, CleanupBackoffElapses, SandboxExpires, TagOperation, spared
    <2> QED
      BY <2>1, <2>2 DEF Space
  <1>3. failures' \in 0..MaxFailures
    <2>1. failures' = failures \/ (failures < MaxFailures /\ failures' = failures + 1)
      BY DEF CleanupLeaseExpires, CleanupBackoffElapses, SandboxExpires, TagOperation, spared
    <2>2. failures \in 0..MaxFailures
      BY DEF CascadeTypes, SandboxTypeOK
    <2> QED
      BY <2>1, <2>2, SandboxConstants
  <1>4. cached' \in BOOLEAN
    BY DEF CleanupLeaseExpires, CleanupBackoffElapses, SandboxExpires, TagOperation,
           CascadeTypes, SandboxTypeOK
  <1>5. UNCHANGED <<work, docs, blobs, writer, late, missed, writes>>
    BY DEF CleanupLeaseExpires, CleanupBackoffElapses, SandboxExpires, TagOperation, spared
  <1>6. Aside
    <2>1. \A n \in Colls : OnlyLate(n) => OnlyLate(n)'
      BY <1>5 DEF OnlyLate
    <2> QED
      BY <1>1, <1>2, <1>3, <1>4, <1>5, <2>1
         DEF CascadeTypes, SandboxTypeOK, TeardownInvariant, Aside
  <1> QED
    BY <1>6, AsideKeeps

LEMMA LandAside ==
  ASSUME CascadeTypes, NEW n \in Colls, NEW d \in Ids, Land(n, d)
  PROVE  /\ docs' \in [Colls -> SUBSET Ids] /\ late' \subseteq Colls \X Ids
         /\ d \in docs'[n] /\ \A m \in Colls : docs[m] \subseteq docs'[m]
         /\ \A m \in Colls : Passed(m) /\ OnlyLate(m) => OnlyLate(m)'
  <1>1. docs \in [Colls -> SUBSET Ids] /\ late \subseteq Colls \X Ids
    BY DEF CascadeTypes, SandboxTypeOK
  <1>2. docs' = [docs EXCEPT ![n] = docs[n] \cup {d}]
    BY DEF Land
  <1>3. late \subseteq late' /\ late' \subseteq late \cup {<<n, d>>}
        /\ (Passed(n) => <<n, d>> \in late')
    BY DEF Land
  <1>4. \A m \in Colls : docs'[m] = IF m = n THEN docs[n] \cup {d} ELSE docs[m]
    BY <1>1, <1>2
  <1> QED
    BY <1>1, <1>2, <1>3, <1>4 DEF OnlyLate

(* A step of whoever writes file d, which changes that file and no other.  *)
LEMMA WriteFileAside ==
  ASSUME CascadeTypes, TeardownInvariant, NEW d \in Ids, WriteFile(d)
  PROVE  Aside
  <1>1. /\ UNCHANGED <<space, job, work, cached, failures>>
    BY DEF WriteFile, SaveIntent, WriteBytes, CommitUpload, UploadFails, DropIntent, StoreBytes,
           RegisterFile, DiscardBytes
  <1>2. JobRests /\ space' \in Space /\ cached' \in BOOLEAN /\ failures' \in 0..MaxFailures
    BY <1>1, JobSame DEF CascadeTypes, SandboxTypeOK
  <1>3. writes' \in 0..MaxWrites
    <2>1. writes' = writes \/ (writes < MaxWrites /\ writes' = writes + 1)
      BY DEF WriteFile, SaveIntent, WriteBytes, CommitUpload, UploadFails, DropIntent, StoreBytes,
             RegisterFile, DiscardBytes
    <2>2. writes \in 0..MaxWrites
      BY DEF CascadeTypes, SandboxTypeOK
    <2> QED
      BY <2>1, <2>2, SandboxConstants
  <1>4. /\ docs \in [Colls -> SUBSET Ids] /\ blobs \subseteq Ids /\ missed \subseteq Ids
        /\ writer \in [Ids -> Stages] /\ late \subseteq Colls \X Ids
    BY DEF CascadeTypes, SandboxTypeOK
  <1>5. PICK stage \in Stages :
           /\ writer' = [writer EXCEPT ![d] = stage]
           /\ stage = "drop" => blobs' = blobs \ {d}
    BY DEF WriteFile, SaveIntent, WriteBytes, CommitUpload, UploadFails, DropIntent, StoreBytes,
           RegisterFile, DiscardBytes, Stages
  <1>6. /\ writer' \in [Ids -> Stages] /\ writer'[d] = stage
        /\ \A e \in Ids \ {d} : writer'[e] = writer[e]
    <2>1. writer \in [Ids -> Stages]
      BY <1>4
    <2>2. stage \in Stages /\ writer' = [writer EXCEPT ![d] = stage]
      BY <1>5
    <2> QED
      BY <2>1, <2>2
  <1>7. /\ missed' \subseteq Ids /\ \A e \in missed : e \in missed'
        /\ WriteBytes(d) \/ StoreBytes(d) \/ RegisterFile(d) => (Escapes(d) => d \in missed')
    BY <1>4 DEF WriteFile, SaveIntent, WriteBytes, CommitUpload, UploadFails, DropIntent,
                StoreBytes, RegisterFile, DiscardBytes, MissedIfLate
  <1>8. /\ blobs' \subseteq Ids
        /\ \A e \in blobs' : e \in blobs \/ (e = d /\ (WriteBytes(d) \/ StoreBytes(d)))
        /\ SaveIntent(d) => d \notin blobs'
    BY <1>4 DEF WriteFile, SaveIntent, WriteBytes, CommitUpload, UploadFails, DropIntent,
                StoreBytes, RegisterFile, DiscardBytes
  <1>9. \A e \in Ids : writer'[e] = "drop" => e \notin blobs'
    <2> SUFFICES ASSUME NEW e \in Ids, writer'[e] = "drop" PROVE e \notin blobs'
      OBVIOUS
    <2>1. CASE e = d
      <3>1. stage = "drop"
        BY <1>6, <2>1
      <3> QED
        BY <1>5, <2>1, <3>1
    <2>2. CASE e # d
      <3>1. writer'[e] = writer[e]
        BY <1>6, <2>2
      <3>2. e \notin blobs
        BY <3>1 DEF TeardownInvariant
      <3> QED
        BY <1>8, <2>2, <3>2
    <2> QED
      BY <2>1, <2>2
  <1>10. /\ docs' \in [Colls -> SUBSET Ids] /\ late' \subseteq Colls \X Ids
         /\ \A n \in Colls : Passed(n) /\ OnlyLate(n) => OnlyLate(n)'
         /\ \A e \in docs'[Files] :
               e \in docs[Files] \/ (e = d /\ (SaveIntent(d) \/ RegisterFile(d)))
    <2>1. CASE SaveIntent(d) \/ RegisterFile(d)
      <3>1. Land(Files, d)
        BY <2>1 DEF SaveIntent, RegisterFile
      <3>2. docs'[Files] = docs[Files] \cup {d}
        BY <1>4, <3>1, SandboxConstants DEF Land
      <3> QED
        BY <2>1, <3>1, <3>2, LandAside, SandboxConstants
    <2>2. CASE DropIntent(d)
      <3>1. docs' = [docs EXCEPT ![Files] = docs[Files] \ {d}] /\ late' = late
        BY <2>2 DEF DropIntent
      <3>2. \A n \in Colls : docs'[n] \subseteq docs[n]
        BY <1>4, <3>1
      <3>3. docs' \in [Colls -> SUBSET Ids]
        BY <1>4, <3>1, SandboxConstants
      <3> QED
        BY <1>4, <3>1, <3>2, <3>3, SandboxConstants DEF OnlyLate
    <2>3. CASE WriteBytes(d) \/ CommitUpload(d) \/ UploadFails(d) \/ StoreBytes(d) \/ DiscardBytes(d)
      <3>1. UNCHANGED <<docs, late>>
        BY <2>3 DEF WriteBytes, CommitUpload, UploadFails, StoreBytes, DiscardBytes
      <3> QED
        BY <1>4, <3>1 DEF OnlyLate
    <2> QED
      BY <2>1, <2>2, <2>3 DEF WriteFile
  <1>11. \A e \in docs'[Files] :
            e \in blobs' => (e \in docs[Files] /\ e \in blobs) \/ (Escapes(e) => e \in missed')
    BY <1>7, <1>8, <1>10
  <1> QED
    BY <1>1, <1>2, <1>3, <1>6, <1>7, <1>8, <1>9, <1>10, <1>11 DEF Aside

LEMMA MembersKeep ==
  ASSUME CascadeTypes, TeardownInvariant,
         \/ \E n \in Colls, d \in Ids : AddDocument(n, d)
         \/ \E d \in Ids : WriteFile(d)
  PROVE  CascadeTypes' /\ TeardownInvariant'
  <1>1. ASSUME NEW n \in Colls, NEW d \in Ids, AddDocument(n, d)
        PROVE  Aside
    <2>1. /\ Land(n, d) /\ UNCHANGED <<blobs, writer, missed>>
          /\ UNCHANGED <<space, job, work, cached, failures>>
      BY <1>1 DEF AddDocument
    <2>2. JobRests /\ space' \in Space /\ cached' \in BOOLEAN /\ failures' \in 0..MaxFailures
      BY <2>1, JobSame DEF CascadeTypes, SandboxTypeOK
    <2>3. writes' \in 0..MaxWrites
      <3>1. writes < MaxWrites /\ writes' = writes + 1 /\ writes \in 0..MaxWrites
        BY <1>1 DEF AddDocument, CascadeTypes, SandboxTypeOK
      <3> QED
        BY <3>1, SandboxConstants
    <2>4. docs'[Files] = docs[Files]
      BY <1>1, <2>1, SandboxConstants DEF AddDocument, Land, CascadeTypes, SandboxTypeOK
    <2> QED
      BY <2>1, <2>2, <2>3, <2>4, LandAside
         DEF CascadeTypes, SandboxTypeOK, TeardownInvariant, Aside
  <1>2. ASSUME NEW d \in Ids, WriteFile(d)
        PROVE  Aside
    BY <1>2, WriteFileAside
  <1> QED
    BY <1>1, <1>2, AsideKeeps

-----------------------------------------------------------------------------
LEMMA TeardownKept ==
  ASSUME CascadeTypes, TeardownInvariant, [SandboxNext]_cvars
  PROVE  CascadeTypes' /\ TeardownInvariant'
  <1>1. CASE UNCHANGED cvars
    <2>1. JobRests
      BY <1>1, JobSame DEF cvars, CascadeTypes, SandboxTypeOK
    <2>2. UNCHANGED <<work, space, docs, blobs, writer, late, missed, writes, cached, failures>>
      BY <1>1 DEF cvars
    <2>3. \A n \in Colls : OnlyLate(n) => OnlyLate(n)'
      BY <2>2 DEF OnlyLate
    <2>4. Aside
      BY <2>1, <2>2, <2>3 DEF Aside, CascadeTypes, SandboxTypeOK, TeardownInvariant
    <2> QED
      BY <2>4, AsideKeeps
  <1>2. ASSUME NEW c \in Cleaners, AdvanceCascade(c)
        PROVE  CascadeTypes' /\ TeardownInvariant'
    BY <1>2, MarkBlobsKeeps, InventoryKeeps, EraseKeeps, LeaveBlobsKeeps, DeletePageKeeps,
       SaveCursorKeeps, NextCollectionKeeps, BeginVerificationKeeps, VerifyCollectionKeeps,
       ConfirmKeeps, FinalizeKeeps
       DEF AdvanceCascade
  <1> QED
    BY <1>1, <1>2, ClaimCleanupLeaseKeeps, TroubleKeeps, TimeKeeps, MembersKeep
       DEF SandboxNext, Members

LEMMA TeardownInit == SandboxInit => CascadeTypes /\ TeardownInvariant
  <1> SUFFICES ASSUME SandboxInit PROVE CascadeTypes /\ TeardownInvariant
    OBVIOUS
  <1>1. /\ job = NoJob /\ work = [c \in Cleaners |-> AtRest]
        /\ space = [there |-> TRUE, sandbox |-> TRUE, expired |-> FALSE, deleting |-> FALSE]
        /\ docs = [n \in Colls |-> Ids \ {1}] /\ blobs = Ids \ {1}
        /\ writer = [d \in Ids |-> "none"]
        /\ cached \in BOOLEAN /\ late = {} /\ missed = {} /\ writes = 0 /\ failures = 0
    BY DEF SandboxInit
  <1>2. job \in Job /\ job.phase = "pending" /\ job.holder = Nobody /\ ~job.there
    BY <1>1, SandboxConstants DEF NoJob, Job, Phases
  <1>3. work \in [Cleaners -> Work] /\ \A c \in Cleaners : work[c].pc = "idle"
    BY <1>1, AtRestType
  <1>4. space \in Space /\ space.there
    BY <1>1 DEF Space
  <1>5. 0 \in 0..MaxWrites /\ 0 \in 0..MaxFailures
    BY SandboxConstants
  <1>6. CascadeTypes
    BY <1>1, <1>2, <1>3, <1>4, <1>5 DEF CascadeTypes, SandboxTypeOK, CollectionInvariant, Stages
  <1>7. ~Left /\ ~Verified /\ \A c \in Cleaners : ~Holds(c)
    BY <1>2, SandboxConstants DEF Left, Verified, Holds
  <1>8. \A c \in Cleaners : CallInvariantOf(c)
    BY <1>3, <1>7 DEF CallInvariantOf, PastBlobs
  <1>9. \A d \in Ids : writer[d] # "drop"
    BY <1>1
  <1> QED
    BY <1>2, <1>4, <1>6, <1>7, <1>8, <1>9 DEF TeardownInvariant

LEMMA TeardownCorrect == SandboxSpec => [](CascadeTypes /\ TeardownInvariant)
  <1>1. CascadeTypes /\ TeardownInvariant /\ [SandboxNext]_cvars
           => (CascadeTypes /\ TeardownInvariant)'
    BY TeardownKept
  <1> QED
    BY <1>1, TeardownInit, PTL DEF SandboxSpec

(* Job, calls, documents and bytes keep their types.                       *)
THEOREM CascadeTypeCorrect == SandboxSpec => []SandboxTypeOK
  <1>1. CascadeTypes => SandboxTypeOK
    BY DEF CascadeTypes
  <1> QED
    BY <1>1, TeardownCorrect, PTL

(* A record is removed by a page, when all bytes that were listed are      *)
(* gone, or by an uploader that has deleted the bytes.                     *)
LEMMA RecordsGoLast ==
  ASSUME CascadeTypes, TeardownInvariant, [SandboxNext]_cvars
  PROVE  BlobsGoFirst
  <1>1. docs \in [Colls -> SUBSET Ids] /\ Files \in Colls
    BY SandboxConstants DEF CascadeTypes, SandboxTypeOK
  <1>2. CASE docs' = docs
    BY <1>2 DEF BlobsGoFirst
  <1>3. ASSUME NEW n \in Colls, NEW d \in Ids, Land(n, d)
        PROVE  BlobsGoFirst
    <2>1. \A m \in Colls : docs[m] \subseteq docs'[m]
      BY <1>3, LandAside
    <2> QED
      BY <1>1, <2>1 DEF BlobsGoFirst
  <1>4. ASSUME NEW c \in Cleaners, DeletePage(c)
        PROVE  BlobsGoFirst
    <2>1. Left
      BY <1>4 DEF DeletePage, TeardownInvariant, CallInvariantOf, PastBlobs
    <2> QED
      BY <2>1 DEF TeardownInvariant, Covered, BlobsGoFirst
  <1>5. ASSUME NEW d \in Ids, DropIntent(d)
        PROVE  BlobsGoFirst
    <2>1. d \notin blobs
      BY <1>5 DEF DropIntent, TeardownInvariant
    <2>2. docs'[Files] = docs[Files] \ {d}
      BY <1>1, <1>5 DEF DropIntent
    <2> QED
      BY <2>1, <2>2 DEF BlobsGoFirst
  <1>6. ASSUME NEW c \in Cleaners, AdvanceCascade(c)
        PROVE  docs' = docs \/ DeletePage(c)
    BY <1>6 DEF AdvanceCascade, MarkBlobs, Inventory, Erase, LeaveBlobs, SaveCursor,
                NextCollection, BeginVerification, VerifyCollection, Confirm, Finalize
  <1>7. ASSUME NEW d \in Ids, WriteFile(d)
        PROVE  docs' = docs \/ Land(Files, d) \/ DropIntent(d)
    BY <1>7 DEF WriteFile, SaveIntent, WriteBytes, CommitUpload, UploadFails, StoreBytes,
                RegisterFile, DiscardBytes
  <1>8. ASSUME NEW c \in Cleaners, ClaimCleanupLease(c) \/ CallRaises(c) \/ CallDies(c)
        PROVE  docs' = docs
    BY <1>8 DEF ClaimCleanupLease, CallRaises, CallDies
  <1>9. CASE CleanupLeaseExpires \/ CleanupBackoffElapses \/ SandboxExpires \/ TagOperation
              \/ UNCHANGED cvars
    BY <1>2, <1>9 DEF CleanupLeaseExpires, CleanupBackoffElapses, SandboxExpires, TagOperation,
                      cvars
  <1>10. ASSUME NEW n \in Colls, NEW d \in Ids, AddDocument(n, d)
         PROVE  BlobsGoFirst
    BY <1>3, <1>10 DEF AddDocument
  <1> QED
    BY <1>1, <1>2, <1>3, <1>4, <1>5, <1>6, <1>7, <1>8, <1>9, <1>10 DEF SandboxNext, Members

(* Whatever outlives a sandbox was written behind the verification, and a  *)
(* record goes after its bytes unless the file was registered or written   *)
(* behind the inventory, for any number of calls, of collections, of files *)
(* and their writers, of any page size, whoever dies, fails or outlives    *)
(* the lease.                                                              *)
THEOREM TeardownsAreOrderly == SandboxSpec => TeardownIsOrderly
  <1>1. CascadeTypes /\ TeardownInvariant /\ [SandboxNext]_cvars
           => [OnlyLateDocumentsAreLeft' /\ BlobsGoFirst]_cvars
    <2> SUFFICES ASSUME CascadeTypes, TeardownInvariant, [SandboxNext]_cvars
                 PROVE  OnlyLateDocumentsAreLeft' /\ BlobsGoFirst
      OBVIOUS
    <2>1. TeardownInvariant'
      BY TeardownKept
    <2>2. OnlyLateDocumentsAreLeft'
      BY <2>1 DEF TeardownInvariant, OnlyLateDocumentsAreLeft, OnlyLate
    <2> QED
      BY <2>2, RecordsGoLast
  <1> QED
    BY <1>1, TeardownCorrect, PTL DEF SandboxSpec, TeardownIsOrderly
=============================================================================
