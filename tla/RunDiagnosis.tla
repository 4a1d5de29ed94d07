---------------------------- MODULE RunDiagnosis ----------------------------
(***************************************************************************)
(* The diagnosis of one Run (services/diagnosis_service.py): a request     *)
(* claims the generation of the Run's telemetry under a lease of fifteen   *)
(* seconds, a chat turn claims nothing, and both run the engine and then   *)
(* commit document, pointer and claim in one transaction that compares the *)
(* generation and the revision they read when they began.  Verifications   *)
(* of the telemetry advance the generation meanwhile.                      *)
(***************************************************************************)
EXTENDS Naturals, FiniteSets

CONSTANTS
    Processes,      \* server processes, each with one call at a time
    Nobody,           \* nobody
    MaxGeneration,  \* bound on telemetry_generation
    MaxRevision,    \* bound on diagnosis_revision, at which chat turns stop
    MaxTroubles     \* bound on the calls that fail, die or outlive their lease

ASSUME DiagnosisAssumption ==
    /\ Nobody \notin Processes
    /\ MaxGeneration \in Nat \ {0} /\ MaxRevision \in Nat /\ MaxTroubles \in Nat

VARIABLES
    run,     \* runs/<id>: generation, diagnosis_revision, what latest_diagnosis_id names
    docs,    \* the generations with a document in diagnoses
    claim,   \* diagnosis_claims/<space>_<run>
    call,    \* the call under way in every process
    cache,   \* cache[p]: the generations whose diagnosis process p remembers
    troubles

dvars == <<run, docs, claim, call, cache, troubles>>

Generations == 1..MaxGeneration
Run == [gen: Generations, rev: Nat, latest: Generations \cup {0}]
DiagnosisClaim == [status: {"none", "running", "completed", "failed"},
                   gen: Generations \cup {0}, holder: Processes \cup {Nobody},
                   live: BOOLEAN]
Call == [pc: {"idle", "lookup", "claim", "poll", "engine", "commit", "fail"},
         claims: BOOLEAN, gen: Generations \cup {0}, rev: Nat]
NoCall == [pc |-> "idle", claims |-> FALSE, gen |-> 0, rev |-> 0]

GoOn(p, pc) == [call EXCEPT ![p].pc = pc]
Return(p) == [call EXCEPT ![p] = NoCall]
Remember(p) == [cache EXCEPT ![p] = @ \cup {call[p].gen}]

(* Operators marked "mutant" stand for a bug in the definition after them  *)
(* and are used by no specification; PROJECT.json lists what each breaks.  *)

-----------------------------------------------------------------------------
(* A call reads the Run; a diagnosis the process remembers ends it.        *)
Begin(p, claims) ==
    /\ call[p].pc = "idle" /\ run.gen \notin cache[p]
    /\ ~claims => run.rev < MaxRevision
    /\ call' = [call EXCEPT ![p] = [pc |-> IF claims THEN "lookup" ELSE "engine",
                    claims |-> claims, gen |-> run.gen, rev |-> run.rev]]
    /\ UNCHANGED <<run, docs, claim, cache, troubles>>

DiagnoseRun(p) == Begin(p, TRUE)
DiagnoseRunForRun(p) == Begin(p, FALSE)

(* get_diagnosis: what the Run points to, if it is of the generation read. *)
Found(p) == run.latest = call[p].gen

GetDiagnosis(p) ==
    /\ call[p].pc = "lookup"
    /\ IF Found(p) THEN call' = Return(p) /\ cache' = Remember(p)
                   ELSE call' = GoOn(p, "claim") /\ UNCHANGED cache
    /\ UNCHANGED <<run, docs, claim, troubles>>

(* Mutant: a claim whose lease ran out goes on refusing.                   *)
RefusesRunning(p) == claim.gen = call[p].gen /\ claim.status = "running"

(* A live claim of the same generation refuses; one of another generation  *)
(* is overridden.                                                          *)
Refuses(p) == claim.gen = call[p].gen /\ claim.status = "running" /\ claim.live

Done(p) == claim.gen = call[p].gen /\ claim.status = "completed" /\ claim.gen \in docs

ClaimRunDiagnosis(p) ==
    /\ call[p].pc = "claim"
    /\ \/ run.gen # call[p].gen /\ call' = Return(p) /\ UNCHANGED <<claim, cache>>
       \/ /\ run.gen = call[p].gen /\ Done(p)
          /\ call' = Return(p) /\ cache' = Remember(p) /\ UNCHANGED claim
       \/ /\ run.gen = call[p].gen /\ ~Done(p) /\ Refuses(p)
          /\ call' = GoOn(p, "poll") /\ UNCHANGED <<claim, cache>>
       \/ /\ run.gen = call[p].gen /\ ~Done(p) /\ ~Refuses(p)
          /\ claim' = [status |-> "running", gen |-> call[p].gen, holder |-> p, live |-> TRUE]
          /\ call' = GoOn(p, "engine") /\ UNCHANGED cache
    /\ UNCHANGED <<run, docs, troubles>>

(* The refused call looks for the diagnosis of the other one for a while.  *)
Poll(p) ==
    /\ call[p].pc = "poll"
    /\ call' = Return(p)
    /\ cache' \in {cache, IF Found(p) THEN Remember(p) ELSE cache}
    /\ UNCHANGED <<run, docs, claim, troubles>>

-----------------------------------------------------------------------------
Engine(p) ==
    /\ call[p].pc = "engine"
    /\ call' = GoOn(p, "commit")
    /\ UNCHANGED <<run, docs, claim, cache, troubles>>

EngineRaises(p) ==
    /\ call[p].pc = "engine" /\ troubles < MaxTroubles
    /\ call' = IF call[p].claims THEN GoOn(p, "fail") ELSE Return(p)
    /\ troubles' = troubles + 1
    /\ UNCHANGED <<run, docs, claim, cache>>

(* Mutant: the generation is compared and the revision is not.             *)
AsReadUpToGeneration(p) == run.gen = call[p].gen

(* Nothing has happened to the Run since the call read it.                 *)
AsRead(p) == run.gen = call[p].gen /\ run.rev = call[p].rev

HoldsClaim(p) == claim.status = "running" /\ claim.holder = p

(* Document, pointer and revision, and the claim where there is one.       *)
Committed(p) ==
    /\ run' = [run EXCEPT !.rev = @ + 1, !.latest = call[p].gen]
    /\ docs' = docs \cup {call[p].gen}
    /\ claim' = IF call[p].claims
                THEN [claim EXCEPT !.status = "completed", !.live = FALSE] ELSE claim

(* The lease is compared with the time at which the call began: one that   *)
(* has just run out may pass or not.                                       *)
Commit(p) ==
    /\ call[p].pc = "commit"
    /\ \/ /\ AsRead(p) /\ (call[p].claims => HoldsClaim(p))
          /\ Committed(p)
          /\ call' = Return(p) /\ cache' = Remember(p)
       \/ /\ ~AsRead(p) \/ (call[p].claims /\ ~(HoldsClaim(p) /\ claim.live))
          /\ call' = IF call[p].claims THEN GoOn(p, "fail") ELSE Return(p)
          /\ UNCHANGED <<run, docs, claim, cache>>
    /\ UNCHANGED troubles

(* The commit raises, and was done or was not.                             *)
CommitRaises(p) ==
    /\ call[p].pc = "commit" /\ troubles < MaxTroubles
    /\ \/ AsRead(p) /\ (call[p].claims => HoldsClaim(p)) /\ Committed(p)
       \/ UNCHANGED <<run, docs, claim>>
    /\ call' = IF call[p].claims THEN GoOn(p, "fail") ELSE Return(p)
    /\ troubles' = troubles + 1
    /\ UNCHANGED cache

FailRunDiagnosisClaim(p) ==
    /\ call[p].pc = "fail"
    /\ claim' = IF HoldsClaim(p) /\ claim.live
                THEN [claim EXCEPT !.status = "failed", !.live = FALSE] ELSE claim
    /\ call' = Return(p)
    /\ UNCHANGED <<run, docs, cache, troubles>>

Advance(p) ==
    \/ GetDiagnosis(p) \/ ClaimRunDiagnosis(p) \/ Poll(p)
    \/ Engine(p) \/ Commit(p) \/ FailRunDiagnosisClaim(p)

-----------------------------------------------------------------------------
(* update_run_telemetry_status advances the generation.                    *)
NewGeneration ==
    /\ run.gen < MaxGeneration
    /\ run' = [run EXCEPT !.gen = @ + 1]
    /\ UNCHANGED <<docs, claim, call, cache, troubles>>

ProcessDies(p) ==
    /\ call[p].pc # "idle" /\ troubles < MaxTroubles
    /\ call' = Return(p) /\ cache' = [cache EXCEPT ![p] = {}]
    /\ claim' = IF claim.holder = p THEN [claim EXCEPT !.holder = Nobody] ELSE claim
    /\ troubles' = troubles + 1
    /\ UNCHANGED <<run, docs>>

(* A lease runs out behind a call that is over, or under one.              *)
Abandoned ==
    \A p \in Processes : claim.holder = p => call[p].pc \notin {"engine", "commit", "fail"}

ClaimExpires ==
    /\ claim.live
    /\ IF Abandoned THEN UNCHANGED troubles
       ELSE troubles < MaxTroubles /\ troubles' = troubles + 1
    /\ claim' = [claim EXCEPT !.live = FALSE]
    /\ UNCHANGED <<run, docs, call, cache>>

CacheExpires(p) ==
    /\ \E g \in cache[p] : cache' = [cache EXCEPT ![p] = @ \ {g}]
    /\ UNCHANGED <<run, docs, claim, call, troubles>>

DiagnosisInit ==
    /\ run = [gen |-> 1, rev |-> 0, latest |-> 0]
    /\ docs = {}
    /\ claim = [status |-> "none", gen |-> 0, holder |-> Nobody, live |-> FALSE]
    /\ call = [p \in Processes |-> NoCall]
    /\ cache = [p \in Processes |-> {}]
    /\ troubles = 0

DiagnosisNext ==
    \/ \E p \in Processes :
           \/ DiagnoseRun(p) \/ DiagnoseRunForRun(p) \/ Advance(p)
           \/ EngineRaises(p) \/ CommitRaises(p) \/ ProcessDies(p) \/ CacheExpires(p)
    \/ NewGeneration \/ ClaimExpires

DiagnosisSpec == DiagnosisInit /\ [][DiagnosisNext]_dvars

(* Somebody asks for the diagnosis for ever; a call goes on unless it dies, *)
(* and an abandoned lease runs out.                                        *)
DiagnosisFairness ==
    /\ \A p \in Processes : WF_dvars(DiagnoseRun(p)) /\ WF_dvars(Advance(p))
    /\ WF_dvars(Abandoned /\ ClaimExpires)

FairDiagnosisSpec == DiagnosisSpec /\ DiagnosisFairness

-----------------------------------------------------------------------------
DiagnosisTypeOK ==
    /\ run \in Run /\ docs \subseteq Generations /\ claim \in DiagnosisClaim
    /\ call \in [Processes -> Call]
    /\ cache \in [Processes -> SUBSET Generations]
    /\ troubles \in 0..MaxTroubles

(* Whoever is told of a diagnosis is told of one that was committed: what  *)
(* a process remembers, a completed claim and the Run's pointer name a     *)
(* document that is there.                                                 *)
RememberedIsCommitted ==
    /\ \A p \in Processes : cache[p] \subseteq docs
    /\ claim.status = "completed" => claim.gen \in docs
    /\ run.latest # 0 => run.latest \in docs

(* A claimed call never replaces the diagnosis of its generation: neither  *)
(* that of a call which took the claim over, nor that of a chat turn that  *)
(* claims nothing, and it never diagnoses a generation that has passed.    *)
ClaimedDiagnosisIsFirst ==
    [][\A p \in Processes :
          call[p].pc = "commit" /\ call[p].claims /\ run'.rev # run.rev
              /\ call'[p].pc # "commit"
          => run.latest # run'.latest /\ run'.latest = run.gen]_dvars

(* A generation that stands is diagnosed in the end, whoever died with the *)
(* claim and whatever was refused meanwhile.                               *)
StandingIsDiagnosed == <>[](run.latest = run.gen)

-----------------------------------------------------------------------------
(* What one might expect besides and the code does not give: a chat turn   *)
(* in a process that does not remember diagnoses the generation again.     *)
DiagnosedOnce ==
    [][run'.rev # run.rev => run.latest # run'.latest]_dvars
=============================================================================
