-------------------------- MODULE ChatIdempotency --------------------------
(***************************************************************************)
(* One chat turn under one client_message_id: the requests that carry it   *)
(* (the first one and its retries), the idempotency record they claim, its *)
(* lease and version fence, the heartbeat thread beside the long model     *)
(* call, and what a turn leaves behind: a user message, an agent message   *)
(* and a Run, whose ids all follow from the key (execute_chat in           *)
(* api/chat_routes.py over FirestoreStore in services/storage.py).  A      *)
(* retry is a request of its own and issues a lease owner of its own.      *)
(***************************************************************************)
EXTENDS Naturals

CONSTANTS
    Requests,   \* requests with this client_message_id
    Payload,    \* Payload[r]: the hash of what request r asks
    Intent,     \* "plain", "talk" or "breakdown": what the turn does
    None,       \* nothing
    MaxVersion  \* bound on the version up to which heartbeats go on

ASSUME ChatAssumption ==
    /\ None \notin Requests
    /\ None \notin {Payload[r] : r \in Requests}
    /\ Intent \in {"plain", "talk", "breakdown"}
    /\ MaxVersion \in Nat

VARIABLES
    rec,    \* chat_idempotency/<key>
    user,   \* the user message: the payload it was written with
    agent,  \* the agent message: the request that wrote it
    run,    \* the Run: the request that wrote it
    rq      \* local state of every request and its heartbeat thread

hvars == <<rec, user, agent, run, rq>>

Payloads == {Payload[r] : r \in Requests}

Key == [status: {"absent", "in_progress", "completed", "failed"}, version: Nat,
        owner: Requests \cup {None}, lease: {"none", "live", "expired"},
        payload: Payloads \cup {None}]
NoKey == [status |-> "absent", version |-> 0, owner |-> None, lease |-> "none",
          payload |-> None]

Checkpoints == {"saw_user", "saw_run", "saw_agent", "complete"}
Working == {"get_user", "add_user", "get_run", "analyze", "save_run", "get_agent",
            "add_agent"} \cup Checkpoints
Request == [pc: {"idle", "retry", "revoke", "fail", "answered", "over"} \cup Working,
            fenced: BOOLEAN, version: Nat, beat: {"off", "on", "bad", "late"},
            reply: Requests \cup {None}]
NewRequest == [pc |-> "idle", fenced |-> FALSE, version |-> 0, beat |-> "off",
               reply |-> None]

Goto(r, pc) == rq' = [rq EXCEPT ![r].pc = pc]

(* Operators marked "mutant" stand for a bug in the definition after them  *)
(* and are used by no specification; PROJECT.json lists what each breaks.  *)

-----------------------------------------------------------------------------
(* The record is granted to a request: by its creation, when its lease ran *)
(* out, or for the retry of a turn that failed.                            *)
Granted(r) == [rec EXCEPT !.status = "in_progress", !.version = @ + 1,
                          !.owner = r, !.lease = "live"]

Begin(r) ==
    rq' = [rq EXCEPT ![r].pc = "get_user", ![r].fenced = TRUE,
                     ![r].version = rec.version + 1]

Expired == rec.status = "in_progress" /\ rec.lease = "expired"

(* A request that was not granted the record is answered at once, except   *)
(* that a failed turn is tried again.                                      *)
NotAcquired(r) ==
    /\ Goto(r, IF rec.status = "failed" /\ rec.payload = Payload[r] THEN "retry" ELSE "over")
    /\ UNCHANGED rec

Acquire(r) ==
    /\ rq[r].pc = "idle"
    /\ IF rec.status = "absent" \/ Expired
       THEN /\ rec' = [Granted(r) EXCEPT !.payload = IF rec.status = "absent" THEN Payload[r]
                                                                             ELSE @]
            /\ Begin(r)
       ELSE NotAcquired(r)
    /\ UNCHANGED <<user, agent, run>>

(* The transaction is aborted and the record is read instead: when there   *)
(* is none, the request goes on without a lease or a fence.                *)
AcquireConflicts(r) ==
    /\ rq[r].pc = "idle"
    /\ IF rec.status = "absent" THEN Goto(r, "get_user") /\ UNCHANGED rec
                                ELSE NotAcquired(r)
    /\ UNCHANGED <<user, agent, run>>

Retry(r) ==
    /\ rq[r].pc = "retry"
    /\ IF rec.status = "failed" \/ Expired
       THEN rec' = Granted(r) /\ Begin(r)
       ELSE Goto(r, "over") /\ UNCHANGED rec
    /\ UNCHANGED <<user, agent, run>>

-----------------------------------------------------------------------------
(* update_chat_idempotency_fenced for anything but a failure.              *)
Passes(r) ==
    /\ rec.owner = r
    /\ rec.version = rq[r].version
    /\ ~Expired

Extended == [rec EXCEPT !.version = @ + 1, !.lease = "live"]
Completed == [rec EXCEPT !.status = "completed", !.version = @ + 1,
                         !.owner = None, !.lease = "none"]

AfterUser == CASE Intent = "plain" -> "complete"
               [] Intent = "talk" -> "get_agent"
               [] Intent = "breakdown" -> "get_run"

After(pc) == CASE pc = "saw_user" -> AfterUser
               [] pc = "saw_run" -> "get_agent"
               [] pc = "saw_agent" -> "complete"
               [] pc = "complete" -> "answered"

Recorded(pc) == IF pc = "complete" THEN Completed ELSE Extended

Checkpoint(r) ==
    LET pc == rq[r].pc IN
    /\ pc \in Checkpoints
    /\ IF ~rq[r].fenced
       THEN Goto(r, After(pc)) /\ UNCHANGED rec
       ELSE IF Passes(r)
            THEN /\ rec' = Recorded(pc)
                 /\ rq' = [rq EXCEPT ![r].pc = After(pc), ![r].version = @ + 1]
            ELSE Goto(r, "fail") /\ UNCHANGED rec
    /\ UNCHANGED <<user, agent, run>>

(* A checkpoint that raises may have been written.                         *)
CheckpointRaises(r) ==
    LET pc == rq[r].pc IN
    /\ pc \in Checkpoints /\ rq[r].fenced
    /\ rec' \in {rec, IF Passes(r) THEN Recorded(pc) ELSE rec}
    /\ Goto(r, "fail")
    /\ UNCHANGED <<user, agent, run>>

GetUserMessage(r) ==
    /\ rq[r].pc = "get_user"
    /\ Goto(r, IF user = None THEN "add_user" ELSE AfterUser)
    /\ UNCHANGED <<rec, user, agent, run>>

(* Mutant: a message that could not be stored does not stop the turn.      *)
AddRaisesSwallowed(r) == Goto(r, IF rq[r].pc = "add_user" THEN "saw_user" ELSE "saw_agent")

(* add_message creates what is absent; it may raise before or after that.  *)
AddRaises(r) == Goto(r, "fail")

UserAdded(r) == IF user = None THEN Payload[r] ELSE user

AddUserMessage(r) ==
    /\ rq[r].pc = "add_user"
    /\ \/ user' = UserAdded(r) /\ Goto(r, "saw_user")
       \/ user' \in {user, UserAdded(r)} /\ AddRaises(r)
    /\ UNCHANGED <<rec, agent, run>>

GetRun(r) ==
    /\ rq[r].pc = "get_run"
    /\ rq' = IF run = None
             THEN [rq EXCEPT ![r].pc = "analyze",
                             ![r].beat = IF rq[r].fenced THEN "on" ELSE "off"]
             ELSE [rq EXCEPT ![r].pc = "get_agent"]
    /\ UNCHANGED <<rec, user, agent, run>>

-----------------------------------------------------------------------------
(* The heartbeat thread beside analyze_treatment.  A late beat is one that *)
(* was in the store when the join timed out.                               *)
Heartbeat(r) ==
    /\ rq[r].beat \in {"on", "late"}
    /\ rec.version < MaxVersion
    /\ LET passed == Passes(r)
           beat == IF rq[r].beat = "late" THEN "off" ELSE IF passed THEN "on" ELSE "bad"
       IN /\ rec' = IF passed THEN Extended ELSE rec
          /\ rq' = [rq EXCEPT ![r].beat = beat,
                              ![r].version = IF passed THEN @ + 1 ELSE @]
    /\ UNCHANGED <<user, agent, run>>

HeartbeatRaises(r) ==
    /\ rq[r].beat \in {"on", "late"}
    /\ rec' \in {rec, IF Passes(r) /\ rec.version < MaxVersion THEN Extended ELSE rec}
    /\ rq' = [rq EXCEPT ![r].beat = IF @ = "late" THEN "off" ELSE "bad"]
    /\ UNCHANGED <<user, agent, run>>

Analyze(r) ==
    /\ rq[r].pc = "analyze"
    /\ rq' = [rq EXCEPT ![r].pc = IF rq[r].beat = "bad" THEN "revoke" ELSE "save_run",
                        ![r].beat = "off"]
    /\ UNCHANGED <<rec, user, agent, run>>

JoinTimesOut(r) ==
    /\ rq[r].pc = "analyze" /\ rq[r].beat = "on"
    /\ rq' = [rq EXCEPT ![r].pc = "revoke", ![r].beat = "late"]
    /\ UNCHANGED <<rec, user, agent, run>>

(* Mutant: the Run is saved without regard to the record.                  *)
MaySaveUnfenced(r) == TRUE

(* save_run_fenced compares the version, not the owner.                    *)
MaySave(r) == rq[r].fenced => rec.version = rq[r].version /\ ~Expired

SaveRun(r) ==
    /\ rq[r].pc = "save_run"
    /\ IF MaySave(r)
       THEN run' = (IF run = None THEN r ELSE run) /\ Goto(r, "saw_run")
       ELSE Goto(r, "over") /\ UNCHANGED run
    /\ UNCHANGED <<rec, user, agent>>

(* A conflict ends the request and leaves the record in progress.          *)
SaveRunRaises(r) ==
    /\ rq[r].pc = "save_run"
    /\ run' \in {run, IF MaySave(r) /\ run = None THEN r ELSE run}
    /\ \E pc \in {"fail", "over"} : Goto(r, pc)
    /\ UNCHANGED <<rec, user, agent>>

GetAgentMessage(r) ==
    /\ rq[r].pc = "get_agent"
    /\ rq' = [rq EXCEPT ![r].pc = IF agent = None THEN "add_agent" ELSE "complete",
                        ![r].reply = IF agent = None THEN r ELSE agent]
    /\ UNCHANGED <<rec, user, agent, run>>

AgentAdded(r) == IF agent = None THEN r ELSE agent

AddAgentMessage(r) ==
    /\ rq[r].pc = "add_agent"
    /\ \/ agent' = AgentAdded(r) /\ Goto(r, "saw_agent")
       \/ agent' \in {agent, AgentAdded(r)} /\ AddRaises(r)
    /\ UNCHANGED <<rec, user, run>>

-----------------------------------------------------------------------------
(* A read or a model call raises.                                          *)
TurnRaises(r) ==
    /\ rq[r].pc \in Working \ Checkpoints
    /\ rq' = [rq EXCEPT ![r].pc = IF rq[r].beat = "bad" THEN "revoke" ELSE "fail",
                        ![r].beat = "off"]
    /\ UNCHANGED <<rec, user, agent, run>>

(* Mutant: a failing request fails the turn whoever holds it.              *)
OwnsAny(r) == rq[r].fenced

Owns(r) == rq[r].fenced /\ rec.owner = r

(* Mutant: the owner stays on a failed record.                             *)
FailedOwned == [rec EXCEPT !.status = "failed", !.version = @ + 1]

Failed == [rec EXCEPT !.status = "failed", !.version = @ + 1, !.owner = None,
                      !.lease = "none"]

(* The turn is failed by its owner, whatever the version.                  *)
FailTurn(r) ==
    /\ rq[r].pc \in {"revoke", "fail"}
    /\ rec' = IF Owns(r) THEN Failed ELSE rec
    /\ Goto(r, "over")
    /\ UNCHANGED <<user, agent, run>>

FailRaises(r) ==
    /\ rq[r].pc \in {"revoke", "fail"}
    /\ Goto(r, IF rq[r].pc = "revoke" THEN "fail" ELSE "over")
    /\ UNCHANGED <<rec, user, agent, run>>

RequestDies(r) ==
    /\ rq[r].pc \notin {"idle", "answered", "over"}
    /\ rq' = [rq EXCEPT ![r].pc = "over", ![r].beat = "off"]
    /\ UNCHANGED <<rec, user, agent, run>>

TurnLeaseExpires ==
    /\ rec.lease = "live"
    /\ rec' = [rec EXCEPT !.lease = "expired"]
    /\ UNCHANGED <<user, agent, run, rq>>

-----------------------------------------------------------------------------
ChatInit ==
    /\ rec = NoKey
    /\ user = None /\ agent = None /\ run = None
    /\ rq = [r \in Requests |-> NewRequest]

ChatNext ==
    \/ \E r \in Requests :
          \/ Acquire(r) \/ AcquireConflicts(r) \/ Retry(r)
          \/ GetUserMessage(r) \/ AddUserMessage(r) \/ Checkpoint(r) \/ GetRun(r)
          \/ Analyze(r) \/ SaveRun(r) \/ GetAgentMessage(r) \/ AddAgentMessage(r)
          \/ FailTurn(r)
          \/ Heartbeat(r) \/ HeartbeatRaises(r) \/ JoinTimesOut(r)
          \/ CheckpointRaises(r) \/ SaveRunRaises(r) \/ TurnRaises(r) \/ FailRaises(r)
          \/ RequestDies(r)
    \/ TurnLeaseExpires

ChatSpec == ChatInit /\ [][ChatNext]_hvars

-----------------------------------------------------------------------------
(* Every variable stays in its type; owner and lease are there exactly     *)
(* while the turn is in progress.                                          *)
ChatTypeOK ==
    /\ rec \in Key
    /\ rec.owner # None <=> rec.status = "in_progress"
    /\ rec.lease # "none" <=> rec.status = "in_progress"
    /\ user \in Payloads \cup {None}
    /\ agent \in Requests \cup {None}
    /\ run \in Requests \cup {None}
    /\ rq \in [Requests -> Request]

(* One request under a lease works the turn to its end, and the turn stays *)
(* completed: whoever was taken over, retried or fails late neither        *)
(* answers a second time nor takes the completion back.                    *)
Answered == {r \in Requests : rq[r].fenced /\ rq[r].pc = "answered"}
OneAnswer ==
    /\ \A r, s \in Answered : r = s
    /\ Answered # {} => rec.status = "completed"

(* Of the requests that were granted the record only the one that holds it *)
(* creates the Run, although save_run_fenced never looks at the owner.     *)
HolderSavesRun ==
    [][run # run' /\ rq[run'].fenced
          => rec.owner = run' /\ rec.lease = "live"]_hvars

(* What was completed can be answered again from the store: the messages   *)
(* and the Run of the turn are there, whichever of the requests wrote them.*)
CompletedIsStored ==
    rec.status = "completed" =>
        /\ user # None
        /\ Intent # "plain" => agent # None
        /\ Intent = "breakdown" => run # None

(* The reply that was answered is the one that is stored, and that every   *)
(* retry will see.                                                         *)
AnswerIsStored ==
    \A r \in Answered : agent # None => rq[r].reply = agent

(* All work under a key is for the payload the key was claimed with.       *)
OnePayload ==
    \A r \in Requests : rec.owner = r => rec.payload = Payload[r]
=============================================================================
