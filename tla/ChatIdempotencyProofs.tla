----------------------- MODULE ChatIdempotencyProofs -----------------------
(***************************************************************************)
(* Proofs about ChatIdempotency, for every set of requests, whatever they  *)
(* ask, every kind of turn and every bound.  ChatTypeOK is inductive by    *)
(* itself, and so are TurnInvariant, given ChatTypeOK, and                 *)
(* StoredInvariant, given both; the safety properties follow from them.    *)
(***************************************************************************)
EXTENDS ChatIdempotency, TLAPS

(* A request that goes on, changes its version or its heartbeat, is a      *)
(* request again.                                                          *)
LEMMA PcType ==
  ASSUME rq \in [Requests -> Request], NEW r \in Requests,
         NEW pc \in {"idle", "retry", "revoke", "fail", "answered", "over"} \cup Working
  PROVE  [rq EXCEPT ![r].pc = pc] \in [Requests -> Request]
  <1> DEFINE q == [rq[r] EXCEPT !.pc = pc]
  <1>1. rq[r] \in Request
    OBVIOUS
  <1>2. q \in Request
    BY <1>1 DEF Request
  <1> QED
    BY <1>2

LEMMA PcBeatType ==
  ASSUME rq \in [Requests -> Request], NEW r \in Requests,
         NEW pc \in {"idle", "retry", "revoke", "fail", "answered", "over"} \cup Working,
         NEW beat \in {"off", "on", "bad", "late"}
  PROVE  [rq EXCEPT ![r].pc = pc, ![r].beat = beat] \in [Requests -> Request]
  <1> DEFINE q == [rq[r] EXCEPT !.pc = pc, !.beat = beat]
  <1>1. rq[r] \in Request
    OBVIOUS
  <1>2. q \in Request
    BY <1>1 DEF Request
  <1> QED
    BY <1>2

LEMMA BeatVersionType ==
  ASSUME rq \in [Requests -> Request], NEW r \in Requests, NEW v \in Nat,
         NEW beat \in {"off", "on", "bad", "late"}
  PROVE  [rq EXCEPT ![r].beat = beat, ![r].version = v] \in [Requests -> Request]
  <1> DEFINE q == [rq[r] EXCEPT !.beat = beat, !.version = v]
  <1>1. rq[r] \in Request
    OBVIOUS
  <1>2. q \in Request
    BY <1>1 DEF Request
  <1> QED
    BY <1>2

LEMMA PcVersionType ==
  ASSUME rq \in [Requests -> Request], NEW r \in Requests, NEW v \in Nat,
         NEW pc \in {"idle", "retry", "revoke", "fail", "answered", "over"} \cup Working
  PROVE  [rq EXCEPT ![r].pc = pc, ![r].version = v] \in [Requests -> Request]
  <1> DEFINE q == [rq[r] EXCEPT !.pc = pc, !.version = v]
  <1>1. rq[r] \in Request
    OBVIOUS
  <1>2. q \in Request
    BY <1>1 DEF Request
  <1> QED
    BY <1>2

LEMMA ReplyType ==
  ASSUME rq \in [Requests -> Request], NEW r \in Requests, NEW reply \in Requests,
         NEW pc \in {"idle", "retry", "revoke", "fail", "answered", "over"} \cup Working
  PROVE  [rq EXCEPT ![r].pc = pc, ![r].reply = reply] \in [Requests -> Request]
  <1> DEFINE q == [rq[r] EXCEPT !.pc = pc, !.reply = reply]
  <1>1. rq[r] \in Request
    OBVIOUS
  <1>2. q \in Request
    BY <1>1 DEF Request
  <1> QED
    BY <1>2

LEMMA FencedType ==
  ASSUME rq \in [Requests -> Request], NEW r \in Requests, NEW v \in Nat,
         NEW fenced \in BOOLEAN, NEW pc \in Working
  PROVE  [rq EXCEPT ![r].pc = pc, ![r].fenced = fenced, ![r].version = v]
           \in [Requests -> Request]
  <1> DEFINE q == [rq[r] EXCEPT !.pc = pc, !.fenced = fenced, !.version = v]
  <1>1. rq[r] \in Request
    OBVIOUS
  <1>2. q \in Request
    BY <1>1 DEF Request
  <1> QED
    BY <1>2

LEMMA BeginType ==
  ASSUME rq \in [Requests -> Request], rec \in Key, NEW r \in Requests, Begin(r)
  PROVE  rq' \in [Requests -> Request]
  <1>1. PICK v \in Nat : v = rec.version + 1
    BY DEF Key
  <1>2. PICK fenced \in BOOLEAN : fenced = TRUE
    BY Zenon
  <1>3. rq' = [rq EXCEPT ![r].pc = "get_user", ![r].fenced = fenced, ![r].version = v]
    BY <1>1, <1>2, Zenon DEF Begin
  <1>4. "get_user" \in Working
    BY DEF Working
  <1> QED
    BY <1>3, <1>4, FencedType, Zenon

(* What the record may become is a record again, whose owner and lease are *)
(* there while the turn is in progress, and how each write moves it.       *)
KeyOK == /\ rec \in Key
         /\ rec.owner # None <=> rec.status = "in_progress"
         /\ rec.lease # "none" <=> rec.status = "in_progress"

LEMMA NoneIsNoRequest == None \notin Requests
  BY ChatAssumption

LEMMA GrantedType ==
  ASSUME KeyOK, NEW r \in Requests, rec' = Granted(r)
  PROVE  /\ KeyOK'
         /\ rec'.version = rec.version + 1 /\ rec'.owner = r
         /\ rec'.status = "in_progress"
  <1>1. PICK v \in Nat : v = rec.version + 1
    BY DEF KeyOK, Key
  <1>2. rec' = [rec EXCEPT !.status = "in_progress", !.version = v,
                         !.owner = r, !.lease = "live"]
    BY <1>1, Zenon DEF Granted
  <1> QED
    BY <1>1, <1>2, NoneIsNoRequest DEF KeyOK, Key

LEMMA ClaimedType ==
  ASSUME KeyOK, NEW r \in Requests, NEW p \in Payloads \cup {None},
         rec' = [Granted(r) EXCEPT !.payload = p]
  PROVE  /\ KeyOK'
         /\ rec'.version = rec.version + 1 /\ rec'.owner = r
         /\ rec'.status = "in_progress"
  <1>1. PICK v \in Nat : v = rec.version + 1
    BY DEF KeyOK, Key
  <1>2. rec' = [[rec EXCEPT !.status = "in_progress", !.version = v,
                          !.owner = r, !.lease = "live"] EXCEPT !.payload = p]
    BY <1>1, Zenon DEF Granted
  <1> QED
    BY <1>1, <1>2, NoneIsNoRequest DEF KeyOK, Key

LEMMA ExtendedType ==
  ASSUME KeyOK, NEW r \in Requests, Passes(r), rec' = Extended
  PROVE  /\ KeyOK'
         /\ rec'.version = rec.version + 1 /\ rec'.owner = r
         /\ rec.status = "in_progress" /\ rec'.status = "in_progress"
  <1>1. PICK v \in Nat : v = rec.version + 1
    BY DEF KeyOK, Key
  <1>2. rec' = [rec EXCEPT !.version = v, !.lease = "live"]
    BY <1>1, Zenon DEF Extended
  <1> QED
    BY <1>1, <1>2, NoneIsNoRequest DEF KeyOK, Key, Passes

LEMMA CompletedType ==
  ASSUME KeyOK, NEW r \in Requests, Passes(r), rec' = Completed
  PROVE  /\ KeyOK'
         /\ rec'.version = rec.version + 1
         /\ rec.status = "in_progress" /\ rec'.status = "completed"
  <1>1. PICK v \in Nat : v = rec.version + 1
    BY DEF KeyOK, Key
  <1>2. rec' = [rec EXCEPT !.status = "completed", !.version = v,
                         !.owner = None, !.lease = "none"]
    BY <1>1, Zenon DEF Completed
  <1> QED
    BY <1>1, <1>2, NoneIsNoRequest DEF KeyOK, Key, Passes

LEMMA FailedType ==
  ASSUME KeyOK, NEW r \in Requests, Owns(r), rec' = Failed
  PROVE  /\ KeyOK'
         /\ rec'.version = rec.version + 1
         /\ rec.status = "in_progress" /\ rec'.status = "failed"
  <1>1. PICK v \in Nat : v = rec.version + 1
    BY DEF KeyOK, Key
  <1>2. rec' = [rec EXCEPT !.status = "failed", !.version = v,
                         !.owner = None, !.lease = "none"]
    BY <1>1, Zenon DEF Failed
  <1>3. rec.owner = r
    BY DEF Owns
  <1> QED
    BY <1>1, <1>2, <1>3, NoneIsNoRequest DEF KeyOK, Key

LEMMA RecordedType ==
  ASSUME KeyOK, NEW r \in Requests, Passes(r), NEW pc \in Checkpoints, rec' = Recorded(pc)
  PROVE  /\ KeyOK'
         /\ rec'.version = rec.version + 1
         /\ rec.status = "in_progress"
         /\ IF pc = "complete" THEN rec'.status = "completed"
            ELSE rec'.status = "in_progress" /\ rec'.owner = r
  BY ExtendedType, CompletedType DEF Recorded

LEMMA AfterType ==
  ASSUME NEW pc \in Checkpoints
  PROVE  /\ After(pc) \in {"complete", "get_agent", "get_run", "answered"}
         /\ After(pc) = "answered" <=> pc = "complete"
  BY ChatAssumption DEF After, AfterUser, Checkpoints

-----------------------------------------------------------------------------
(* A version that is raised by one is a version.                           *)
LEMMA NextVersion ==
  ASSUME rq \in [Requests -> Request], NEW r \in Requests
  PROVE  rq[r].version \in Nat /\ rq[r].version + 1 \in Nat
  BY DEF Request

(* What an action does to the requests and what it does to the rest.       *)
RestOK == /\ user \in Payloads \cup {None}
          /\ agent \in Requests \cup {None}
          /\ run \in Requests \cup {None}

LEMMA TypeParts == ChatTypeOK <=> KeyOK /\ RestOK /\ rq \in [Requests -> Request]
  BY Zenon DEF ChatTypeOK, KeyOK, RestOK

LEMMA KeyKept ==
  ASSUME KeyOK, UNCHANGED rec PROVE KeyOK'
  BY DEF KeyOK

LEMMA RestKept ==
  ASSUME RestOK, UNCHANGED <<user, agent, run>> PROVE RestOK'
  BY DEF RestOK, Payloads

LEMMA GotoType ==
  ASSUME rq \in [Requests -> Request], NEW r \in Requests,
         NEW pc \in {"idle", "retry", "revoke", "fail", "answered", "over"} \cup Working,
         Goto(r, pc)
  PROVE  rq' \in [Requests -> Request]
  BY PcType, Zenon DEF Goto

LEMMA TypeInit == ASSUME ChatInit PROVE ChatTypeOK
  BY DEF ChatInit, ChatTypeOK, Key, NoKey, Request, NewRequest

-----------------------------------------------------------------------------
(* Every step leads from a typed state to a typed state.                   *)
LEMMA TypeNext ==
  ASSUME ChatTypeOK, [ChatNext]_hvars
  PROVE  ChatTypeOK'
  <1> DEFINE RqOK == rq \in [Requests -> Request]
  <1>0. KeyOK /\ RestOK /\ RqOK
    BY TypeParts, Zenon
  <1> SUFFICES KeyOK' /\ RestOK' /\ RqOK'
    BY DEF ChatTypeOK, KeyOK, RestOK, Payloads
  <1>1. CASE UNCHANGED hvars
    BY <1>0, <1>1, KeyKept, RestKept, Zenon DEF hvars
  <1>2. CASE TurnLeaseExpires
    <2>1. KeyOK'
      BY <1>0, <1>2 DEF TurnLeaseExpires, KeyOK, Key
    <2>2. RestOK' /\ RqOK'
      BY <1>0, <1>2, RestKept, Zenon DEF TurnLeaseExpires
    <2> QED
      BY <2>1, <2>2
  <1>3. ASSUME NEW r \in Requests,
               \/ Acquire(r) \/ AcquireConflicts(r) \/ Retry(r)
        PROVE  KeyOK' /\ RestOK' /\ RqOK'
    <2>1. RestOK'
      BY <1>0, <1>3, RestKept, Zenon DEF Acquire, AcquireConflicts, Retry
    <2>2. CASE NotAcquired(r)
      <3>1. PICK pc \in {"retry", "over"} : Goto(r, pc)
        BY <2>2, Zenon DEF NotAcquired
      <3> QED
        BY <1>0, <2>1, <2>2, <3>1, KeyKept, GotoType, Zenon DEF NotAcquired
    <2>3. CASE Begin(r) /\ rec' = Granted(r)
      BY <1>0, <2>1, <2>3, GrantedType, BeginType, Zenon DEF KeyOK
    <2>4. CASE /\ Begin(r)
               /\ \E p \in Payloads \cup {None} : rec' = [Granted(r) EXCEPT !.payload = p]
      BY <1>0, <2>1, <2>4, ClaimedType, BeginType, Zenon DEF KeyOK
    <2>5. CASE UNCHANGED rec /\ \E pc \in {"get_user", "over"} : Goto(r, pc)
      <3>1. "get_user" \in Working
        BY DEF Working
      <3> QED
        BY <1>0, <2>1, <2>5, <3>1, KeyKept, GotoType, Zenon
    <2>6. CASE Acquire(r)
      <3>1. Payload[r] \in Payloads
        BY DEF Payloads
      <3>2. ASSUME rec' = [Granted(r) EXCEPT !.payload = IF rec.status = "absent"
                                                         THEN Payload[r] ELSE @]
            PROVE  \E p \in Payloads \cup {None} : rec' = [Granted(r) EXCEPT !.payload = p]
        <4>1. Granted(r).payload = rec.payload /\ rec.payload \in Payloads \cup {None}
          BY <1>0 DEF KeyOK, Key, Granted
        <4> QED
          BY <3>1, <3>2, <4>1, Zenon
      <3> QED
        BY <2>2, <2>4, <2>6, <3>2, Zenon DEF Acquire
    <2> QED
      BY <1>3, <2>2, <2>3, <2>5, <2>6, Zenon DEF AcquireConflicts, Retry
  <1>4. ASSUME NEW r \in Requests, Checkpoint(r) \/ CheckpointRaises(r)
        PROVE  KeyOK' /\ RestOK' /\ RqOK'
    <2> DEFINE pc == rq[r].pc
    <2>1. RestOK' /\ pc \in Checkpoints
      BY <1>0, <1>4, RestKept, Zenon DEF Checkpoint, CheckpointRaises
    <2>2. KeyOK'
      BY <1>0, <1>4, <2>1, KeyKept, RecordedType, Zenon DEF Checkpoint, CheckpointRaises
    <2>3. After(pc) \in {"idle", "retry", "revoke", "fail", "answered", "over"} \cup Working
      BY <2>1, AfterType DEF Working, Checkpoints
    <2>4. CASE Goto(r, After(pc)) \/ Goto(r, "fail")
      BY <1>0, <2>1, <2>2, <2>3, <2>4, GotoType, Zenon
    <2>5. CASE rq' = [rq EXCEPT ![r].pc = After(pc), ![r].version = @ + 1]
      <3>1. rq' = [rq EXCEPT ![r].pc = After(pc), ![r].version = rq[r].version + 1]
        BY <1>0, <2>5
      <3> QED
        BY <1>0, <2>1, <2>2, <2>3, <3>1, NextVersion, PcVersionType, Zenon
    <2> QED
      BY <1>4, <2>4, <2>5, Zenon DEF Checkpoint, CheckpointRaises
  <1>5. ASSUME NEW r \in Requests,
               \/ GetUserMessage(r) \/ GetRun(r) \/ Analyze(r) \/ JoinTimesOut(r)
               \/ TurnRaises(r) \/ RequestDies(r)
        PROVE  KeyOK' /\ RestOK' /\ RqOK'
    <2>1. KeyOK' /\ RestOK'
      BY <1>0, <1>5, KeyKept, RestKept, Zenon
      DEF GetUserMessage, GetRun, Analyze, JoinTimesOut, TurnRaises, RequestDies
    <2>2. CASE GetUserMessage(r)
      <3>1. AfterUser \in Working /\ "add_user" \in Working
        BY ChatAssumption DEF AfterUser, Working, Checkpoints
      <3> QED
        BY <1>0, <2>1, <2>2, <3>1, GotoType, Zenon DEF GetUserMessage
    <2>3. CASE \E pc \in {"retry", "revoke", "fail", "over"} \cup Working,
                  beat \in {"off", "on", "bad", "late"} :
                  rq' = [rq EXCEPT ![r].pc = pc, ![r].beat = beat]
      <3>1. PICK pc \in {"retry", "revoke", "fail", "over"} \cup Working,
                 beat \in {"off", "on", "bad", "late"} :
                 rq' = [rq EXCEPT ![r].pc = pc, ![r].beat = beat]
        BY <2>3
      <3>2. [rq EXCEPT ![r].pc = pc, ![r].beat = beat] \in [Requests -> Request]
        BY <1>0, PcBeatType, Zenon
      <3> QED
        BY <2>1, <3>1, <3>2, Zenon
    <2>4. CASE \E pc \in Working : rq' = [rq EXCEPT ![r].pc = pc]
      <3>1. PICK pc \in Working : rq' = [rq EXCEPT ![r].pc = pc]
        BY <2>4
      <3> QED
        BY <1>0, <2>1, <3>1, GotoType, Zenon DEF Goto
    <2>5. /\ "analyze" \in Working /\ "get_agent" \in Working /\ "save_run" \in Working
      BY DEF Working
    <2>6. CASE GetRun(r)
      BY <2>3, <2>4, <2>5, <2>6, Zenon DEF GetRun
    <2>7. CASE Analyze(r) \/ JoinTimesOut(r) \/ TurnRaises(r) \/ RequestDies(r)
      BY <2>3, <2>5, <2>7, Zenon DEF Analyze, JoinTimesOut, TurnRaises, RequestDies
    <2> QED
      BY <1>5, <2>2, <2>6, <2>7, Zenon
  <1>6. ASSUME NEW r \in Requests, Heartbeat(r) \/ HeartbeatRaises(r)
        PROVE  KeyOK' /\ RestOK' /\ RqOK'
    <2>1. RestOK'
      BY <1>0, <1>6, RestKept, Zenon DEF Heartbeat, HeartbeatRaises
    <2>2. KeyOK'
      BY <1>0, <1>6, KeyKept, ExtendedType, Zenon DEF Heartbeat, HeartbeatRaises
    <2>3. CASE \E beat \in {"off", "on", "bad"}, v \in Nat :
                  rq' = [rq EXCEPT ![r].beat = beat, ![r].version = v]
      <3>1. PICK beat \in {"off", "on", "bad"}, v \in Nat :
                 rq' = [rq EXCEPT ![r].beat = beat, ![r].version = v]
        BY <2>3
      <3>2. [rq EXCEPT ![r].beat = beat, ![r].version = v] \in [Requests -> Request]
        BY <1>0, BeatVersionType, Zenon
      <3> QED
        BY <2>1, <2>2, <3>1, <3>2, Zenon
    <2>4. CASE Heartbeat(r)
      <3>1. PICK beat \in {"off", "on", "bad"} :
                rq' = [rq EXCEPT ![r].beat = beat,
                                 ![r].version = IF Passes(r) THEN @ + 1 ELSE @]
        BY <2>4, Zenon DEF Heartbeat
      <3>2. CASE Passes(r)
        <4>1. rq' = [rq EXCEPT ![r].beat = beat, ![r].version = rq[r].version + 1]
          BY <1>0, <3>1, <3>2
        <4> QED
          BY <1>0, <2>3, <4>1, NextVersion, Zenon
      <3>3. CASE ~Passes(r)
        <4>1. rq' = [rq EXCEPT ![r].beat = beat, ![r].version = rq[r].version]
          BY <1>0, <3>1, <3>3
        <4> QED
          BY <1>0, <2>3, <4>1, NextVersion, Zenon
      <3> QED
        BY <3>2, <3>3
    <2>5. CASE HeartbeatRaises(r)
      <3>1. PICK beat \in {"off", "bad"} : rq' = [rq EXCEPT ![r].beat = beat]
        BY <2>5, Zenon DEF HeartbeatRaises
      <3> QED
        BY <1>0, <2>1, <2>2, <3>1 DEF Request
    <2> QED
      BY <1>6, <2>4, <2>5
  <1>7. ASSUME NEW r \in Requests, SaveRun(r) \/ SaveRunRaises(r)
        PROVE  KeyOK' /\ RestOK' /\ RqOK'
    <2>1. KeyOK' /\ RestOK'
      BY <1>0, <1>7, KeyKept, Zenon DEF SaveRun, SaveRunRaises, RestOK, Payloads
    <2>2. "saw_run" \in Working
      BY DEF Working, Checkpoints
    <2>3. PICK pc \in {"fail", "over", "saw_run"} : Goto(r, pc)
      BY <1>7, Zenon DEF SaveRun, SaveRunRaises
    <2> QED
      BY <1>0, <2>1, <2>2, <2>3, GotoType, Zenon
  <1>8. ASSUME NEW r \in Requests,
               AddUserMessage(r) \/ GetAgentMessage(r) \/ AddAgentMessage(r)
        PROVE  KeyOK' /\ RestOK' /\ RqOK'
    <2>1. Payload[r] \in Payloads
      BY DEF Payloads
    <2>2. KeyOK' /\ RestOK'
      BY <1>0, <1>8, <2>1, KeyKept, Zenon
      DEF AddUserMessage, GetAgentMessage, AddAgentMessage, UserAdded, AgentAdded,
          RestOK, Payloads
    <2>3. "saw_user" \in Working /\ "saw_agent" \in Working /\ "complete" \in Working
                                 /\ "add_agent" \in Working
      BY DEF Working, Checkpoints
    <2>4. CASE GetAgentMessage(r)
      <3>1. PICK pc \in Working, reply \in Requests :
                rq' = [rq EXCEPT ![r].pc = pc, ![r].reply = reply]
        BY <1>0, <2>3, <2>4, Zenon DEF GetAgentMessage, RestOK
      <3> QED
        BY <1>0, <2>2, <3>1, ReplyType, Zenon
    <2>5. CASE AddUserMessage(r) \/ AddAgentMessage(r)
      <3>1. PICK pc \in {"saw_user", "saw_agent", "fail"} : Goto(r, pc)
        BY <2>5, Zenon DEF AddUserMessage, AddAgentMessage, AddRaises
      <3> QED
        BY <1>0, <2>2, <2>3, <3>1, GotoType, Zenon
    <2> QED
      BY <1>8, <2>4, <2>5
  <1>9. ASSUME NEW r \in Requests, FailTurn(r) \/ FailRaises(r)
        PROVE  KeyOK' /\ RestOK' /\ RqOK'
    <2>1. KeyOK' /\ RestOK'
      BY <1>0, <1>9, KeyKept, RestKept, FailedType, Zenon DEF FailTurn, FailRaises
    <2>2. PICK pc \in {"fail", "over"} : Goto(r, pc)
      BY <1>9, Zenon DEF FailTurn, FailRaises
    <2> QED
      BY <1>0, <2>1, <2>2, GotoType, Zenon
  <1> QED
    BY <1>1, <1>2, <1>3, <1>4, <1>5, <1>6, <1>7, <1>8, <1>9, Zenon DEF ChatNext

(* Every variable stays in its type, and owner and lease are there exactly *)
(* while the turn is in progress.                                          *)
THEOREM ChatTypeInvariant == ChatSpec => []ChatTypeOK
  BY TypeInit, TypeNext, PTL DEF ChatSpec

-----------------------------------------------------------------------------
(* A step that leaves fence and version of its request alone, and one that *)
(* moves its version, leave the other requests alone.                      *)
LEMMA GotoFrame ==
  ASSUME rq \in [Requests -> Request], NEW r \in Requests, NEW pc, Goto(r, pc)
  PROVE  /\ \A s \in Requests \ {r} : rq'[s] = rq[s]
         /\ rq'[r].pc = pc
         /\ rq'[r].fenced = rq[r].fenced /\ rq'[r].version = rq[r].version
  BY DEF Goto, Request

LEMMA PcBeatFrame ==
  ASSUME rq \in [Requests -> Request], NEW r \in Requests, NEW pc, NEW beat,
         rq' = [rq EXCEPT ![r].pc = pc, ![r].beat = beat]
  PROVE  /\ \A s \in Requests \ {r} : rq'[s] = rq[s]
         /\ rq'[r].pc = pc
         /\ rq'[r].fenced = rq[r].fenced /\ rq'[r].version = rq[r].version
  BY DEF Request

LEMMA ReplyFrame ==
  ASSUME rq \in [Requests -> Request], NEW r \in Requests, NEW pc, NEW reply,
         rq' = [rq EXCEPT ![r].pc = pc, ![r].reply = reply]
  PROVE  /\ \A s \in Requests \ {r} : rq'[s] = rq[s]
         /\ rq'[r].pc = pc
         /\ rq'[r].fenced = rq[r].fenced /\ rq'[r].version = rq[r].version
  BY DEF Request

LEMMA BeatFrame ==
  ASSUME rq \in [Requests -> Request], NEW r \in Requests, NEW beat, NEW v \in Nat,
         rq' = [rq EXCEPT ![r].beat = beat, ![r].version = v]
  PROVE  /\ \A s \in Requests \ {r} : rq'[s] = rq[s]
         /\ rq'[r].pc = rq[r].pc
         /\ rq'[r].fenced = rq[r].fenced /\ rq'[r].version = v
  BY DEF Request

LEMMA VersionFrame ==
  ASSUME rq \in [Requests -> Request], NEW r \in Requests, NEW pc, NEW v \in Nat,
         rq' = [rq EXCEPT ![r].pc = pc, ![r].version = v]
  PROVE  /\ \A s \in Requests \ {r} : rq'[s] = rq[s]
         /\ rq'[r].pc = pc
         /\ rq'[r].fenced = rq[r].fenced /\ rq'[r].version = v
  BY DEF Request

LEMMA BeginFrame ==
  ASSUME rq \in [Requests -> Request], rec \in Key, NEW r \in Requests, Begin(r)
  PROVE  /\ \A s \in Requests \ {r} : rq'[s] = rq[s]
         /\ rq'[r].pc = "get_user" /\ rq'[r].version = rec.version + 1
  <1>1. PICK v \in Nat : v = rec.version + 1
    BY DEF Key
  <1>2. PICK fenced \in BOOLEAN : fenced = TRUE
    BY Zenon
  <1>3. rq' = [rq EXCEPT ![r].pc = "get_user", ![r].fenced = fenced, ![r].version = v]
    BY <1>1, <1>2, Zenon DEF Begin
  <1> QED
    BY <1>1, <1>3 DEF Request

(* The version a request holds is never ahead of the record; while the two *)
(* agree the record is the request's own, unless it has answered: then the *)
(* turn is completed.                                                      *)
Claim(r) ==
    rq[r].fenced =>
        /\ rq[r].version <= rec.version
        /\ rq[r].version = rec.version /\ rq[r].pc # "answered" => rec.owner = r
        /\ rq[r].pc = "answered" => rec.status = "completed"

TurnInvariant ==
    /\ \A r \in Requests : Claim(r)
    /\ \A r, s \in Answered : r = s

(* What every step of a request does to the claims of all of them: it      *)
(* raises the version or keeps the owner, completes what it answers, and   *)
(* nothing that was completed is taken back.                               *)
Moves == /\ \/ rec'.version > rec.version
            \/ rec'.version = rec.version /\ rec'.owner = rec.owner
         /\ rec.status = "completed" => rec'.status = "completed"

OthersKept(r) == \A s \in Requests \ {r} : rq'[s] = rq[s]

Answers(r) == rq'[r].fenced /\ rq'[r].pc = "answered" =>
                  \/ rq[r].fenced /\ rq[r].pc = "answered"
                  \/ rec.status # "completed" /\ rec'.status = "completed"

TurnStep(r) == Moves /\ OthersKept(r) /\ Answers(r) /\ Claim(r)'

(* A request that goes on without touching the record.                     *)
LEMMA PlainStep ==
  ASSUME ChatTypeOK, NEW r \in Requests, Claim(r), OthersKept(r), UNCHANGED rec,
         rq[r].pc # "answered",
         rq'[r].fenced = rq[r].fenced, rq'[r].version = rq[r].version,
         rq'[r].pc # "answered" \/ ~rq[r].fenced
  PROVE  TurnStep(r)
  BY DEF TurnStep, Moves, Answers, Claim, ChatTypeOK, Key

(* A request that ends, having written the record or not.                  *)
LEMMA EndStep ==
  ASSUME ChatTypeOK, NEW r \in Requests, Claim(r), OthersKept(r),
         rec'.version > rec.version, rec'.version \in Nat, rec.status # "completed",
         rq'[r].fenced = rq[r].fenced, rq'[r].version = rq[r].version,
         rq'[r].pc # "answered"
  PROVE  TurnStep(r)
  <1>1. rec.version \in Nat /\ rq[r].version \in Nat
    BY DEF ChatTypeOK, Key, Request
  <1> QED
    BY <1>1 DEF TurnStep, Moves, Answers, Claim

(* A request that raises the record to the version it goes on with.        *)
LEMMA HeldStep ==
  ASSUME ChatTypeOK, NEW r \in Requests, OthersKept(r),
         rec'.version > rec.version, rec'.version \in Nat, rec.status # "completed",
         rq'[r].version = rec'.version,
         IF rq'[r].pc = "answered" THEN rec'.status = "completed" ELSE rec'.owner = r
  PROVE  TurnStep(r)
  BY DEF TurnStep, Moves, Answers, Claim

(* Every action of a request is one of these steps.                        *)
Acts(r) == \/ Acquire(r) \/ AcquireConflicts(r) \/ Retry(r)
           \/ GetUserMessage(r) \/ AddUserMessage(r) \/ Checkpoint(r) \/ GetRun(r)
           \/ Analyze(r) \/ SaveRun(r) \/ GetAgentMessage(r) \/ AddAgentMessage(r)
           \/ FailTurn(r)
           \/ Heartbeat(r) \/ HeartbeatRaises(r) \/ JoinTimesOut(r)
           \/ CheckpointRaises(r) \/ SaveRunRaises(r) \/ TurnRaises(r) \/ FailRaises(r)
           \/ RequestDies(r)

LEMMA TurnSteps ==
  ASSUME ChatTypeOK, NEW r \in Requests, Claim(r), Acts(r)
  PROVE  TurnStep(r)
  <1>0. KeyOK /\ RestOK /\ rq \in [Requests -> Request] /\ rec \in Key
    BY TypeParts, Zenon DEF KeyOK
  <1>1. ASSUME NEW pc, Goto(r, pc), UNCHANGED rec, rq[r].pc # "answered",
               pc # "answered" \/ ~rq[r].fenced
        PROVE  TurnStep(r)
    BY <1>0, <1>1, GotoFrame, PlainStep, Zenon DEF OthersKept
  <1>2. ASSUME NEW pc, NEW beat, rq' = [rq EXCEPT ![r].pc = pc, ![r].beat = beat],
               UNCHANGED rec, rq[r].pc # "answered", pc # "answered"
        PROVE  TurnStep(r)
    <2>1. /\ OthersKept(r) /\ rq'[r].pc = pc
          /\ rq'[r].fenced = rq[r].fenced /\ rq'[r].version = rq[r].version
      BY <1>0, <1>2, PcBeatFrame DEF OthersKept
    <2> QED
      BY <1>2, <2>1, PlainStep
  <1>3. CASE Acquire(r) \/ AcquireConflicts(r) \/ Retry(r)
    <2>1. rq[r].pc # "answered"
      BY <1>3 DEF Acquire, AcquireConflicts, Retry
    <2>2. ASSUME Begin(r), KeyOK', rec'.version = rec.version + 1, rec'.owner = r,
                 rec.status # "completed"
          PROVE  TurnStep(r)
      <3>1. rec.version \in Nat
        BY <1>0 DEF Key
      <3>2. OthersKept(r) /\ rq'[r].pc = "get_user" /\ rq'[r].version = rec'.version
        BY <1>0, <2>2, BeginFrame, Zenon DEF OthersKept
      <3>3. rec'.version > rec.version /\ rec'.version \in Nat
        BY <2>2, <3>1
      <3> QED
        BY <2>2, <3>2, <3>3, HeldStep
    <2>3. CASE NotAcquired(r)
      <3>1. PICK pc \in {"retry", "over"} : Goto(r, pc)
        BY <2>3, Zenon DEF NotAcquired
      <3>2. pc # "answered"
        OBVIOUS
      <3> QED
        BY <1>1, <2>1, <2>3, <3>1, <3>2, Zenon DEF NotAcquired
    <2>4. CASE Acquire(r)
      <3>1. CASE rec.status = "absent" \/ Expired
        <4>1. rec.payload \in Payloads \cup {None} /\ Payload[r] \in Payloads
          BY <1>0 DEF Key, Payloads
        <4>2. Granted(r).payload = rec.payload
          BY <1>0 DEF Key, Granted
        <4>3. PICK p \in Payloads \cup {None} : rec' = [Granted(r) EXCEPT !.payload = p]
          BY <2>4, <3>1, <4>1, <4>2, Zenon DEF Acquire
        <4>4. rec.status # "completed"
          BY <3>1 DEF Expired
        <4>5. Begin(r)
          BY <2>4, <3>1, Zenon DEF Acquire
        <4> QED
          BY <1>0, <2>2, <4>3, <4>4, <4>5, ClaimedType, Zenon
      <3> QED
        BY <2>3, <2>4, <3>1, Zenon DEF Acquire
    <2>5. CASE AcquireConflicts(r)
      <3>1. "get_user" # "answered"
        OBVIOUS
      <3> QED
        BY <1>1, <2>1, <2>3, <2>5, <3>1, Zenon DEF AcquireConflicts
    <2>6. CASE Retry(r)
      <3>1. CASE rec.status = "failed" \/ Expired
        <4>1. rec.status # "completed"
          BY <3>1 DEF Expired
        <4>2. rec' = Granted(r) /\ Begin(r)
          BY <2>6, <3>1, Zenon DEF Retry
        <4> QED
          BY <1>0, <2>2, <4>1, <4>2, GrantedType, Zenon
      <3>2. CASE Goto(r, "over") /\ UNCHANGED rec
        <4>1. "over" # "answered"
          OBVIOUS
        <4> QED
          BY <1>1, <2>1, <3>2, <4>1, Zenon
      <3> QED
        BY <2>6, <3>1, <3>2, Zenon DEF Retry
    <2> QED
      BY <1>3, <2>4, <2>5, <2>6
  <1>4. CASE \/ GetUserMessage(r) \/ AddUserMessage(r) \/ AddAgentMessage(r)
             \/ SaveRun(r) \/ SaveRunRaises(r) \/ FailRaises(r)
    <2>1. UNCHANGED rec /\ rq[r].pc # "answered"
      BY <1>4 DEF GetUserMessage, AddUserMessage, AddAgentMessage, SaveRun,
                  SaveRunRaises, FailRaises
    <2>2. AfterUser # "answered"
      BY ChatAssumption DEF AfterUser
    <2>3. PICK pc \in {"add_user", "saw_user", "saw_agent", "saw_run", "fail", "over",
                       AfterUser} : Goto(r, pc)
      <3>1. CASE GetUserMessage(r) \/ FailRaises(r)
        BY <3>1, Zenon DEF GetUserMessage, FailRaises
      <3>2. CASE AddUserMessage(r) \/ AddAgentMessage(r)
        BY <3>2, Zenon DEF AddUserMessage, AddAgentMessage, AddRaises
      <3>3. CASE SaveRun(r) \/ SaveRunRaises(r)
        BY <3>3, Zenon DEF SaveRun, SaveRunRaises
      <3> QED
        BY <1>4, <3>1, <3>2, <3>3
    <2>4. pc # "answered"
      BY <2>2, <2>3
    <2> QED
      BY <1>1, <2>1, <2>3, <2>4, Zenon
  <1>5. CASE GetAgentMessage(r)
    <2>1. PICK pc \in {"add_agent", "complete"}, reply \in {r, agent} :
              rq' = [rq EXCEPT ![r].pc = pc, ![r].reply = reply]
      BY <1>5, Zenon DEF GetAgentMessage
    <2>2. UNCHANGED rec /\ rq[r].pc # "answered"
      BY <1>5 DEF GetAgentMessage
    <2>3. /\ OthersKept(r) /\ rq'[r].pc # "answered"
          /\ rq'[r].fenced = rq[r].fenced /\ rq'[r].version = rq[r].version
      BY <1>0, <2>1, ReplyFrame DEF OthersKept
    <2> QED
      BY <2>2, <2>3, PlainStep
  <1>6. CASE GetRun(r) \/ Analyze(r) \/ JoinTimesOut(r) \/ TurnRaises(r) \/ RequestDies(r)
    <2>1. UNCHANGED rec /\ rq[r].pc # "answered"
      BY <1>6
      DEF GetRun, Analyze, JoinTimesOut, TurnRaises, RequestDies, Working, Checkpoints
    <2>2. CASE GetRun(r)
      <3>1. PICK beat :
                \/ rq' = [rq EXCEPT ![r].pc = "analyze", ![r].beat = beat]
                \/ Goto(r, "get_agent")
        BY <2>2, Zenon DEF GetRun, Goto
      <3>2. "analyze" # "answered" /\ "get_agent" # "answered"
        OBVIOUS
      <3> QED
        BY <1>1, <1>2, <2>1, <3>1, <3>2, Zenon
    <2>3. CASE Analyze(r) \/ JoinTimesOut(r) \/ TurnRaises(r) \/ RequestDies(r)
      <3>1. PICK pc \in {"revoke", "save_run", "fail", "over"}, beat \in {"off", "late"} :
                rq' = [rq EXCEPT ![r].pc = pc, ![r].beat = beat]
        BY <2>3, Zenon DEF Analyze, JoinTimesOut, TurnRaises, RequestDies
      <3>2. pc # "answered"
        BY <3>1
      <3> QED
        BY <1>2, <2>1, <3>1, <3>2, Zenon
    <2> QED
      BY <1>6, <2>2, <2>3
  <1>7. CASE FailTurn(r)
    <2>1. PICK pc \in {"over"} : Goto(r, pc)
      BY <1>7, Zenon DEF FailTurn
    <2>2. rq[r].pc # "answered" /\ pc # "answered"
      BY <1>7, <2>1 DEF FailTurn
    <2>3. CASE UNCHANGED rec
      BY <1>1, <2>1, <2>2, <2>3, Zenon
    <2>4. CASE Owns(r) /\ rec' = Failed
      <3>1. /\ rec'.version > rec.version /\ rec'.version \in Nat
            /\ rec.status # "completed"
        BY <1>0, <2>4, FailedType DEF Key, KeyOK
      <3> QED
        BY <1>0, <2>1, <2>2, <3>1, GotoFrame, EndStep DEF OthersKept
    <2> QED
      BY <1>7, <2>3, <2>4, Zenon DEF FailTurn
  <1>8. CASE Checkpoint(r) \/ CheckpointRaises(r)
    <2>1. PICK pc \in Checkpoints : pc = rq[r].pc
      BY <1>8, Zenon DEF Checkpoint, CheckpointRaises
    <2>2. rq[r].pc # "answered" /\ "fail" # "answered"
      BY <2>1 DEF Checkpoints
    <2>3. ASSUME Passes(r), rec' = Recorded(pc)
          PROVE  /\ rec'.version = rec.version + 1
                 /\ rec'.version > rec.version /\ rec'.version \in Nat
                 /\ rec.status # "completed"
      BY <1>0, <2>3, RecordedType DEF Key
    <2>4. ASSUME UNCHANGED rec, Goto(r, "fail")
          PROVE  TurnStep(r)
      BY <1>1, <2>2, <2>4, Zenon
    <2>5. ASSUME UNCHANGED rec, Goto(r, After(pc)), ~rq[r].fenced
          PROVE  TurnStep(r)
      BY <1>1, <2>2, <2>5, Zenon
    <2>6. ASSUME Passes(r), rec' = Recorded(pc), Goto(r, "fail")
          PROVE  TurnStep(r)
      BY <1>0, <2>2, <2>3, <2>6, GotoFrame, EndStep DEF OthersKept
    <2>7. ASSUME Passes(r), rec' = Recorded(pc),
                 rq' = [rq EXCEPT ![r].pc = After(pc), ![r].version = @ + 1]
          PROVE  TurnStep(r)
      <3>1. PICK next \in {After(pc)}, v \in Nat : v = rq[r].version + 1
        BY <1>0, NextVersion
      <3>2. rq' = [rq EXCEPT ![r].pc = next, ![r].version = rq[r].version + 1]
        BY <1>0, <2>7, <3>1, Zenon
      <3>3. rq' = [rq EXCEPT ![r].pc = next, ![r].version = v]
        BY <3>1, <3>2, Zenon
      <3>4. /\ \A s \in Requests \ {r} : rq'[s] = rq[s]
            /\ rq'[r].pc = next /\ rq'[r].version = v
        BY <1>0, <3>1, <3>3 DEF Request
      <3>5. v = rec'.version
        BY <2>3, <2>7, <3>1 DEF Passes
      <3>6. IF next = "answered" THEN rec'.status = "completed" ELSE rec'.owner = r
        BY <1>0, <2>7, <3>1, RecordedType, AfterType
      <3> QED
        BY <2>3, <2>7, <3>4, <3>5, <3>6, HeldStep DEF OthersKept
    <2>8. CASE Checkpoint(r)
      BY <2>1, <2>4, <2>5, <2>7, <2>8, Zenon DEF Checkpoint
    <2>9. CASE CheckpointRaises(r)
      <3>1. Goto(r, "fail")
        BY <2>9, Zenon DEF CheckpointRaises
      <3>2. UNCHANGED rec \/ (Passes(r) /\ rec' = Recorded(pc))
        BY <2>1, <2>9, Zenon DEF CheckpointRaises
      <3> QED
        BY <2>4, <2>6, <3>1, <3>2, Zenon
    <2> QED
      BY <1>8, <2>8, <2>9
  <1>9. CASE Heartbeat(r) \/ HeartbeatRaises(r)
    <2>1. rq[r].version \in Nat /\ rq[r].version + 1 \in Nat /\ rec.version \in Nat
      BY <1>0, NextVersion DEF Key
    <2>2. rec.status = "completed" => ~Passes(r)
      BY <1>0, NoneIsNoRequest, Zenon DEF Passes, KeyOK
    <2>3. ASSUME NEW beat, NEW v \in Nat, rq' = [rq EXCEPT ![r].beat = beat, ![r].version = v]
          PROVE  /\ OthersKept(r) /\ rq'[r].version = v
                 /\ rq'[r].pc = rq[r].pc /\ rq'[r].fenced = rq[r].fenced
      <3>1. rq \in [Requests -> Request] /\ rq[r] \in Request
        BY <1>0
      <3>2. rq'[r] = [rq[r] EXCEPT !.beat = beat, !.version = v]
        BY <2>3, <3>1
      <3>3. \A s \in Requests \ {r} : rq'[s] = rq[s]
        BY <2>3, <3>1
      <3> QED
        BY <3>1, <3>2, <3>3 DEF OthersKept, Request
    <2>4. ASSUME Passes(r), rec' = Extended
          PROVE  /\ rec'.version = rec.version + 1 /\ rec'.owner = r
                 /\ rec'.version > rec.version /\ rec'.version \in Nat
                 /\ rec.status # "completed"
      BY <1>0, <2>1, <2>4, ExtendedType
    <2>5. ASSUME NEW beat, rq' = [rq EXCEPT ![r].beat = beat]
          PROVE  /\ OthersKept(r) /\ rq'[r].version = rq[r].version
                 /\ rq'[r].pc = rq[r].pc /\ rq'[r].fenced = rq[r].fenced
      BY <1>0, <2>5 DEF OthersKept, Request
    <2>6. CASE Heartbeat(r)
      <3>1. PICK beat : rq' = [rq EXCEPT ![r].beat = beat,
                                         ![r].version = IF Passes(r) THEN @ + 1 ELSE @]
        BY <2>6, Zenon DEF Heartbeat
      <3>2. CASE Passes(r)
        <4>1. rec' = Extended
          BY <2>6, <3>2, Zenon DEF Heartbeat
        <4>2. rq' = [rq EXCEPT ![r].beat = beat, ![r].version = rq[r].version + 1]
          BY <1>0, <3>1, <3>2
        <4>3. /\ OthersKept(r) /\ rq'[r].version = rq[r].version + 1
              /\ rq'[r].pc = rq[r].pc /\ rq'[r].fenced = rq[r].fenced
          BY <2>1, <2>3, <4>2, Zenon
        <4>4. rq'[r].version = rec'.version
          BY <2>4, <3>2, <4>1, <4>3 DEF Passes
        <4>5. rq'[r].fenced => rq'[r].pc # "answered"
          BY <2>4, <3>2, <4>1, <4>3 DEF Claim
        <4> QED
          BY <2>4, <3>2, <4>1, <4>3, <4>4, <4>5 DEF TurnStep, Moves, Answers, Claim
      <3>3. CASE ~Passes(r)
        <4>1. UNCHANGED rec
          BY <2>6, <3>3, Zenon DEF Heartbeat
        <4>2. rq' = [rq EXCEPT ![r].beat = beat, ![r].version = rq[r].version]
          BY <1>0, <3>1, <3>3
        <4>3. /\ OthersKept(r) /\ rq'[r].version = rq[r].version
              /\ rq'[r].pc = rq[r].pc /\ rq'[r].fenced = rq[r].fenced
          BY <2>1, <2>3, <4>2, Zenon
        <4> QED
          BY <2>1, <4>1, <4>3 DEF TurnStep, Moves, Answers, Claim
      <3> QED
        BY <3>2, <3>3
    <2>7. CASE HeartbeatRaises(r)
      <3>1. PICK beat : rq' = [rq EXCEPT ![r].beat = beat]
        BY <2>7, Zenon DEF HeartbeatRaises
      <3>2. /\ OthersKept(r) /\ rq'[r].version = rq[r].version
            /\ rq'[r].pc = rq[r].pc /\ rq'[r].fenced = rq[r].fenced
        BY <2>5, <3>1, Zenon
      <3>3. CASE UNCHANGED rec
        BY <2>1, <3>2, <3>3 DEF TurnStep, Moves, Answers, Claim
      <3>4. CASE Passes(r) /\ rec' = Extended
        BY <2>1, <2>4, <3>2, <3>4 DEF TurnStep, Moves, Answers, Claim
      <3> QED
        BY <2>7, <3>3, <3>4, Zenon DEF HeartbeatRaises
    <2> QED
      BY <1>9, <2>6, <2>7
  <1> QED
    BY <1>3, <1>4, <1>5, <1>6, <1>7, <1>8, <1>9, Zenon DEF Acts

-----------------------------------------------------------------------------
(* The claims hold at first and are kept by every step.                    *)
LEMMA TurnInit == ASSUME ChatInit PROVE TurnInvariant
  BY DEF ChatInit, NewRequest, TurnInvariant, Claim, Answered

LEMMA TurnNext ==
  ASSUME ChatTypeOK, TurnInvariant, [ChatNext]_hvars
  PROVE  TurnInvariant'
  <1>1. CASE UNCHANGED hvars
    BY <1>1 DEF hvars, TurnInvariant, Claim, Answered
  <1>2. CASE TurnLeaseExpires
    <2>1. /\ rec'.version = rec.version /\ rec'.owner = rec.owner
          /\ rec'.status = rec.status /\ UNCHANGED rq
      BY <1>2 DEF TurnLeaseExpires, ChatTypeOK, Key
    <2> QED
      BY <2>1 DEF TurnInvariant, Claim, Answered
  <1>3. ASSUME NEW r \in Requests, Acts(r)
        PROVE  TurnInvariant'
    <2>1. TurnStep(r)
      BY <1>3, TurnSteps DEF TurnInvariant
    <2>2. rec.version \in Nat /\ \A s \in Requests : rq[s].version \in Nat
      BY DEF ChatTypeOK, Key, Request
    <2>3. rec'.version \in Nat
      <3>1. ChatTypeOK'
        BY <1>3, TypeNext, Zenon DEF Acts, ChatNext
      <3> QED
        BY <3>1 DEF ChatTypeOK, Key
    <2>4. ASSUME NEW s \in Requests PROVE Claim(s)'
      <3>1. CASE s = r
        BY <2>1, <3>1 DEF TurnStep
      <3>2. CASE s # r
        <4>1. rq'[s] = rq[s] /\ Claim(s)
          BY <2>1, <3>2 DEF TurnStep, OthersKept, TurnInvariant
        <4> QED
          BY <2>1, <2>2, <2>3, <4>1 DEF TurnStep, Moves, Claim
      <3> QED
        BY <3>1, <3>2
    <2>5. ASSUME NEW s \in Answered', s # r PROVE s \in Answered
      BY <2>1, <2>5 DEF TurnStep, OthersKept, Answered
    <2>6. ASSUME r \in Answered', r \notin Answered PROVE Answered = {}
      <3>1. rec.status # "completed"
        BY <2>1, <2>6 DEF TurnStep, Answers, Answered
      <3> QED
        BY <3>1 DEF TurnInvariant, Claim, Answered
    <2>7. \A s, t \in Answered' : s = t
      BY <2>5, <2>6 DEF TurnInvariant
    <2> QED
      BY <2>4, <2>7 DEF TurnInvariant
  <1> QED
    BY <1>1, <1>2, <1>3, Zenon DEF ChatNext, Acts

LEMMA Turns == ChatSpec => []TurnInvariant
  BY ChatTypeInvariant, TurnInit, TurnNext, PTL DEF ChatSpec

(* One request under a lease works the turn to its end, and the turn stays *)
(* completed.                                                              *)
THEOREM OneAnswerInvariant == ChatSpec => []OneAnswer
  <1>1. ChatTypeOK /\ TurnInvariant => OneAnswer
    BY DEF TurnInvariant, Claim, Answered, OneAnswer
  <1> QED
    BY <1>1, ChatTypeInvariant, Turns, PTL

(* Of the requests that were granted the record only its holder, and only  *)
(* under a lease that has not run out, creates the Run.                    *)
LEMMA HolderSaves ==
  ASSUME ChatTypeOK, TurnInvariant, [ChatNext]_hvars, run # run', rq[run'].fenced
  PROVE  rec.owner = run' /\ rec.lease = "live"
  <1>1. PICK r \in Requests : SaveRun(r) \/ SaveRunRaises(r)
    BY Zenon
    DEF ChatNext, hvars, Acquire, AcquireConflicts, Retry, GetUserMessage, AddUserMessage,
        Checkpoint, GetRun, Analyze, GetAgentMessage, AddAgentMessage, FailTurn, Heartbeat,
        HeartbeatRaises, JoinTimesOut, CheckpointRaises, TurnRaises, FailRaises,
        RequestDies, TurnLeaseExpires
  <1>2. run' = r /\ MaySave(r) /\ rq[r].pc = "save_run"
    BY <1>1, Zenon DEF SaveRun, SaveRunRaises
  <1>3. rec.version = rq[r].version /\ ~Expired
    BY <1>2 DEF MaySave
  <1>4. rec.owner = r
    BY <1>2, <1>3 DEF TurnInvariant, Claim
  <1>5. rec.status = "in_progress" /\ rec.lease # "none"
    BY <1>4, NoneIsNoRequest, Zenon DEF ChatTypeOK
  <1>6. rec.lease \in {"none", "live", "expired"}
    BY DEF ChatTypeOK, Key
  <1> QED
    BY <1>2, <1>3, <1>4, <1>5, <1>6 DEF Expired

THEOREM RunSavedByHolder == ChatSpec => HolderSavesRun
  <1>1. ChatTypeOK /\ TurnInvariant /\ [ChatNext]_hvars
          => [run # run' /\ rq[run'].fenced
                => rec.owner = run' /\ rec.lease = "live"]_hvars
    BY HolderSaves, Zenon
  <1> QED
    BY <1>1, ChatTypeInvariant, Turns, PTL DEF ChatSpec, HolderSavesRun

-----------------------------------------------------------------------------
(* What a request has put behind it is in the store, whichever request     *)
(* wrote it.                                                               *)
WithRun == {"saw_run", "get_agent", "add_agent", "saw_agent", "complete"}
WithUser == WithRun \cup {"saw_user", "get_run", "analyze", "save_run"}

PcStored(pc) ==
    /\ pc \in WithUser => user # None
    /\ pc \in WithRun /\ Intent = "breakdown" => run # None
    /\ pc = "saw_agent" => agent # None
    /\ pc = "complete" /\ Intent # "plain" => agent # None

Reached(r) == PcStored(rq[r].pc)

StoredInvariant ==
    /\ \A r \in Requests : Reached(r)
    /\ CompletedIsStored

LEMMA StoredInit == ASSUME ChatInit PROVE StoredInvariant
  BY DEF ChatInit, NewRequest, NoKey, StoredInvariant, Reached, PcStored, WithUser,
         WithRun, CompletedIsStored

(* Nothing is taken from the store again.                                  *)
StoreKept == /\ user # None => user' # None
             /\ agent # None => agent' # None
             /\ run # None => run' # None

LEMMA StoreKeeps ==
  ASSUME [ChatNext]_hvars
  PROVE  StoreKept
  <1>1. CASE \E r \in Requests : \/ AddUserMessage(r) \/ AddAgentMessage(r)
                                 \/ SaveRun(r) \/ SaveRunRaises(r)
    <2>1. \A r \in Requests : Payload[r] # None
      BY ChatAssumption, Zenon
    <2> QED
      BY <1>1, <2>1, NoneIsNoRequest, Zenon
      DEF AddUserMessage, AddAgentMessage, SaveRun, SaveRunRaises, UserAdded, AgentAdded,
          StoreKept
  <1>2. CASE UNCHANGED <<user, agent, run>>
    BY <1>2 DEF StoreKept
  <1> QED
    BY <1>1, <1>2, Zenon
    DEF ChatNext, hvars, Acquire, AcquireConflicts, Retry, GetUserMessage, Checkpoint,
        GetRun, Analyze, GetAgentMessage, FailTurn, Heartbeat, HeartbeatRaises,
        JoinTimesOut, CheckpointRaises, TurnRaises, FailRaises, RequestDies,
        TurnLeaseExpires

(* Where a request goes next, the store already holds what that presumes.  *)
LEMMA GoesWhereStored ==
  ASSUME ChatTypeOK, NEW r \in Requests, Reached(r), StoreKept, Acts(r)
  PROVE  Reached(r)'
  <1>0. rec \in Key /\ rq \in [Requests -> Request]
    BY DEF ChatTypeOK
  <1> DEFINE Ends == {"retry", "revoke", "fail", "over", "get_user", "add_user", "answered"}
  <1>1. ASSUME NEW pc, Goto(r, pc), PcStored(pc)'
        PROVE  Reached(r)'
    <2>1. rq'[r].pc = pc
      BY <1>0, <1>1, GotoFrame, Zenon
    <2> QED
      BY <1>1, <2>1 DEF Reached, PcStored
  <1>2. ASSUME NEW pc, NEW beat, rq' = [rq EXCEPT ![r].pc = pc, ![r].beat = beat],
               PcStored(pc)'
        PROVE  Reached(r)'
    <2>1. rq'[r].pc = pc
      BY <1>0, <1>2, PcBeatFrame, Zenon
    <2> QED
      BY <1>2, <2>1 DEF Reached, PcStored
  <1>3. \A pc \in Ends : PcStored(pc)'
    BY DEF PcStored, WithUser, WithRun
  <1>4. CASE Acquire(r) \/ AcquireConflicts(r) \/ Retry(r)
    <2>1. CASE Begin(r)
      BY <1>0, <2>1, BeginFrame DEF Reached, PcStored, WithUser, WithRun
    <2>2. CASE \E pc \in {"retry", "over", "get_user"} : Goto(r, pc)
      BY <1>1, <1>3, <2>2, Zenon
    <2> QED
      BY <1>4, <2>1, <2>2, Zenon DEF Acquire, AcquireConflicts, Retry, NotAcquired
  <1>5. CASE FailTurn(r) \/ FailRaises(r) \/ CheckpointRaises(r)
    <2>1. PICK pc \in {"fail", "over"} : Goto(r, pc)
      BY <1>5, Zenon DEF FailTurn, FailRaises, CheckpointRaises
    <2> QED
      BY <1>1, <1>3, <2>1, Zenon
  <1>6. CASE GetUserMessage(r)
    <2>1. user # None => PcStored(AfterUser)'
      BY ChatAssumption DEF AfterUser, PcStored, StoreKept, WithUser, WithRun
    <2> QED
      BY <1>1, <1>3, <1>6, <2>1, Zenon DEF GetUserMessage
  <1>7. CASE AddUserMessage(r)
    <2>1. Payload[r] # None
      BY ChatAssumption, Zenon
    <2>2. CASE Goto(r, "fail")
      BY <1>1, <1>3, <2>2, Zenon
    <2>3. CASE user' = UserAdded(r) /\ Goto(r, "saw_user")
      <3>1. PcStored("saw_user")'
        BY <2>1, <2>3 DEF PcStored, UserAdded, WithUser, WithRun
      <3> QED
        BY <1>1, <2>3, <3>1, Zenon
    <2> QED
      BY <1>7, <2>2, <2>3, Zenon DEF AddUserMessage, AddRaises
  <1>8. CASE AddAgentMessage(r)
    <2>1. CASE Goto(r, "fail")
      BY <1>1, <1>3, <2>1, Zenon
    <2>2. CASE agent' = AgentAdded(r) /\ Goto(r, "saw_agent")
      <3>1. rq[r].pc = "add_agent"
        BY <1>8, Zenon DEF AddAgentMessage
      <3>2. PcStored("saw_agent")'
        BY <2>2, <3>1, NoneIsNoRequest
        DEF Reached, PcStored, AgentAdded, StoreKept, WithUser, WithRun
      <3> QED
        BY <1>1, <2>2, <3>2, Zenon
    <2> QED
      BY <1>8, <2>1, <2>2, Zenon DEF AddAgentMessage, AddRaises
  <1>9. CASE GetAgentMessage(r)
    <2>1. PICK pc \in {"add_agent", "complete"}, reply \in {r, agent} :
              /\ rq' = [rq EXCEPT ![r].pc = pc, ![r].reply = reply]
              /\ pc = "complete" => agent # None
      BY <1>9, Zenon DEF GetAgentMessage
    <2>2. rq'[r].pc = pc
      BY <1>0, <2>1, ReplyFrame, Zenon
    <2>3. rq[r].pc = "get_agent"
      BY <1>9, Zenon DEF GetAgentMessage
    <2> QED
      BY <2>1, <2>2, <2>3 DEF Reached, PcStored, StoreKept, WithUser, WithRun
  <1>10. CASE SaveRun(r) \/ SaveRunRaises(r)
    <2>1. CASE \E pc \in {"fail", "over"} : Goto(r, pc)
      BY <1>1, <1>3, <2>1, Zenon
    <2>2. CASE run' = (IF run = None THEN r ELSE run) /\ Goto(r, "saw_run")
      <3>1. rq[r].pc = "save_run"
        BY <1>10, Zenon DEF SaveRun, SaveRunRaises
      <3>2. PcStored("saw_run")'
        BY <2>2, <3>1, NoneIsNoRequest
        DEF Reached, PcStored, StoreKept, WithUser, WithRun
      <3> QED
        BY <1>1, <2>2, <3>2, Zenon
    <2> QED
      BY <1>10, <2>1, <2>2, Zenon DEF SaveRun, SaveRunRaises
  <1>11. CASE Analyze(r) \/ JoinTimesOut(r) \/ TurnRaises(r) \/ RequestDies(r)
    <2>1. PICK pc \in {"revoke", "save_run", "fail", "over"}, beat \in {"off", "late"} :
              /\ rq' = [rq EXCEPT ![r].pc = pc, ![r].beat = beat]
              /\ pc = "save_run" => rq[r].pc = "analyze"
      BY <1>11, Zenon DEF Analyze, JoinTimesOut, TurnRaises, RequestDies
    <2>2. PcStored(pc)'
      BY <2>1 DEF Reached, PcStored, StoreKept, WithUser, WithRun
    <2> QED
      BY <1>2, <2>1, <2>2, Zenon
  <1>12. CASE GetRun(r)
    <2>1. rq[r].pc = "get_run"
      BY <1>12, Zenon DEF GetRun
    <2>2. PcStored("analyze")' /\ (run # None => PcStored("get_agent")')
      BY <2>1 DEF Reached, PcStored, StoreKept, WithUser, WithRun
    <2> QED
      BY <1>1, <1>2, <1>12, <2>2, Zenon DEF GetRun, Goto
  <1>13. CASE Heartbeat(r) \/ HeartbeatRaises(r)
    <2>1. rq'[r].pc = rq[r].pc
      BY <1>0, <1>13 DEF Heartbeat, HeartbeatRaises, Request
    <2> QED
      BY <2>1 DEF Reached, PcStored, StoreKept
  <1>14. CASE Checkpoint(r)
    <2>1. CASE Goto(r, "fail")
      BY <1>1, <1>3, <2>1, Zenon
    <2>2. PICK pc \in Checkpoints : pc = rq[r].pc
      BY <1>14, Zenon DEF Checkpoint
    <2>3. PcStored(After(pc))'
      <3>1. CASE pc = "saw_user"
        BY <2>2, <3>1, ChatAssumption
        DEF After, AfterUser, Reached, PcStored, StoreKept, WithUser, WithRun
      <3>2. CASE pc = "saw_run"
        BY <2>2, <3>2 DEF After, Reached, PcStored, StoreKept, WithUser, WithRun
      <3>3. CASE pc = "saw_agent"
        BY <2>2, <3>3 DEF After, Reached, PcStored, StoreKept, WithUser, WithRun
      <3>4. CASE pc = "complete"
        BY <3>4 DEF After, PcStored, WithUser, WithRun
      <3> QED
        BY <2>2, <3>1, <3>2, <3>3, <3>4 DEF Checkpoints
    <2>4. ASSUME NEW v \in Nat, rq' = [rq EXCEPT ![r].pc = After(pc), ![r].version = v]
          PROVE  Reached(r)'
      <3>1. PICK next \in {After(pc)} : rq' = [rq EXCEPT ![r].pc = next, ![r].version = v]
        BY <2>4, Zenon
      <3>2. rq'[r].pc = next
        BY <1>0, <3>1 DEF Request
      <3> QED
        BY <2>3, <3>1, <3>2 DEF Reached, PcStored
    <2>5. CASE rq' = [rq EXCEPT ![r].pc = After(pc), ![r].version = @ + 1]
      <3>1. PICK v \in Nat : v = rq[r].version + 1
        BY <1>0, NextVersion
      <3>2. rq' = [rq EXCEPT ![r].pc = After(pc), ![r].version = rq[r].version + 1]
        BY <1>0, <2>5
      <3>3. rq' = [rq EXCEPT ![r].pc = After(pc), ![r].version = v]
        BY <3>1, <3>2, Zenon
      <3> QED
        BY <2>4, <3>3
    <2>6. CASE Goto(r, After(pc))
      <3>1. PICK next \in {After(pc)} : Goto(r, next)
        BY <2>6
      <3> QED
        BY <1>1, <2>3, <3>1
    <2> QED
      BY <1>14, <2>1, <2>2, <2>5, <2>6, Zenon DEF Checkpoint
  <1> QED
    BY <1>4, <1>5, <1>6, <1>7, <1>8, <1>9, <1>10, <1>11, <1>12, <1>13, <1>14, Zenon DEF Acts

(* The record is completed by the request that reached "complete".         *)
LEMMA CompletesAtTheEnd ==
  ASSUME ChatTypeOK, NEW r \in Requests, Acts(r), rec'.status = "completed"
  PROVE  rec.status = "completed" \/ rq[r].pc = "complete"
  <1>1. KeyOK
    BY TypeParts
  <1>2. CASE UNCHANGED rec
    BY <1>2
  <1>3. CASE rec' = Granted(r)
    BY <1>1, <1>3, GrantedType
  <1>4. ASSUME NEW p \in Payloads \cup {None}, rec' = [Granted(r) EXCEPT !.payload = p]
        PROVE  FALSE
    <2>1. rec'.status = "in_progress"
      BY <1>1, <1>4, ClaimedType, Zenon
    <2> QED
      BY <2>1
  <1>5. CASE Acquire(r) \/ AcquireConflicts(r) \/ Retry(r)
    <2>1. rec.payload \in Payloads \cup {None} /\ Payload[r] \in Payloads
      BY <1>1 DEF KeyOK, Key, Payloads
    <2>2. Granted(r).payload = rec.payload
      BY <1>1 DEF KeyOK, Key, Granted
    <2> QED
      BY <1>2, <1>3, <1>4, <1>5, <2>1, <2>2, Zenon
      DEF Acquire, AcquireConflicts, Retry, NotAcquired
  <1>6. CASE Heartbeat(r) \/ HeartbeatRaises(r)
    BY <1>1, <1>2, <1>6, ExtendedType, Zenon DEF Heartbeat, HeartbeatRaises
  <1>7. CASE FailTurn(r)
    <2>1. CASE Owns(r) /\ rec' = Failed
      BY <1>1, <2>1, FailedType
    <2> QED
      BY <1>2, <1>7, <2>1, Zenon DEF FailTurn
  <1>8. CASE Checkpoint(r) \/ CheckpointRaises(r)
    <2>1. PICK pc \in Checkpoints : pc = rq[r].pc
      BY <1>8, Zenon DEF Checkpoint, CheckpointRaises
    <2>2. CASE Passes(r) /\ rec' = Recorded(pc)
      BY <1>1, <2>1, <2>2, RecordedType
    <2> QED
      BY <1>2, <1>8, <2>1, <2>2, Zenon DEF Checkpoint, CheckpointRaises
  <1> QED
    BY <1>2, <1>5, <1>6, <1>7, <1>8, Zenon
    DEF Acts, GetUserMessage, AddUserMessage, GetRun, Analyze, SaveRun, GetAgentMessage,
        AddAgentMessage, JoinTimesOut, SaveRunRaises, TurnRaises, FailRaises, RequestDies

LEMMA StoredNext ==
  ASSUME ChatTypeOK, TurnInvariant, StoredInvariant, [ChatNext]_hvars
  PROVE  StoredInvariant'
  <1>0. StoreKept
    BY StoreKeeps
  <1>1. ASSUME UNCHANGED rq, rec'.status = "completed" => rec.status = "completed"
        PROVE  StoredInvariant'
    BY <1>0, <1>1
    DEF StoredInvariant, Reached, PcStored, StoreKept, CompletedIsStored
  <1>2. CASE UNCHANGED hvars \/ TurnLeaseExpires
    <2>1. UNCHANGED rq /\ rec'.status = rec.status
      BY <1>2 DEF hvars, TurnLeaseExpires, ChatTypeOK, Key
    <2> QED
      BY <1>1, <2>1
  <1>3. ASSUME NEW r \in Requests, Acts(r)
        PROVE  StoredInvariant'
    <2>1. OthersKept(r)
      BY <1>3, TurnSteps DEF TurnInvariant, TurnStep
    <2>2. Reached(r)'
      BY <1>0, <1>3, GoesWhereStored DEF StoredInvariant
    <2>3. ASSUME NEW s \in Requests PROVE Reached(s)'
      BY <1>0, <2>1, <2>2 DEF OthersKept, StoredInvariant, Reached, PcStored, StoreKept
    <2>4. rec'.status = "completed" => rec.status = "completed" \/ rq[r].pc = "complete"
      BY <1>3, CompletesAtTheEnd
    <2>5. CompletedIsStored'
      BY <1>0, <2>4
      DEF StoredInvariant, Reached, PcStored, StoreKept, CompletedIsStored, WithUser, WithRun
    <2> QED
      BY <2>3, <2>5 DEF StoredInvariant
  <1> QED
    BY <1>2, <1>3, Zenon DEF ChatNext, Acts

(* What was completed is in the store, to be answered again from there.    *)
THEOREM CompletedStored == ChatSpec => []CompletedIsStored
  <1>1. StoredInvariant => CompletedIsStored
    BY DEF StoredInvariant
  <1> QED
    BY <1>1, ChatTypeInvariant, Turns, StoredInit, StoredNext, PTL DEF ChatSpec

=============================================================================
