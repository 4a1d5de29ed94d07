--------------------------- MODULE ActivityOutbox ---------------------------
(***************************************************************************)
(* One event on its way through the activity outbox (services/storage.py): *)
(* a tag operation stages the outbox entry together with the event itself, *)
(* stage_outbox_event stages the entry alone, and dispatchers list, claim, *)
(* record and settle it under leases of thirty seconds.  Firestore lists   *)
(* and claims in two calls and judges by what it listed; the in-memory     *)
(* store does both at once, under its lock.                                *)
(***************************************************************************)
EXTENDS Naturals

CONSTANTS
    Dispatchers,  \* calls of dispatch_outbox_events that may be under way
    MaxAttempts,  \* max_attempts of an entry
    Backend,      \* "firestore" or "memory"
    None,         \* nobody
    MaxTakes      \* bound on the claims of the entry

ASSUME OutboxAssumption ==
    /\ MaxAttempts \in Nat \ {0} /\ MaxTakes \in Nat
    /\ Backend \in {"firestore", "memory"}
    /\ None \notin Dispatchers

VARIABLES
    item,      \* activity_outbox/outbox:<event_id>
    recorded,  \* is the event in activity_events
    dis        \* local state of every dispatcher

ovars == <<item, recorded, dis>>

OutboxStatus == {"absent", "pending", "in_progress", "published", "failed"}
Item == [status: OutboxStatus, attempts: Nat, holder: Dispatchers \cup {None},
         live: BOOLEAN, wait: BOOLEAN]
Dispatcher == [pc: {"idle", "claim", "record", "settle", "fail"}, seen: Nat]
Resting == [pc |-> "idle", seen |-> 0]

Goto(d, pc) == dis' = [dis EXCEPT ![d].pc = pc]
Stop(d) == dis' = [dis EXCEPT ![d] = Resting]

(* Operators marked "mutant" stand for a bug in the definition after them  *)
(* and are used by no specification; PROJECT.json lists what each breaks.  *)

-----------------------------------------------------------------------------
Staged == [status |-> "pending", attempts |-> 0, holder |-> None, live |-> FALSE,
           wait |-> FALSE]

(* add_tag_to_space, update_tag_in_space and archive_tag_in_space write the *)
(* space, the event and its outbox entry in one transaction.               *)
TagOperation ==
    /\ item.status = "absent"
    /\ item' = Staged /\ recorded' = TRUE
    /\ UNCHANGED dis

StageOutboxEvent ==
    /\ item.status = "absent"
    /\ item' = Staged
    /\ UNCHANGED <<recorded, dis>>

-----------------------------------------------------------------------------
(* Mutant: only a held lease keeps others out.                             *)
FreeUnlessHeld == item.status # "absent" /\ ~item.live

(* A held lease keeps others out, and so does a backoff, which only the    *)
(* listing looks at.                                                       *)
Free == item.status = "pending" \/ (item.status = "in_progress" /\ ~item.live)

(* The lease counts from the beginning of the call: a dispatcher that had  *)
(* many entries before this one may be given a lease that has run out.     *)
Take(d, seen) ==
    /\ item.attempts < MaxTakes
    /\ \E live \in BOOLEAN :
           item' = [item EXCEPT !.status = "in_progress", !.attempts = @ + 1,
                                !.holder = d, !.live = live]
    /\ dis' = [dis EXCEPT ![d] = [pc |-> "record", seen |-> seen]]

List(d) ==
    /\ dis[d].pc = "idle" /\ Free /\ ~item.wait
    /\ IF Backend = "memory"
       THEN Take(d, item.attempts)
       ELSE /\ dis' = [dis EXCEPT ![d] = [pc |-> "claim", seen |-> item.attempts]]
            /\ UNCHANGED item
    /\ UNCHANGED recorded

(* The transaction of Firestore: the attempts are counted on the record,   *)
(* the dispatcher keeps the number it has listed.  A lease is compared     *)
(* with the time of the listing, so one that ran out since still refuses.  *)
Claim(d) ==
    /\ dis[d].pc = "claim"
    /\ \/ Free /\ Take(d, dis[d].seen)
       \/ item.status # "pending" /\ Stop(d) /\ UNCHANGED item
    /\ UNCHANGED recorded

(* Mutant: a publication that raised counts as one.                        *)
RecordRaisesSwallowed(d) ==
    /\ dis[d].pc = "record"
    /\ Goto(d, "settle")
    /\ UNCHANGED <<item, recorded>>

(* record_activity_event creates the document or finds it there.           *)
RecordActivityEvent(d) ==
    /\ dis[d].pc = "record"
    /\ recorded' = TRUE
    /\ Goto(d, "settle")
    /\ UNCHANGED item

RecordRaises(d) ==
    /\ dis[d].pc = "record"
    /\ Goto(d, "fail")
    /\ recorded' \in {recorded, TRUE}
    /\ UNCHANGED item

-----------------------------------------------------------------------------
(* The fence of complete_tx and fail_tx: status, token, unexpired lease.   *)
Fenced(d) == item.status = "in_progress" /\ item.holder = d /\ item.live

Settled(status) == [item EXCEPT !.status = status, !.holder = None, !.live = FALSE]

Complete(d) ==
    /\ dis[d].pc = "settle"
    /\ item' = IF Fenced(d) THEN Settled("published") ELSE item
    /\ Stop(d)
    /\ UNCHANGED recorded

(* A completion that raises, before or after it was done, counts as a      *)
(* failure.                                                                *)
CompletionRaises(d) ==
    /\ dis[d].pc = "settle"
    /\ item' \in {item, IF Fenced(d) THEN Settled("published") ELSE item}
    /\ Goto(d, "fail")
    /\ UNCHANGED recorded

(* Mutant: the claim under way is counted once more.                       *)
SpentEarly(d) ==
    (IF Backend = "firestore" THEN dis[d].seen + 2 ELSE item.attempts + 1) >= MaxAttempts

(* Firestore counts from the listing, the in-memory store on the record.   *)
Spent(d) ==
    (IF Backend = "firestore" THEN dis[d].seen + 1 ELSE item.attempts) >= MaxAttempts

(* A failure that cannot be recorded is passed over in silence.            *)
Fail(d) ==
    /\ dis[d].pc = "fail"
    /\ item' \in {item,
           IF Fenced(d)
           THEN [Settled(IF Spent(d) THEN "failed" ELSE "pending") EXCEPT !.wait = TRUE]
           ELSE item}
    /\ Stop(d)
    /\ UNCHANGED recorded

-----------------------------------------------------------------------------
(* A dispatcher dies: nobody has its token.                                *)
Die(d) ==
    /\ dis[d].pc # "idle"
    /\ Stop(d)
    /\ item' = IF item.holder = d THEN [item EXCEPT !.holder = None] ELSE item
    /\ UNCHANGED recorded

LeaseExpires ==
    /\ item.live
    /\ item' = [item EXCEPT !.live = FALSE]
    /\ UNCHANGED <<recorded, dis>>

BackoffElapses ==
    /\ item.wait
    /\ item' = [item EXCEPT !.wait = FALSE]
    /\ UNCHANGED <<recorded, dis>>

Init ==
    /\ item = [Staged EXCEPT !.status = "absent"]
    /\ recorded = FALSE
    /\ dis = [d \in Dispatchers |-> Resting]

Dispatch(d) ==
    \/ List(d) \/ Claim(d)
    \/ RecordActivityEvent(d) \/ RecordRaises(d)
    \/ Complete(d) \/ CompletionRaises(d) \/ Fail(d)
    \/ Die(d)

Next ==
    \/ TagOperation \/ StageOutboxEvent
    \/ \E d \in Dispatchers : Dispatch(d)
    \/ LeaseExpires \/ BackoffElapses

Spec == Init /\ [][Next]_ovars

-----------------------------------------------------------------------------
OutboxTypeOK ==
    /\ item \in Item /\ recorded \in BOOLEAN
    /\ dis \in [Dispatchers -> Dispatcher]

(* What the outbox says of an entry is so: a published event was recorded, *)
(* whichever dispatcher settled it, and an entry is given up only after    *)
(* max_attempts claims, although Firestore counts them from a listing that *)
(* other dispatchers have overtaken.                                       *)
OutboxTellsTheTruth ==
    /\ item.status = "published" => recorded
    /\ item.status = "failed" => item.attempts >= MaxAttempts

(* An entry that was published or given up stays so, whatever a dispatcher *)
(* that lost its lease does on its way out.                                *)
SettledIsFinal ==
    [][item.status \in {"published", "failed"} => item'.status = item.status]_ovars

(* The outbox delivers: leases, listings, backoffs and deaths are steps    *)
(* nobody sees from the outside.  A pending entry and one in somebody's    *)
(* hands are both a staged event.                                          *)
StageOfItem == IF item.status \in {"pending", "in_progress"} THEN "staged" ELSE item.status

Delivery == INSTANCE EventDelivery WITH stage <- StageOfItem, tries <- item.attempts

DeliveryIsImplemented == Delivery!Spec

-----------------------------------------------------------------------------
(* What one might expect besides and the code does not give: a claim is    *)
(* not refused to an entry whose attempts are spent, and an event may be   *)
(* given up that was recorded.                                             *)
AttemptsAreBounded == item.attempts <= MaxAttempts

DeadLetterWasNotRecorded == item.status = "failed" => ~recorded
=============================================================================
