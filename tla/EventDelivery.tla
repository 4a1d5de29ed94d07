---------------------------- MODULE EventDelivery ----------------------------
(***************************************************************************)
(* What the activity outbox promises of one event: it is staged once,      *)
(* published only when it is recorded, and given up only after             *)
(* MaxAttempts tries, each of them for good.  Who tries, under which lease *)
(* and how often it is interrupted is not said here; ActivityOutbox        *)
(* implements this specification.                                          *)
(***************************************************************************)
EXTENDS Naturals

CONSTANT MaxAttempts  \* tries after which an event may be given up

VARIABLES
    stage,    \* what has become of the event
    tries,    \* how often somebody took it up
    recorded  \* is it in activity_events

evars == <<stage, tries, recorded>>

Stages == {"absent", "staged", "published", "failed"}

Init == stage = "absent" /\ tries = 0 /\ recorded = FALSE

Stage ==
    /\ stage = "absent" /\ stage' = "staged"
    /\ recorded' \in BOOLEAN
    /\ UNCHANGED tries

Try ==
    /\ stage = "staged"
    /\ tries' = tries + 1
    /\ UNCHANGED <<stage, recorded>>

(* Somebody who was too slow may record an event that was given up.        *)
Record ==
    /\ stage # "absent"
    /\ recorded' = TRUE
    /\ UNCHANGED <<stage, tries>>

Publish ==
    /\ stage = "staged" /\ recorded
    /\ stage' = "published"
    /\ UNCHANGED <<tries, recorded>>

GiveUp ==
    /\ stage = "staged" /\ tries >= MaxAttempts
    /\ stage' = "failed"
    /\ UNCHANGED <<tries, recorded>>

Next == Stage \/ Try \/ Record \/ Publish \/ GiveUp

Spec == Init /\ [][Next]_evars
=============================================================================
