---------------------------- MODULE TelemetryScan ----------------------------
(***************************************************************************)
(* Which Runs the reconciler of the telemetry is given                     *)
(* (list_pending_telemetry_runs of services/storage.py): a scan takes a    *)
(* lease on the cursor of its scope, reads the pending Runs from the       *)
(* cursor on, in the order of their ids, passes over those that are leased *)
(* or backing off, and stops at a limit of results or a budget of reads;   *)
(* then it moves the cursor under the fence of its lease.                  *)
(***************************************************************************)
EXTENDS Naturals, FiniteSets, FiniteSetsExt

CONSTANTS
    Scanners,    \* calls of list_pending_telemetry_runs that may be under way
    Runs,        \* run ids, in the order of __name__
    Limit,       \* limit
    Budget,      \* max_scan
    None,        \* nobody
    MaxTroubles  \* bound on the scans that die or outlive their lease

ScanAssumption ==
    /\ Runs \subseteq Nat \ {0} /\ IsFiniteSet(Runs)
    /\ Limit \in Nat \ {0} /\ Budget \in Nat \ {0}
    /\ None \notin Scanners /\ MaxTroubles \in Nat

VARIABLES
    there,    \* the Runs that exist
    pending,  \* those of them that are exporting or delayed
    resting,  \* the pending ones that are leased or backing off
    cursor,   \* telemetry_scan_cursors/<scope>: where to go on, who scans
    scan,     \* local state of every scan
    troubles

cvars == <<there, pending, resting, cursor, scan, troubles>>

Cursor == [at: Runs \cup {0}, holder: Scanners \cup {None}, live: BOOLEAN]
Scan == [pc: {"idle", "read", "move", "return"}, from: Runs \cup {0}, to: Runs \cup {0},
         found: SUBSET Runs]
Resting == [pc |-> "idle", from |-> 0, to |-> 0, found |-> {}]

Stop(s) == [scan EXCEPT ![s] = Resting]

(* Operators marked "mutant" stand for a bug in the definition after them  *)
(* and are used by no specification; PROJECT.json lists what each breaks.  *)

-----------------------------------------------------------------------------
(* A scan under a live lease leaves the others with an empty list.         *)
ClaimCursor(s) ==
    /\ scan[s].pc = "idle" /\ ~cursor.live
    /\ cursor' = [cursor EXCEPT !.holder = s, !.live = TRUE]
    /\ scan' = [scan EXCEPT ![s] = [Resting EXCEPT !.pc = "read", !.from = cursor.at]]
    /\ UNCHANGED <<there, pending, resting, troubles>>

(* A cursor whose Run is no more stands for the beginning.                 *)
From(s) == IF scan[s].from \in there THEN scan[s].from ELSE 0

Ahead(s) == {r \in pending : r > From(s)}
UpTo(s, r) == {q \in Ahead(s) : q <= r}

(* The stream is left at the first Run that fills the list or the budget.  *)
Full(s, r) ==
    \/ Cardinality(UpTo(s, r) \ resting) >= Limit
    \/ Cardinality(UpTo(s, r)) >= Budget

Stops(s) == {r \in Ahead(s) : Full(s, r)}

(* Mutant: the cursor is put on the last result, not on the last Run read. *)
LastResult(s) ==
    IF Stops(s) = {} \/ UpTo(s, Min(Stops(s))) \subseteq resting THEN 0
    ELSE Max(UpTo(s, Min(Stops(s))) \ resting)

LastRead(s) == IF Stops(s) = {} THEN 0 ELSE Min(Stops(s))

Results(s) ==
    (IF Stops(s) = {} THEN Ahead(s) ELSE UpTo(s, Min(Stops(s)))) \ resting

Read(s) ==
    /\ scan[s].pc = "read"
    /\ scan' = [scan EXCEPT ![s].pc = "move", ![s].to = LastRead(s), ![s].found = Results(s)]
    /\ UNCHANGED <<there, pending, resting, cursor, troubles>>

(* The fence of _commit_cursor_tx: token, version and unexpired lease.     *)
Fenced(s) == cursor.holder = s /\ cursor.live

(* A rejected commit leaves the cursor, and the results are returned.      *)
CommitCursor(s) ==
    /\ scan[s].pc = "move"
    /\ cursor' = IF Fenced(s)
                 THEN [at |-> scan[s].to, holder |-> None, live |-> FALSE] ELSE cursor
    /\ scan' = [scan EXCEPT ![s].pc = "return"]
    /\ UNCHANGED <<there, pending, resting, troubles>>

Return(s) ==
    /\ scan[s].pc = "return"
    /\ scan' = Stop(s)
    /\ UNCHANGED <<there, pending, resting, cursor, troubles>>

Continue(s) == Read(s) \/ CommitCursor(s) \/ Return(s)

-----------------------------------------------------------------------------
(* The scan raises or its process dies, with the lease in the cursor.      *)
Die(s) ==
    /\ scan[s].pc # "idle" /\ troubles < MaxTroubles
    /\ scan' = Stop(s)
    /\ cursor' = IF cursor.holder = s THEN [cursor EXCEPT !.holder = None] ELSE cursor
    /\ troubles' = troubles + 1
    /\ UNCHANGED <<there, pending, resting>>

LeaseExpires ==
    /\ cursor.live
    /\ IF cursor.holder = None THEN UNCHANGED troubles
       ELSE troubles < MaxTroubles /\ troubles' = troubles + 1
    /\ cursor' = [cursor EXCEPT !.live = FALSE]
    /\ UNCHANGED <<there, pending, resting, scan>>

(* Runs come and go: they end, are verified, rest, and are deleted.        *)
Ends(r) ==
    /\ r \in there
    /\ pending' = pending \cup {r}
    /\ UNCHANGED <<there, resting, cursor, scan, troubles>>

Decided(r) ==
    /\ r \in pending
    /\ pending' = pending \ {r} /\ resting' = resting \ {r}
    /\ UNCHANGED <<there, cursor, scan, troubles>>

Rests(r) ==
    /\ r \in pending
    /\ resting' = IF r \in resting THEN resting \ {r} ELSE resting \cup {r}
    /\ UNCHANGED <<there, pending, cursor, scan, troubles>>

Deleted(r) ==
    /\ r \in there
    /\ there' = there \ {r} /\ pending' = pending \ {r} /\ resting' = resting \ {r}
    /\ UNCHANGED <<cursor, scan, troubles>>

Init ==
    /\ there = Runs
    /\ pending \in SUBSET Runs /\ resting = {}
    /\ cursor = [at |-> 0, holder |-> None, live |-> FALSE]
    /\ scan = [s \in Scanners |-> Resting]
    /\ troubles = 0

Next ==
    \/ \E s \in Scanners : ClaimCursor(s) \/ Continue(s) \/ Die(s)
    \/ LeaseExpires
    \/ \E r \in Runs : Ends(r) \/ Decided(r) \/ Rests(r) \/ Deleted(r)

Spec == Init /\ [][Next]_cvars

(* The reconciler scans for ever, a scan goes on unless it dies, and the   *)
(* lease of one that died runs out.                                        *)
Fairness ==
    /\ WF_cvars(\E s \in Scanners : ClaimCursor(s))
    /\ \A s \in Scanners : WF_cvars(Continue(s))
    /\ WF_cvars(cursor.holder = None /\ LeaseExpires)

FairSpec == Spec /\ Fairness

-----------------------------------------------------------------------------
ScanTypeOK ==
    /\ there \subseteq Runs /\ pending \subseteq there /\ resting \subseteq pending
    /\ cursor \in Cursor /\ scan \in [Scanners -> Scan]
    /\ troubles \in 0..MaxTroubles

(* No Run starves: one that goes on waiting is handed to the reconciler,   *)
(* over and over, however many others there are, whatever becomes of the   *)
(* Run under the cursor and whichever scan dies.                           *)
WaitingIsListed ==
    \A r \in Runs :
        <>[](r \in pending \ resting) =>
            []<>(\E s \in Scanners : scan[s].pc = "return" /\ r \in scan[s].found)

-----------------------------------------------------------------------------
(* What one might expect besides and the code does not give: two scans of  *)
(* one scope may return the same Run, when one outlives its lease.         *)
ListedOnce ==
    \A s, t \in Scanners : s # t => scan[s].found \cap scan[t].found = {}
=============================================================================
