----------------------------- MODULE FileProofs -----------------------------
(***************************************************************************)
(* Proofs about the two halves of a file's record.                         *)
(*                                                                         *)
(* IngestionLease, for every number of submitters, workers, sweepers,      *)
(* readers, batches and generations, with or without a deletion: the       *)
(* active generation is whole, a cleaned one stays empty, and only the     *)
(* newest job commits.  FileInvariant adds to those what the record says   *)
(* of the job under way; CallInvariant says, of every worker and sweeper   *)
(* between two calls, what of the chunks it relies on is still there.      *)
(*                                                                         *)
(* UploadLifecycle, for every number of uploaders, cleaners and deleters:  *)
(* its types for any number of uploads to an id, and for the one upload    *)
(* that a user's file has, that what is visible keeps its bytes and that a *)
(* cleanup is never undone (OneUploadInvariant).                           *)
(***************************************************************************)
EXTENDS IngestionLease, UploadLifecycle, TLAPS

Calls == Workers \cup Sweepers

IngestionTypes ==
    /\ rec \in Record
    /\ chunks \in [Gens -> SUBSET Parts]
    /\ wk \in [Calls -> Work]
    /\ del \in {"no", "purge", "drop", "done"}

Cleaned == rec.cleaning \cup rec.deleted

FileInvariant ==
    /\ rec.there <=> del # "done"
    /\ rec.active <= rec.job
    /\ rec.status = "extracting" => rec.active < rec.job
    /\ rec.active \notin Cleaned
    /\ \A g \in rec.deleted : chunks[g] = {}
    /\ ActiveIsWhole

(* No commit has overtaken generation g, and nobody has begun to clean it. *)
Intact(g) == del = "no" /\ rec.active <= g /\ g \notin Cleaned

CallInvariant(w) ==
    LET g == wk[w].gen
        b == wk[w].batch
    IN
    /\ wk[w].pc # "idle" => g \in Gens
    /\ wk[w].pc = "save" => b \in Parts /\ (Intact(g) => 1..(b - 1) \subseteq chunks[g])
    /\ wk[w].pc = "commit" /\ Intact(g) => chunks[g] = Parts
    /\ wk[w].pc = "prune" /\ rec.there => g <= rec.active
    /\ wk[w].pc \in {"purge", "release"} /\ rec.there => g \in Cleaned
    /\ wk[w].pc = "release" /\ rec.there => chunks[g] = {}

IngestionInvariant == IngestionTypes /\ FileInvariant /\ \A w \in Calls : CallInvariant(w)

(* What a step may do to the file while others rely on it.                 *)
Progress ==
    /\ del' = "no" => del = "no"
    /\ rec'.there =>
          /\ rec.there
          /\ rec.active <= rec'.active
          /\ Cleaned \subseteq Cleaned'
          /\ \A g \in Cleaned : chunks[g] = {} => chunks'[g] = {}
    /\ \A g \in Gens : Intact(g)' => chunks[g] \subseteq chunks'[g]

(* A call whose local state a step leaves alone can still rely on it.      *)
LEMMA OthersRely ==
  ASSUME IngestionInvariant, IngestionTypes', FileInvariant', Progress,
         NEW w \in Calls, wk'[w] = wk[w]
  PROVE  CallInvariant(w)'
  <1> DEFINE g == wk[w].gen
  <1>1. CallInvariant(w) /\ wk[w] \in Work /\ rec \in Record /\ rec' \in Record
        /\ chunks \in [Gens -> SUBSET Parts] /\ chunks' \in [Gens -> SUBSET Parts]
    BY DEF IngestionInvariant, IngestionTypes
  <1>2. g \in Nat /\ rec.active \in Nat /\ rec'.active \in Nat
    BY <1>1 DEF Work, Record
  <1>3. Intact(g)' => Intact(g)
    BY <1>2 DEF Progress, Intact, FileInvariant
  <1>4. wk[w].pc # "idle" => g \in Gens
    BY <1>1 DEF CallInvariant
  <1>5. wk[w].pc = "save" =>
          wk[w].batch \in Parts /\ (Intact(g)' => 1..(wk[w].batch - 1) \subseteq chunks'[g])
    BY <1>1, <1>3, <1>4 DEF CallInvariant, Progress
  <1>6. wk[w].pc = "commit" /\ Intact(g)' => chunks'[g] = Parts
    <2> SUFFICES ASSUME wk[w].pc = "commit", Intact(g)' PROVE chunks'[g] = Parts
      OBVIOUS
    <2>1. chunks[g] = Parts /\ chunks[g] \subseteq chunks'[g] /\ g \in Gens
      BY <1>1, <1>3, <1>4 DEF CallInvariant, Progress
    <2> QED
      BY <1>1, <2>1
  <1>7. wk[w].pc = "prune" /\ rec'.there => g <= rec'.active
    BY <1>1, <1>2 DEF CallInvariant, Progress
  <1>8. wk[w].pc \in {"purge", "release"} /\ rec'.there => g \in Cleaned'
    BY <1>1 DEF CallInvariant, Progress
  <1>9. wk[w].pc = "release" /\ rec'.there => chunks'[g] = {}
    BY <1>1 DEF CallInvariant, Progress
  <1> QED
    BY <1>4, <1>5, <1>6, <1>7, <1>8, <1>9 DEF CallInvariant

(* Only the call that takes the step needs a look of its own.              *)
LEMMA MoverKeeps ==
  ASSUME IngestionInvariant, IngestionTypes', FileInvariant', Progress,
         NEW w \in Calls, \A x \in Calls \ {w} : wk'[x] = wk[x], CallInvariant(w)'
  PROVE  IngestionInvariant'
  <1>1. ASSUME NEW x \in Calls PROVE CallInvariant(x)'
    <2>1. CASE x = w
      BY <2>1
    <2>2. CASE x # w
      BY <2>2, OthersRely
    <2> QED
      BY <2>1, <2>2
  <1> QED
    BY <1>1 DEF IngestionInvariant, Calls

LEMMA OutsideKeeps ==
  ASSUME IngestionInvariant, IngestionTypes', FileInvariant', Progress, wk' = wk
  PROVE  IngestionInvariant'
  <1>1. ASSUME NEW x \in Calls PROVE CallInvariant(x)'
    BY OthersRely
  <1> QED
    BY <1>1 DEF IngestionInvariant, Calls

-----------------------------------------------------------------------------
(* Steps of a call that neither save, commit, prune nor clean.             *)
PlainSteps == {"idle", "extract", "event", "fail", "compensate", "authorize",
               "record", "claim", "complete", "backoff"}

Plain(w) ==
    /\ wk' \in [Calls -> Work]
    /\ \A x \in Calls \ {w} : wk'[x] = wk[x]
    /\ wk'[w].pc \in PlainSteps
    /\ wk'[w].pc # "idle" => wk'[w].gen \in Gens

LEMMA PlainCall ==
  ASSUME NEW w \in Calls, Plain(w) PROVE CallInvariant(w)'
  BY DEF Plain, PlainSteps, CallInvariant

LEMMA GotoType ==
  ASSUME wk \in [Calls -> Work], NEW w \in Calls, NEW pc,
         pc \in PlainSteps \cup {"save", "commit", "prune", "purge", "release"}, Goto(w, pc)
  PROVE  /\ wk' \in [Calls -> Work]
         /\ \A x \in Calls \ {w} : wk'[x] = wk[x]
         /\ wk'[w].pc = pc /\ wk'[w].gen = wk[w].gen /\ wk'[w].batch = wk[w].batch
  BY DEF Goto, Work, PlainSteps

LEMMA RestingType == Resting \in Work /\ Resting.pc = "idle"
  BY IngestionAssumption DEF Resting, Work

LEMMA GotoPlain ==
  ASSUME IngestionInvariant, NEW w \in Calls, wk[w].pc # "idle",
         NEW pc \in PlainSteps, Goto(w, pc)
  PROVE  Plain(w)
  <1>1. wk \in [Calls -> Work] /\ wk[w].gen \in Gens
    BY DEF IngestionInvariant, IngestionTypes, CallInvariant
  <1> QED
    BY <1>1, GotoType DEF Plain

(* The except clause of a save compensates, or fails, with batch 0.        *)
LEMMA AgainPlain ==
  ASSUME IngestionInvariant, NEW w \in Calls, NEW pc \in {"compensate", "fail"},
         wk[w].pc # "idle", wk' = [wk EXCEPT ![w] = [@ EXCEPT !.pc = pc, !.batch = 0]]
  PROVE  Plain(w)
  <1> DEFINE c == [wk[w] EXCEPT !.pc = pc, !.batch = 0]
  <1>1. wk \in [Calls -> Work] /\ wk[w] \in Work /\ wk[w].gen \in Gens
    BY DEF IngestionInvariant, IngestionTypes, CallInvariant
  <1>2. 0 \in 0..Batches
    BY IngestionAssumption
  <1>3. c \in Work /\ c.pc = pc /\ c.gen = wk[w].gen
    BY <1>1, <1>2 DEF Work
  <1>4. wk' = [wk EXCEPT ![w] = c]
    OBVIOUS
  <1> HIDE DEF c
  <1> QED
    BY <1>1, <1>3, <1>4 DEF Plain, PlainSteps

LEMMA EndPlain ==
  ASSUME IngestionInvariant, NEW w \in Calls, End(w) PROVE Plain(w)
  <1>1. wk \in [Calls -> Work]
    BY DEF IngestionInvariant, IngestionTypes
  <1> QED
    BY <1>1, RestingType DEF End, Plain, PlainSteps

(* A call that begins: a delivery, or a cleanup that was listed.           *)
LEMMA BeginPlain ==
  ASSUME IngestionInvariant, NEW w \in Calls, NEW g \in Gens, NEW pc \in PlainSteps,
         wk' = [wk EXCEPT ![w] = [Resting EXCEPT !.pc = pc, !.gen = g]]
  PROVE  Plain(w)
  <1> DEFINE c == [Resting EXCEPT !.pc = pc, !.gen = g]
  <1>1. wk \in [Calls -> Work]
    BY DEF IngestionInvariant, IngestionTypes
  <1>2. c \in Work /\ c.pc = pc /\ c.gen = g
    <2>1. g \in 0..MaxGen
      BY DEF Gens
    <2> QED
      BY <2>1, RestingType DEF Resting, Work, PlainSteps
  <1> HIDE DEF c
  <1>3. wk' = [wk EXCEPT ![w] = c]
    BY DEF c
  <1> QED
    BY <1>1, <1>2, <1>3 DEF Plain

(* A step that leaves the file alone.                                      *)
LEMMA FileStays ==
  ASSUME IngestionInvariant, UNCHANGED <<rec, chunks, del>>, wk' \in [Calls -> Work]
  PROVE  IngestionTypes' /\ FileInvariant' /\ Progress
  <1>1. IngestionTypes' /\ FileInvariant'
    BY DEF IngestionInvariant, IngestionTypes, FileInvariant, Cleaned, ActiveIsWhole
  <1>2. rec.active \in Nat
    BY DEF IngestionInvariant, IngestionTypes, Record
  <1>3. Progress
    BY <1>2 DEF Progress, Intact, Cleaned
  <1> QED
    BY <1>1, <1>3

LEMMA PlainKeeps ==
  ASSUME IngestionInvariant, NEW w \in Calls, Plain(w), UNCHANGED <<rec, chunks, del>>
  PROVE  IngestionInvariant'
  BY FileStays, PlainCall, MoverKeeps DEF Plain

-----------------------------------------------------------------------------
(* What changes the record alone: a new job, a job that failed, a lease    *)
(* that ran out.  Nothing of it concerns the chunks.                       *)
LEMMA RecordStays ==
  ASSUME IngestionInvariant, wk' \in [Calls -> Work], UNCHANGED <<chunks, del>>,
         rec' \in Record, rec'.there = rec.there, rec'.active = rec.active,
         rec'.cleaning = rec.cleaning, rec'.deleted = rec.deleted,
         rec.job <= rec'.job, rec'.status = "extracting" => rec'.active < rec'.job
  PROVE  IngestionTypes' /\ FileInvariant' /\ Progress
  <1>1. rec.active \in Nat /\ rec.job \in Nat /\ rec'.job \in Nat
    BY DEF IngestionInvariant, IngestionTypes, Record
  <1>2. IngestionTypes' /\ FileInvariant'
    BY <1>1 DEF IngestionInvariant, IngestionTypes, FileInvariant, Cleaned, ActiveIsWhole
  <1>3. Progress
    BY <1>1 DEF Progress, Intact, Cleaned
  <1> QED
    BY <1>2, <1>3

LEMMA AllocationKeeps ==
  ASSUME IngestionInvariant, NEW reclaimer \in BOOLEAN, Allocate(reclaimer),
         rec.job < MaxGen, UNCHANGED <<chunks, wk, del>>
  PROVE  IngestionInvariant'
  <1>1. rec \in Record /\ rec.active \in Nat /\ rec.job \in Nat
    BY DEF IngestionInvariant, IngestionTypes, Record
  <1>2. PICK j \in 0..MaxGen : j = rec.job + 1
    BY <1>1, IngestionAssumption
  <1>3. rec.job <= j /\ rec.active < j
    BY <1>1, <1>2 DEF IngestionInvariant, FileInvariant
  <1>4. rec' = [rec EXCEPT !.job = j, !.status = "extracting",
                           !.reclaimer = reclaimer, !.lease = "live"]
    BY <1>2 DEF Allocate
  <1> HIDE <1>2
  <1>5. rec' \in Record /\ rec'.there = rec.there /\ rec'.active = rec.active
        /\ rec'.cleaning = rec.cleaning /\ rec'.deleted = rec.deleted /\ rec'.job = j
    BY <1>1, <1>4 DEF Record
  <1> QED
    BY <1>3, <1>5, RecordStays, OutsideKeeps DEF IngestionInvariant, IngestionTypes

LEMMA FailureStays ==
  ASSUME IngestionInvariant, wk' \in [Calls -> Work], UNCHANGED <<chunks, del>>,
         NEW gen, NEW status \in {"failed", "not_enqueued"}, rec' = Failed(gen, status)
  PROVE  IngestionTypes' /\ FileInvariant' /\ Progress
  <1>1. rec \in Record
    BY DEF IngestionInvariant, IngestionTypes
  <1>2. /\ rec' \in Record /\ rec'.there = rec.there /\ rec'.active = rec.active
        /\ rec'.cleaning = rec.cleaning /\ rec'.deleted = rec.deleted
        /\ rec'.job = rec.job /\ rec'.status \in {status, rec.status}
    BY <1>1 DEF Failed, Record
  <1>3. rec'.status = "extracting" => rec'.active < rec'.job
    BY <1>2 DEF IngestionInvariant, FileInvariant
  <1>4. rec.job <= rec'.job
    BY <1>1, <1>2 DEF Record
  <1> QED
    BY <1>2, <1>3, <1>4, RecordStays

LEMMA ExpiryKeeps ==
  ASSUME IngestionInvariant, IngestionLeaseExpires PROVE IngestionInvariant'
  <1>1. rec \in Record
    BY DEF IngestionInvariant, IngestionTypes
  <1>2. /\ rec' \in Record /\ rec'.there = rec.there /\ rec'.active = rec.active
        /\ rec'.cleaning = rec.cleaning /\ rec'.deleted = rec.deleted
        /\ rec'.job = rec.job /\ rec'.status = rec.status
    BY <1>1 DEF IngestionLeaseExpires, Record
  <1>3. rec'.status = "extracting" => rec'.active < rec'.job
    BY <1>2 DEF IngestionInvariant, FileInvariant
  <1>4. rec.job <= rec'.job
    BY <1>1, <1>2 DEF Record
  <1>5. UNCHANGED <<chunks, wk, del>>
    BY DEF IngestionLeaseExpires
  <1> QED
    BY <1>2, <1>3, <1>4, <1>5, RecordStays, OutsideKeeps DEF IngestionInvariant, IngestionTypes

-----------------------------------------------------------------------------
(* A submitter or the maintenance endpoint.                                *)
LEMMA SubmitterKeeps ==
  ASSUME IngestionInvariant, NEW s \in Submitters,
         \/ Submit(s) \/ Reclaim(s) \/ Acquire(s) \/ Enqueue(s)
         \/ EnqueueRaises(s) \/ FailSubmission(s) \/ SubmitterDies(s)
  PROVE  IngestionInvariant'
  <1>1. UNCHANGED <<chunks, wk, del>>
    BY DEF Submit, Reclaim, Acquire, Enqueue, EnqueueRaises, FailSubmission, SubmitterDies
  <1>2. CASE UNCHANGED rec
    BY <1>1, <1>2, FileStays, OutsideKeeps DEF IngestionInvariant, IngestionTypes
  <1>3. CASE Reclaim(s)
    BY <1>1, <1>3, AllocationKeeps DEF Reclaim
  <1>4. CASE Acquire(s) /\ ~UNCHANGED rec
    BY <1>1, <1>4, AllocationKeeps DEF Acquire
  <1>5. CASE FailSubmission(s)
    BY <1>1, <1>5, FailureStays, OutsideKeeps
       DEF FailSubmission, IngestionInvariant, IngestionTypes
  <1> QED
    BY <1>2, <1>3, <1>4, <1>5 DEF Submit, Enqueue, EnqueueRaises, SubmitterDies

(* Steps that touch only the call, the queue of cleanups, or readers.      *)
LEMMA QuietKeeps ==
  ASSUME IngestionInvariant, NEW w \in Calls,
         \/ ExtractFails(w) \/ SaveRaises(w) \/ RecordEvent(w) \/ EventRaises(w)
         \/ ProcessDies(w) \/ Compensate(w) \/ CleaningRaises(w)
         \/ RecordPendingCleanup(w) \/ SweepGeneration(w)
  PROVE  IngestionInvariant'
  <1>1. UNCHANGED <<rec, chunks, del>>
    BY DEF ExtractFails, SaveRaises, RecordEvent, EventRaises, ProcessDies, Compensate,
           CleaningRaises, RecordPendingCleanup, SweepGeneration, ClaimCleanup,
           CompleteCleanup, BackOff
  <1>2. Plain(w)
    <2>1. CASE End(w)
      BY <2>1, EndPlain
    <2>2. CASE (SaveRaises(w) \/ RecordPendingCleanup(w)) /\ ~End(w)
      <3>1. wk[w].pc # "idle"
        BY <2>2 DEF SaveRaises, RecordPendingCleanup
      <3>2. PICK pc \in {"compensate", "fail"} :
               wk' = [wk EXCEPT ![w] = [@ EXCEPT !.pc = pc, !.batch = 0]]
        BY <2>2 DEF SaveRaises, RecordPendingCleanup, End
      <3> QED
        BY <3>1, <3>2, AgainPlain
    <2>3. CASE ~SaveRaises(w) /\ ~RecordPendingCleanup(w) /\ ~End(w)
      <3>1. wk[w].pc # "idle" /\ \E pc \in PlainSteps : Goto(w, pc)
        BY <2>3 DEF ExtractFails, RecordEvent, EventRaises, ProcessDies, Compensate,
             CleaningRaises, SweepGeneration, ClaimCleanup, CompleteCleanup, BackOff, PlainSteps
      <3> QED
        BY <3>1, GotoPlain
    <2> QED
      BY <2>1, <2>2, <2>3
  <1> QED
    BY <1>1, <1>2, PlainKeeps

LEMMA BeginningKeeps ==
  ASSUME IngestionInvariant, NEW w \in Calls, NEW g \in Gens,
         Deliver(w, g) \/ ListCleanup(w, g)
  PROVE  IngestionInvariant'
  <1>1. UNCHANGED <<rec, chunks, del>>
    BY DEF Deliver, ListCleanup
  <1>2. Plain(w)
    BY BeginPlain DEF Deliver, ListCleanup, PlainSteps
  <1> QED
    BY <1>1, <1>2, PlainKeeps

-----------------------------------------------------------------------------
(* A worker saves batch after batch: all before the next one is there.     *)
LEMMA ExtractKeeps ==
  ASSUME IngestionInvariant, NEW w \in Calls, Extract(w) PROVE IngestionInvariant'
  <1>1. wk \in [Calls -> Work] /\ wk[w].gen \in Gens /\ UNCHANGED <<rec, chunks, del>>
    BY DEF IngestionInvariant, IngestionTypes, CallInvariant, Extract
  <1>2. PICK f \in BOOLEAN :
           wk' = [wk EXCEPT ![w].pc = "save", ![w].batch = 1, ![w].fresh = f]
    BY DEF Extract
  <1>3. 1 \in 0..Batches /\ 1 \in Parts
    BY IngestionAssumption DEF Parts
  <1>4. /\ wk' \in [Calls -> Work] /\ \A x \in Calls \ {w} : wk'[x] = wk[x]
        /\ wk'[w].pc = "save" /\ wk'[w].gen = wk[w].gen /\ wk'[w].batch = 1
    <2> DEFINE c == [wk[w] EXCEPT !.pc = "save", !.batch = 1, !.fresh = f]
    <2>1. wk[w] \in Work
      BY <1>1
    <2>2. c \in Work /\ c.pc = "save" /\ c.gen = wk[w].gen /\ c.batch = 1
      BY <1>3, <2>1 DEF Work
    <2>3. wk' = [wk EXCEPT ![w] = c]
      BY <1>2
    <2> HIDE DEF c
    <2> QED
      BY <1>1, <2>2, <2>3
  <1>5. CallInvariant(w)'
    BY <1>1, <1>3, <1>4 DEF CallInvariant
  <1> QED
    BY <1>1, <1>4, <1>5, FileStays, MoverKeeps

LEMMA SaveKeeps ==
  ASSUME IngestionInvariant, NEW w \in Calls, SaveBatch(w) PROVE IngestionInvariant'
  <1> DEFINE g == wk[w].gen
             b == wk[w].batch
  <1>1. /\ wk \in [Calls -> Work] /\ rec \in Record /\ g \in Gens /\ b \in Parts
        /\ chunks \in [Gens -> SUBSET Parts]
        /\ Intact(g) => 1..(b - 1) \subseteq chunks[g]
        /\ UNCHANGED <<rec, del>>
    BY DEF IngestionInvariant, IngestionTypes, CallInvariant, SaveBatch
  <1>2. CASE ~Writable(g, wk[w].fresh)
    <2>1. wk' = [wk EXCEPT ![w] = IF b > 1 THEN [@ EXCEPT !.pc = "compensate"] ELSE Resting]
          /\ UNCHANGED chunks
      BY <1>2 DEF SaveBatch
    <2>2. Goto(w, "compensate") \/ End(w)
      BY <2>1 DEF Goto, End
    <2>3. wk[w].pc # "idle"
      BY DEF SaveBatch
    <2>4. Plain(w)
      BY <2>2, <2>3, GotoPlain, EndPlain DEF PlainSteps
    <2> QED
      BY <1>1, <2>1, <2>4, PlainKeeps
  <1>3. CASE Writable(g, wk[w].fresh)
    <2>1. chunks' = [chunks EXCEPT ![g] = @ \cup {b}]
      BY <1>3 DEF SaveBatch
    <2>2. /\ chunks' \in [Gens -> SUBSET Parts] /\ chunks'[g] = chunks[g] \cup {b}
          /\ \A h \in Gens : chunks[h] \subseteq chunks'[h]
          /\ \A h \in Gens \ {g} : chunks'[h] = chunks[h]
      BY <1>1, <2>1
    <2>3. g \notin Cleaned
      BY <1>3 DEF Writable, Cleaned
    <2>4. PICK n \in 0..Batches, pc \in {"save", "commit"} :
             /\ wk' = [wk EXCEPT ![w].batch = n, ![w].pc = pc]
             /\ pc = "save" => b < Batches /\ n = b + 1
             /\ pc = "commit" => ~(b < Batches)
      <3>1. wk' = [wk EXCEPT ![w].batch = IF b < Batches THEN b + 1 ELSE b,
                             ![w].pc = IF b < Batches THEN "save" ELSE "commit"]
        BY <1>3 DEF SaveBatch
      <3>2. CASE b < Batches
        <4>1. b + 1 \in 0..Batches
          BY <1>1, <3>2, IngestionAssumption DEF Parts
        <4>2. wk' = [wk EXCEPT ![w].batch = b + 1, ![w].pc = "save"]
          BY <3>1, <3>2
        <4> QED
          BY <3>2, <4>1, <4>2
      <3>3. CASE ~(b < Batches)
        <4>1. b \in 0..Batches
          BY <1>1, IngestionAssumption DEF Parts
        <4>2. wk' = [wk EXCEPT ![w].batch = b, ![w].pc = "commit"]
          BY <3>1, <3>3
        <4> QED
          BY <3>3, <4>1, <4>2
      <3> QED
        BY <3>2, <3>3
    <2>5. /\ wk' \in [Calls -> Work] /\ \A x \in Calls \ {w} : wk'[x] = wk[x]
          /\ wk'[w].pc = pc /\ wk'[w].gen = g /\ wk'[w].batch = n
      <3>1. wk' = [wk EXCEPT ![w].batch = n, ![w].pc = pc]
        BY <2>4
      <3>2. n \in 0..Batches /\ pc \in {"save", "commit"}
        OBVIOUS
      <3> DEFINE c == [wk[w] EXCEPT !.batch = n, !.pc = pc]
      <3>3. wk[w] \in Work
        BY <1>1
      <3>4. c \in Work /\ c.pc = pc /\ c.gen = g /\ c.batch = n
        BY <3>2, <3>3 DEF Work
      <3>5. wk' = [wk EXCEPT ![w] = c]
        BY <3>1
      <3> HIDE DEF c
      <3> QED
        BY <1>1, <3>4, <3>5
    <2>6. IngestionTypes'
      BY <1>1, <2>2, <2>5 DEF IngestionInvariant, IngestionTypes
    <2>7. FileInvariant'
      <3>1. \A h \in rec.deleted : chunks'[h] = {}
        BY <1>1, <2>2, <2>3 DEF IngestionInvariant, FileInvariant, Cleaned, Record
      <3>2. ActiveIsWhole'
        <4>1. rec.active > 0 => rec.active \in Gens
          BY <1>1 DEF Record, Gens
        <4> QED
          BY <1>1, <2>2, <4>1 DEF ActiveIsWhole, IngestionInvariant, FileInvariant
      <3> QED
        BY <1>1, <3>1, <3>2 DEF IngestionInvariant, FileInvariant, Cleaned
    <2>8. Progress
      <3>1. \A h \in Cleaned : chunks[h] = {} => chunks'[h] = {}
        BY <1>1, <2>2, <2>3 DEF Cleaned, Record
      <3>2. rec.active <= rec'.active
        BY <1>1 DEF Record
      <3> QED
        BY <1>1, <2>2, <3>1, <3>2 DEF Progress, Cleaned
    <2>9. CallInvariant(w)'
      <3>1. Intact(g)' => Intact(g)
        BY <1>1, <2>5 DEF Intact, Cleaned
      <3>2. pc = "save" => n \in Parts /\ (Intact(g)' => 1..(n - 1) \subseteq chunks'[g])
        <4> SUFFICES ASSUME pc = "save"
                     PROVE  n \in Parts /\ (Intact(g)' => 1..(n - 1) \subseteq chunks'[g])
          OBVIOUS
        <4>1. n = b + 1 /\ b < Batches /\ b \in Nat /\ b >= 1
          BY <1>1, <2>4, IngestionAssumption DEF Parts
        <4>2. n \in Parts
          BY <4>1, IngestionAssumption DEF Parts
        <4>3. 1..(n - 1) = 1..(b - 1) \cup {b}
          BY <4>1
        <4> QED
          BY <1>1, <2>2, <3>1, <4>2, <4>3
      <3>3. pc = "commit" /\ Intact(g)' => chunks'[g] = Parts
        <4> SUFFICES ASSUME pc = "commit", Intact(g)' PROVE chunks'[g] = Parts
          OBVIOUS
        <4>1. Parts = 1..(b - 1) \cup {b}
          BY <1>1, <2>4, IngestionAssumption DEF Parts
        <4>2. chunks'[g] \in SUBSET Parts
          BY <1>1, <2>2
        <4> QED
          BY <1>1, <2>2, <3>1, <4>1, <4>2
      <3> QED
        BY <1>1, <2>5, <3>2, <3>3 DEF CallInvariant
    <2> QED
      BY <2>5, <2>6, <2>7, <2>8, <2>9, MoverKeeps
  <1> QED
    BY <1>2, <1>3

-----------------------------------------------------------------------------
(* The commit: the newest job's, of a generation all of which is there.    *)
LEMMA CommitKeeps ==
  ASSUME IngestionInvariant, NEW w \in Calls, CommitGeneration(w)
  PROVE  IngestionInvariant'
  <1> DEFINE g == wk[w].gen
  <1>1. /\ wk \in [Calls -> Work] /\ rec \in Record /\ g \in Gens
        /\ wk[w].pc = "commit" /\ UNCHANGED <<chunks, del>>
    BY DEF IngestionInvariant, IngestionTypes, CallInvariant, CommitGeneration
  <1>2. CASE ~Committable(g)
    <2>1. End(w) /\ UNCHANGED rec
      BY <1>2 DEF CommitGeneration
    <2> QED
      BY <1>1, <2>1, EndPlain, PlainKeeps
  <1>3. CASE Committable(g)
    <2>1. PICK status \in {"ready", "needs_ocr"} :
             /\ rec' = [rec EXCEPT !.active = g, !.status = status,
                                   !.reclaimer = FALSE, !.lease = "none"]
             /\ Goto(w, "prune")
      BY <1>3 DEF CommitGeneration
    <2>2. g \in 0..MaxGen
      BY <1>1 DEF Gens
    <2>3. /\ rec' \in Record /\ rec'.there = rec.there /\ rec'.active = g
          /\ rec'.status # "extracting" /\ rec'.job = rec.job
          /\ rec'.cleaning = rec.cleaning /\ rec'.deleted = rec.deleted
      BY <1>1, <2>1, <2>2 DEF Record
    <2>4. /\ wk' \in [Calls -> Work] /\ \A x \in Calls \ {w} : wk'[x] = wk[x]
          /\ wk'[w].pc = "prune" /\ wk'[w].gen = g
      BY <1>1, <2>1, GotoType
    <2>5. rec.job = g /\ rec.active < g /\ g \notin Cleaned
      BY <1>3 DEF Committable, IngestionInvariant, FileInvariant, Cleaned
    <2>6. rec.active \in Nat /\ g \in Nat /\ rec.active <= g
      BY <1>1, <2>5 DEF Record, Gens
    <2>7. del = "no" => chunks[g] = Parts
      BY <1>1, <2>5, <2>6 DEF Intact, IngestionInvariant, CallInvariant
    <2>8. IngestionTypes'
      BY <1>1, <2>3, <2>4 DEF IngestionInvariant, IngestionTypes
    <2>9. FileInvariant'
      BY <1>1, <2>3, <2>5, <2>6, <2>7
         DEF IngestionInvariant, FileInvariant, Cleaned, ActiveIsWhole
    <2>10. Progress
      BY <1>1, <2>3, <2>6 DEF Progress, Cleaned
    <2>11. CallInvariant(w)'
      BY <1>1, <2>3, <2>4, <2>6 DEF CallInvariant
    <2> QED
      BY <2>4, <2>8, <2>9, <2>10, <2>11, MoverKeeps
  <1> QED
    BY <1>2, <1>3

(* The committer prunes what is older than its own generation, which the   *)
(* active one has reached.                                                 *)
LEMMA PruneKeeps ==
  ASSUME IngestionInvariant, NEW w \in Calls, Prune(w)
  PROVE  IngestionInvariant'
  <1> DEFINE g == wk[w].gen
  <1>1. /\ wk \in [Calls -> Work] /\ rec \in Record /\ g \in Gens
        /\ chunks \in [Gens -> SUBSET Parts] /\ UNCHANGED <<rec, del>>
        /\ rec.there => g <= rec.active
    BY DEF IngestionInvariant, IngestionTypes, CallInvariant, Prune
  <1>2. chunks' \in [Gens -> SUBSET Parts]
        /\ \A h \in Gens : chunks'[h] = IF h < g THEN {} ELSE chunks[h]
    BY <1>1 DEF Prune, Pruned
  <1>3. Plain(w)
    BY GotoPlain DEF Prune, PlainSteps
  <1>4. IngestionTypes'
    BY <1>1, <1>2, <1>3 DEF IngestionInvariant, IngestionTypes, Plain
  <1>5. rec.active \in 0..MaxGen /\ g \in Nat /\ (rec.active > 0 => rec.active \in Gens)
    BY <1>1 DEF Record, Gens
  <1>6. FileInvariant'
    <2>1. \A h \in rec.deleted : chunks'[h] = {}
      BY <1>1, <1>2 DEF IngestionInvariant, FileInvariant, Record
    <2>2. ActiveIsWhole'
      BY <1>1, <1>2, <1>5 DEF ActiveIsWhole, IngestionInvariant, FileInvariant
    <2> QED
      BY <1>1, <2>1, <2>2 DEF IngestionInvariant, FileInvariant, Cleaned
  <1>7. Progress
    <2>1. ASSUME NEW h \in Gens, Intact(h)' PROVE chunks[h] \subseteq chunks'[h]
      <3>1. rec.there /\ rec.active <= h /\ h \in Nat
        BY <1>1, <2>1 DEF Intact, IngestionInvariant, FileInvariant, Gens
      <3>2. ~(h < g)
        BY <1>1, <1>5, <3>1
      <3> QED
        BY <1>2, <3>2
    <2>2. \A h \in Cleaned : chunks[h] = {} => chunks'[h] = {}
      BY <1>1, <1>2 DEF Cleaned, Record
    <2> QED
      BY <1>1, <1>5, <2>1, <2>2 DEF Progress, Cleaned
  <1> QED
    BY <1>3, <1>4, <1>6, <1>7, PlainCall, MoverKeeps DEF Plain

LEMMA FailKeeps ==
  ASSUME IngestionInvariant, NEW w \in Calls, FailIngestion(w)
  PROVE  IngestionInvariant'
  <1>1. Plain(w) /\ UNCHANGED <<chunks, del>> /\ rec' = Failed(wk[w].gen, "failed")
    BY EndPlain DEF FailIngestion
  <1>2. IngestionTypes' /\ FileInvariant' /\ Progress
    BY <1>1, FailureStays DEF Plain
  <1> QED
    BY <1>1, <1>2, PlainCall, MoverKeeps DEF Plain

-----------------------------------------------------------------------------
(* Cleaning: what is marked is never the active generation; what is marked *)
(* or deleted is never written again.                                      *)
LEMMA AuthorizeKeeps ==
  ASSUME IngestionInvariant, NEW w \in Calls, Authorize(w)
  PROVE  IngestionInvariant'
  <1> DEFINE g == wk[w].gen
  <1>1. /\ wk \in [Calls -> Work] /\ rec \in Record /\ g \in Gens
        /\ UNCHANGED <<chunks, del>> /\ wk[w].pc = "authorize"
    BY DEF IngestionInvariant, IngestionTypes, CallInvariant, Authorize
  <1>2. CASE ~MayClean(g)
    <2>1. UNCHANGED rec /\ \E pc \in PlainSteps : Goto(w, pc)
      BY <1>2 DEF Authorize, PlainSteps
    <2> QED
      BY <1>1, <2>1, GotoPlain, PlainKeeps
  <1>3. CASE MayClean(g)
    <2>1. rec' = [rec EXCEPT !.cleaning = @ \cup {g}] /\ Goto(w, "purge")
      BY <1>3 DEF Authorize
    <2>2. /\ rec' \in Record /\ rec'.there = rec.there /\ rec'.active = rec.active
          /\ rec'.status = rec.status /\ rec'.job = rec.job
          /\ rec'.cleaning = rec.cleaning \cup {g} /\ rec'.deleted = rec.deleted
      BY <1>1, <2>1 DEF Record
    <2>3. /\ wk' \in [Calls -> Work] /\ \A x \in Calls \ {w} : wk'[x] = wk[x]
          /\ wk'[w].pc = "purge" /\ wk'[w].gen = g
      BY <1>1, <2>1, GotoType
    <2>4. IngestionTypes'
      BY <1>1, <2>2, <2>3 DEF IngestionInvariant, IngestionTypes
    <2>5. rec.active # g
      BY <1>3 DEF MayClean
    <2>6. FileInvariant'
      BY <1>1, <2>2, <2>5 DEF IngestionInvariant, FileInvariant, Cleaned, ActiveIsWhole
    <2>7. Progress
      BY <1>1, <2>2 DEF Progress, Cleaned, Record
    <2>8. CallInvariant(w)'
      BY <1>1, <2>2, <2>3 DEF CallInvariant, Cleaned
    <2> QED
      BY <2>3, <2>4, <2>6, <2>7, <2>8, MoverKeeps
  <1> QED
    BY <1>2, <1>3

LEMMA PurgeKeeps ==
  ASSUME IngestionInvariant, NEW w \in Calls, Purge(w)
  PROVE  IngestionInvariant'
  <1> DEFINE g == wk[w].gen
  <1>1. /\ wk \in [Calls -> Work] /\ rec \in Record /\ g \in Gens
        /\ chunks \in [Gens -> SUBSET Parts] /\ UNCHANGED <<rec, del>>
        /\ rec.there => g \in Cleaned
    BY DEF IngestionInvariant, IngestionTypes, CallInvariant, Purge
  <1>2. /\ chunks' \in [Gens -> SUBSET Parts] /\ chunks'[g] = {}
        /\ \A h \in Gens \ {g} : chunks'[h] = chunks[h]
    BY <1>1 DEF Purge
  <1>3. /\ wk' \in [Calls -> Work] /\ \A x \in Calls \ {w} : wk'[x] = wk[x]
        /\ wk'[w].pc = "release" /\ wk'[w].gen = g
    BY <1>1, GotoType DEF Purge
  <1>4. IngestionTypes'
    BY <1>1, <1>2, <1>3 DEF IngestionInvariant, IngestionTypes
  <1>5. rec.active \in 0..MaxGen /\ (rec.active > 0 => rec.active \in Gens)
    BY <1>1 DEF Record, Gens
  <1>6. FileInvariant'
    <2>1. \A h \in rec.deleted : chunks'[h] = {}
      BY <1>1, <1>2 DEF IngestionInvariant, FileInvariant, Record
    <2>2. ActiveIsWhole'
      <3> SUFFICES ASSUME del = "no", rec.active > 0 PROVE chunks'[rec.active] = Parts
        BY <1>1 DEF ActiveIsWhole
      <3>1. rec.active # g /\ chunks[rec.active] = Parts
        BY <1>1 DEF IngestionInvariant, FileInvariant, ActiveIsWhole
      <3> QED
        BY <1>2, <1>5, <3>1
    <2> QED
      BY <1>1, <2>1, <2>2 DEF IngestionInvariant, FileInvariant, Cleaned
  <1>7. Progress
    <2>1. ASSUME NEW h \in Gens, Intact(h)' PROVE chunks[h] \subseteq chunks'[h]
      <3>1. h \notin Cleaned /\ rec.there
        BY <1>1, <2>1 DEF Intact, IngestionInvariant, FileInvariant, Cleaned
      <3> QED
        BY <1>1, <1>2, <3>1
    <2>2. \A h \in Cleaned : chunks[h] = {} => chunks'[h] = {}
      BY <1>1, <1>2 DEF Cleaned, Record
    <2> QED
      BY <1>1, <1>5, <2>1, <2>2 DEF Progress, Cleaned
  <1>8. CallInvariant(w)'
    BY <1>1, <1>2, <1>3 DEF CallInvariant, Cleaned
  <1> QED
    BY <1>3, <1>4, <1>6, <1>7, <1>8, MoverKeeps

LEMMA TombstoneKeeps ==
  ASSUME IngestionInvariant, NEW w \in Calls, Tombstone(w)
  PROVE  IngestionInvariant'
  <1> DEFINE g == wk[w].gen
  <1>1. /\ wk \in [Calls -> Work] /\ rec \in Record /\ g \in Gens
        /\ UNCHANGED <<chunks, del>> /\ wk[w].pc = "release"
        /\ rec.there => g \in Cleaned /\ chunks[g] = {}
    BY DEF IngestionInvariant, IngestionTypes, CallInvariant, Tombstone
  <1>2. Plain(w)
    <2>1. wk' = [wk EXCEPT ![w] = IF w \in Workers THEN Resting
                                                   ELSE [wk[w] EXCEPT !.pc = "complete"]]
      BY DEF Tombstone
    <2>2. End(w) \/ Goto(w, "complete")
      BY <2>1 DEF End, Goto
    <2> QED
      BY <1>1, <2>2, EndPlain, GotoPlain DEF PlainSteps
  <1>3. CASE UNCHANGED rec
    BY <1>1, <1>2, <1>3, PlainKeeps
  <1>4. CASE ~UNCHANGED rec
    <2>1. rec.there /\ rec' = [rec EXCEPT !.deleted = @ \cup {g}, !.cleaning = @ \ {g}]
      BY <1>4 DEF Tombstone
    <2>2. /\ rec' \in Record /\ rec'.there = rec.there /\ rec'.active = rec.active
          /\ rec'.status = rec.status /\ rec'.job = rec.job
          /\ rec'.cleaning = rec.cleaning \ {g} /\ rec'.deleted = rec.deleted \cup {g}
      BY <1>1, <2>1 DEF Record
    <2>3. Cleaned' = Cleaned
      BY <1>1, <2>1, <2>2 DEF Cleaned
    <2>4. IngestionTypes'
      BY <1>1, <1>2, <2>2 DEF IngestionInvariant, IngestionTypes, Plain
    <2>5. FileInvariant'
      BY <1>1, <2>1, <2>2, <2>3 DEF IngestionInvariant, FileInvariant, ActiveIsWhole
    <2>6. Progress
      BY <1>1, <2>2, <2>3 DEF Progress, Record
    <2> QED
      BY <1>2, <2>4, <2>5, <2>6, PlainCall, MoverKeeps DEF Plain
  <1> QED
    BY <1>3, <1>4

-----------------------------------------------------------------------------
(* The deletion, after which nothing is relied on.                         *)
LEMMA DeletionKeeps ==
  ASSUME IngestionInvariant, BeginDelete \/ DeleteAllChunks \/ DeleteFile
  PROVE  IngestionInvariant'
  <1>1. rec \in Record /\ chunks \in [Gens -> SUBSET Parts] /\ wk \in [Calls -> Work]
        /\ UNCHANGED wk /\ del' # "no"
    BY DEF IngestionInvariant, IngestionTypes, BeginDelete, DeleteAllChunks, DeleteFile
  <1>2. CASE BeginDelete
    <2>1. PICK f \in BOOLEAN : rec' = [rec EXCEPT !.fenced = f]
      BY <1>2 DEF BeginDelete
    <2>2. /\ rec' \in Record /\ rec'.there = rec.there /\ rec'.active = rec.active
          /\ rec'.status = rec.status /\ rec'.job = rec.job
          /\ rec'.cleaning = rec.cleaning /\ rec'.deleted = rec.deleted
      BY <1>1, <2>1 DEF Record
    <2>3. UNCHANGED chunks /\ del = "no" /\ del' = "purge"
      BY <1>2 DEF BeginDelete
    <2>4. IngestionTypes'
      BY <1>1, <2>2, <2>3 DEF IngestionTypes
    <2>5. FileInvariant'
      BY <1>1, <2>2, <2>3 DEF IngestionInvariant, FileInvariant, Cleaned, ActiveIsWhole
    <2>6. Progress
      BY <1>1, <2>2, <2>3 DEF Progress, Intact, Cleaned, Record
    <2> QED
      BY <1>1, <2>4, <2>5, <2>6, OutsideKeeps
  <1>3. CASE DeleteAllChunks
    <2>1. UNCHANGED rec /\ del = "purge" /\ del' = "drop" /\ chunks' = [h \in Gens |-> {}]
      BY <1>3 DEF DeleteAllChunks
    <2>2. IngestionTypes'
      BY <1>1, <2>1 DEF IngestionTypes
    <2>3. FileInvariant'
      BY <1>1, <2>1 DEF IngestionInvariant, FileInvariant, Cleaned, ActiveIsWhole, Record
    <2>4. Progress
      BY <1>1, <2>1 DEF Progress, Intact, Cleaned, Record
    <2> QED
      BY <1>1, <2>2, <2>3, <2>4, OutsideKeeps
  <1>4. CASE DeleteFile
    <2>1. UNCHANGED chunks /\ del' = "done" /\ rec' = [Fresh EXCEPT !.there = FALSE]
      BY <1>4 DEF DeleteFile
    <2>2. /\ rec' \in Record /\ ~rec'.there /\ rec'.active = 0 /\ rec'.job = 0
          /\ rec'.status = "pending" /\ rec'.cleaning = {} /\ rec'.deleted = {}
      <3>1. 0 \in 0..MaxGen
        BY IngestionAssumption
      <3> QED
        BY <2>1, <3>1 DEF Fresh, Record
    <2>3. IngestionTypes'
      BY <1>1, <2>1, <2>2 DEF IngestionTypes
    <2>4. FileInvariant'
      BY <1>1, <2>1, <2>2 DEF FileInvariant, Cleaned, ActiveIsWhole
    <2>5. Progress
      BY <1>1, <2>1, <2>2 DEF Progress, Intact
    <2> QED
      BY <1>1, <2>3, <2>4, <2>5, OutsideKeeps
  <1> QED
    BY <1>2, <1>3, <1>4

-----------------------------------------------------------------------------
(* The invariant holds, and every step keeps it.                           *)
LEMMA IngestionInitial ==
  ASSUME IngestionInit PROVE IngestionInvariant
  <1>1. 0 \in 0..MaxGen
    BY IngestionAssumption
  <1>2. rec \in Record /\ rec.there /\ rec.active = 0 /\ rec.job = 0
        /\ rec.status = "pending" /\ Cleaned = {} /\ rec.deleted = {}
    BY <1>1 DEF IngestionInit, Fresh, Record, Cleaned
  <1>3. wk \in [Calls -> Work] /\ \A w \in Calls : wk[w].pc = "idle"
    BY RestingType DEF IngestionInit, Calls
  <1>4. chunks \in [Gens -> SUBSET Parts] /\ del = "no"
    BY DEF IngestionInit
  <1>5. FileInvariant
    BY <1>2, <1>4 DEF FileInvariant, ActiveIsWhole
  <1> QED
    BY <1>2, <1>3, <1>4, <1>5 DEF IngestionInvariant, IngestionTypes, CallInvariant

LEMMA IngestionStepKeeps ==
  ASSUME IngestionInvariant, [IngestionNext]_ivars PROVE IngestionInvariant'
  <1>1. CASE UNCHANGED <<rec, chunks, wk, del>>
    BY <1>1, FileStays, OutsideKeeps DEF IngestionInvariant, IngestionTypes
  <1>2. ASSUME NEW s \in Submitters,
               \/ Submit(s) \/ Reclaim(s) \/ Acquire(s) \/ Enqueue(s)
               \/ EnqueueRaises(s) \/ FailSubmission(s) \/ SubmitterDies(s)
        PROVE  IngestionInvariant'
    BY <1>2, SubmitterKeeps
  <1>3. ASSUME NEW g \in Gens,
               \/ SweepLeaseExpires(g) \/ SweepComesDue(g)
               \/ \E w \in Workers : Deliver(w, g)
               \/ \E w \in Sweepers : ListCleanup(w, g)
        PROVE  IngestionInvariant'
    BY <1>1, <1>3, BeginningKeeps DEF SweepLeaseExpires, SweepComesDue, Calls
  <1>4. ASSUME NEW w \in Workers,
               Ingest(w) \/ ExtractFails(w) \/ SaveRaises(w) \/ EventRaises(w)
        PROVE  IngestionInvariant'
    BY <1>4, ExtractKeeps, SaveKeeps, CommitKeeps, PruneKeeps, FailKeeps, QuietKeeps
       DEF Ingest, Calls
  <1>5. ASSUME NEW w \in Sweepers, SweepGeneration(w)
        PROVE  IngestionInvariant'
    BY <1>5, QuietKeeps DEF Calls
  <1>6. ASSUME NEW w \in Workers \cup Sweepers,
               CleanGeneration(w) \/ CleaningRaises(w) \/ ProcessDies(w)
        PROVE  IngestionInvariant'
    BY <1>6, AuthorizeKeeps, PurgeKeeps, TombstoneKeeps, QuietKeeps
       DEF CleanGeneration, Calls
  <1>7. CASE BeginDelete \/ DeleteAllChunks \/ DeleteFile
    BY <1>7, DeletionKeeps
  <1>8. CASE \E r \in Readers : ReadActive(r) \/ QueryChunks(r)
    BY <1>1, <1>8 DEF ReadActive, QueryChunks
  <1>9. CASE IngestionLeaseExpires
    BY <1>9, ExpiryKeeps
  <1> QED
    BY <1>1, <1>2, <1>3, <1>4, <1>5, <1>6, <1>7, <1>8, <1>9 DEF IngestionNext, ivars

LEMMA IngestionCorrect == IngestionSpec => []IngestionInvariant
  BY IngestionInitial, IngestionStepKeeps, PTL DEF IngestionSpec

(* What a reader finds active is whole, whoever lost a job, compensated,   *)
(* pruned or swept meanwhile.                                              *)
THEOREM ActiveGenerationsAreWhole == IngestionSpec => []ActiveIsWhole
  <1>1. IngestionInvariant => ActiveIsWhole
    BY DEF IngestionInvariant, FileInvariant
  <1> QED
    BY <1>1, IngestionCorrect, PTL

(* What was cleaned stays empty, and is not what the file shows.           *)
THEOREM CleanedGenerationsStayEmpty == IngestionSpec => []TombstonesAreEmpty
  <1>1. IngestionInvariant => TombstonesAreEmpty
    BY DEF IngestionInvariant, FileInvariant, TombstonesAreEmpty, Cleaned
  <1> QED
    BY <1>1, IngestionCorrect, PTL

-----------------------------------------------------------------------------
(* The active generation is moved by commits alone.                        *)
LEMMA CommitsMoveActive ==
  ASSUME IngestionInvariant, [IngestionNext]_ivars, rec'.there, rec'.active # rec.active
  PROVE  \E w \in Calls : CommitGeneration(w) /\ Committable(wk[w].gen)
                          /\ rec'.active = wk[w].gen
  <1>1. rec \in Record
    BY DEF IngestionInvariant, IngestionTypes
  <1>2. ~UNCHANGED rec
    OBVIOUS
  <1>3. ASSUME NEW s \in Submitters,
               \/ Submit(s) \/ Reclaim(s) \/ Acquire(s) \/ Enqueue(s)
               \/ EnqueueRaises(s) \/ FailSubmission(s) \/ SubmitterDies(s)
        PROVE  FALSE
    <2>1. Allocate(TRUE) \/ Allocate(FALSE) \/ rec' = Failed(sb[s].gen, "not_enqueued")
      BY <1>2, <1>3 DEF Submit, Reclaim, Acquire, Enqueue, EnqueueRaises, FailSubmission,
                        SubmitterDies
    <2> QED
      BY <1>1, <2>1 DEF Allocate, Failed, Record
  <1>4. ASSUME NEW g \in Gens,
               \/ SweepLeaseExpires(g) \/ SweepComesDue(g)
               \/ \E w \in Workers : Deliver(w, g)
               \/ \E w \in Sweepers : ListCleanup(w, g)
        PROVE  FALSE
    BY <1>2, <1>4 DEF SweepLeaseExpires, SweepComesDue, Deliver, ListCleanup
  <1>5. ASSUME NEW w \in Workers,
               Ingest(w) \/ ExtractFails(w) \/ SaveRaises(w) \/ EventRaises(w)
        PROVE  CommitGeneration(w) /\ Committable(wk[w].gen) /\ rec'.active = wk[w].gen
    <2>1. CommitGeneration(w) \/ FailIngestion(w)
      BY <1>2, <1>5 DEF Ingest, ExtractFails, SaveRaises, EventRaises, Extract, SaveBatch,
                        Prune, RecordEvent, Compensate, RecordPendingCleanup
    <2>2. ~FailIngestion(w)
      BY <1>1 DEF FailIngestion, Failed, Record
    <2>3. /\ Committable(wk[w].gen)
          /\ \E status \in {"ready", "needs_ocr"} :
                rec' = [rec EXCEPT !.active = wk[w].gen, !.status = status,
                                   !.reclaimer = FALSE, !.lease = "none"]
      BY <1>2, <2>1, <2>2 DEF CommitGeneration
    <2> QED
      BY <1>1, <2>1, <2>2, <2>3 DEF Record
  <1>6. ASSUME NEW w \in Workers \cup Sweepers,
               CleanGeneration(w) \/ CleaningRaises(w) \/ ProcessDies(w)
        PROVE  FALSE
    <2>1. Authorize(w) \/ Tombstone(w)
      BY <1>2, <1>6 DEF CleanGeneration, CleaningRaises, ProcessDies, Purge
    <2> QED
      BY <1>1, <2>1 DEF Authorize, Tombstone, Record
  <1>7. ASSUME NEW w \in Sweepers, SweepGeneration(w) PROVE FALSE
    BY <1>2, <1>7 DEF SweepGeneration, ClaimCleanup, CompleteCleanup, BackOff
  <1>8. ASSUME BeginDelete \/ DeleteAllChunks \/ DeleteFile \/ IngestionLeaseExpires
        PROVE  FALSE
    BY <1>1, <1>2, <1>8
       DEF BeginDelete, DeleteAllChunks, DeleteFile, IngestionLeaseExpires, Record, Fresh
  <1>9. ASSUME \E r \in Readers : ReadActive(r) \/ QueryChunks(r) PROVE FALSE
    BY <1>2, <1>9 DEF ReadActive, QueryChunks
  <1> QED
    BY <1>2, <1>3, <1>4, <1>5, <1>6, <1>7, <1>8, <1>9 DEF IngestionNext, ivars, Calls

(* A job that was taken over commits nothing, and generations only grow.   *)
THEOREM NewestJobsCommit == IngestionSpec => NewestJobCommits
  <1>1. IngestionInvariant /\ [IngestionNext]_ivars
          => [rec'.there /\ rec'.active # rec.active
                => rec'.active = rec.job /\ rec'.active > rec.active]_ivars
    <2> SUFFICES ASSUME IngestionInvariant, [IngestionNext]_ivars,
                        rec'.there, rec'.active # rec.active
                 PROVE  rec'.active = rec.job /\ rec'.active > rec.active
      OBVIOUS
    <2>1. rec'.active = rec.job /\ rec.status = "extracting"
      BY CommitsMoveActive DEF Committable
    <2>2. rec.active < rec.job /\ rec.active \in Nat /\ rec.job \in Nat
      BY <2>1 DEF IngestionInvariant, FileInvariant, IngestionTypes, Record
    <2> QED
      BY <2>1, <2>2
  <1> QED
    BY <1>1, IngestionCorrect, PTL DEF IngestionSpec, NewestJobCommits

-----------------------------------------------------------------------------
(***************************************************************************)
(* The upload of a file.  First what each actor's steps do to record and   *)
(* bytes; the types follow for any number of uploads, and for the one      *)
(* upload that a user's file has, that nobody erases what is visible.      *)
(***************************************************************************)
FileOK(f) ==
    /\ f \in FileRecord
    /\ f.holder # None <=> f.cleanup \in {"in_progress", "deleting"}
    /\ f.holder # None <=> f.until # "none"
    /\ f.cleanup = "failed" <=> f.retries >= MaxCleanupRetries

Busy(u) == up[u].pc \notin {"idle", "intent"}
Cleaning(c) == cl[c].pc \notin {"idle", "claim"}

(* A cleaner judges the last retry by a copy; as long as it holds the      *)
(* lease, the record has had no other retry since.                         *)
CleanerKnows ==
    \A c \in Cleaners : Cleaning(c) /\ file.holder = c => cl[c].retries = file.retries

UploaderGoes(u, pc) == \E r \in Upload : r.pc = pc /\ up' = [up EXCEPT ![u] = r]
CleanerGoes(c, pc, n) == cl' = [cl EXCEPT ![c] = [pc |-> pc, retries |-> n]]

(* The record ages, or its cleanup is marked.                              *)
FileAges ==
    /\ FileOK(file')
    /\ file'.there = file.there /\ file'.status = file.status
    /\ file'.pending = file.pending
    /\ file'.holder = file.holder /\ file'.retries = file.retries

(* The uploader.                                                           *)
Begins(u) ==
    /\ up[u].pc = "idle" /\ UploaderGoes(u, "intent")
    /\ UNCHANGED <<file, blob, uploads>>

Saves(u) ==
    /\ up[u].pc = "intent" /\ UploaderGoes(u, "write")
    /\ uploads < MaxUploads /\ uploads' = uploads + 1
    /\ FileOK(file') /\ file'.there /\ file'.status = "pending_upload"
    /\ ~file'.pending /\ file'.holder = None
    /\ UNCHANGED blob

Breathes(u) ==
    UploaderGoes(u, up[u].pc) /\ FileAges /\ UNCHANGED <<blob, uploads>>

Moves(u, pc) ==
    /\ Busy(u) /\ UploaderGoes(u, pc) /\ pc # "intent"
    /\ \/ blob' = TRUE
       \/ blob' = blob /\ (pc \in {"stop", "commit"} => up[u].pc \in {"stop", "commit"})
       \/ blob' = FALSE /\ pc \notin {"stop", "commit"}
    /\ UNCHANGED <<file, uploads>>

Commits(u) ==
    /\ up[u].pc = "commit" /\ UploaderGoes(u, "idle") /\ Mine(u)
    /\ FileOK(file') /\ file'.there /\ file'.status = "committed" /\ ~file'.pending
    /\ file'.holder = file.holder /\ file'.retries = file.retries
    /\ UNCHANGED <<blob, uploads>>

GivesUp(u) ==
    /\ Busy(u) /\ UploaderGoes(u, "idle") /\ StillOwned(u)
    /\ \/ file' = NoRecord
       \/ /\ FileOK(file') /\ file'.status = "failed" /\ file'.pending
          /\ file'.holder = file.holder /\ file'.retries = file.retries
    /\ UNCHANGED <<blob, uploads>>

Uploads(u) ==
    /\ \/ Begins(u) \/ Saves(u) \/ Breathes(u) \/ Commits(u) \/ GivesUp(u)
       \/ UploaderGoes(u, "idle") /\ UNCHANGED <<file, blob, uploads>>
       \/ \E pc \in {"idle", "write", "stop", "commit", "erase", "drop", "mark"} : Moves(u, pc)
    /\ UNCHANGED <<cl, dl>>

(* The cleaner.                                                            *)
Lists(c) ==
    /\ cl[c].pc = "idle" /\ CleanerGoes(c, "claim", cl[c].retries)
    /\ file.there /\ UNCHANGED <<file, blob>>

Takes(c) ==
    /\ CleanerGoes(c, "mark", file.retries)
    /\ file.pending \/ file.status # "committed"
    /\ file.retries < MaxCleanupRetries
    /\ FileOK(file') /\ file'.there /\ file'.pending /\ file'.status = file.status
    /\ file'.holder = c /\ file'.retries = file.retries
    /\ file.there /\ UNCHANGED blob

Sweeps(c) ==
    /\ Cleaning(c) /\ FileAges /\ blob' \in {blob, FALSE}
    /\ \E pc \in {"mark", "erase", "fence", "final", "release"} :
          CleanerGoes(c, pc, cl[c].retries)

EndsSweep(c) ==
    /\ CleanerGoes(c, "idle", 0)
    /\ \/ FileAges
       \/ Cleaning(c) /\ file' = NoRecord
       \/ /\ Cleaning(c) /\ FileOK(file') /\ file'.holder = None
          /\ file'.there = file.there /\ file'.status = file.status
          /\ file'.pending = file.pending
    /\ UNCHANGED blob

Cleans(c) ==
    /\ Lists(c) \/ Takes(c) \/ Sweeps(c) \/ EndsSweep(c)
    /\ UNCHANGED <<up, dl, uploads>>

(* The deleter.                                                            *)
Asks(d) ==
    /\ dl[d] = "idle" /\ Visible /\ dl' = [dl EXCEPT ![d] = "erase"]
    /\ UNCHANGED <<file, blob>>

Removes(d) ==
    /\ dl[d] # "idle"
    /\ \E pc \in {"drop", "save", "over"} : dl' = [dl EXCEPT ![d] = pc]
    /\ blob' \in {blob, FALSE}
    /\ \/ file' = file \/ file' = NoRecord
       \/ /\ FileOK(file') /\ file'.holder = None
          /\ file'.there /\ file'.status = "committed" /\ file'.pending

Deletes(d) == (Asks(d) \/ Removes(d)) /\ UNCHANGED <<up, cl, uploads>>

TimeGoesBy == FileAges /\ UNCHANGED <<blob, up, cl, dl, uploads>>

UploadEffects ==
    \/ \E u \in Uploaders : Uploads(u)
    \/ \E c \in Cleaners : Cleans(c)
    \/ \E d \in Deleters : Deletes(d)
    \/ TimeGoesBy

-----------------------------------------------------------------------------
LEMMA UploadConstants ==
  None \notin Cleaners /\ MaxUploads \in Nat \ {0} /\ MaxCleanupRetries \in Nat \ {0}
  BY UploadAssumption

LEMMA RecordsOK ==
  /\ FileOK(NoRecord) /\ ~NoRecord.there /\ NoRecord.holder = None
  /\ NoRecord.status = "none" /\ ~NoRecord.pending
  /\ \A t \in 0..MaxUploads :
        /\ FileOK(Intent(t)) /\ Intent(t).there /\ Intent(t).holder = None
        /\ Intent(t).status = "pending_upload" /\ ~Intent(t).pending
  <1>1. FileOK(NoRecord) /\ ~NoRecord.there /\ NoRecord.holder = None
        /\ NoRecord.status = "none" /\ ~NoRecord.pending
    BY UploadConstants DEF FileOK, NoRecord, FileRecord, Lease
  <1>2. ASSUME NEW t \in 0..MaxUploads
        PROVE  /\ FileOK(Intent(t)) /\ Intent(t).there /\ Intent(t).holder = None
               /\ Intent(t).status = "pending_upload" /\ ~Intent(t).pending
    <2>0. Intent(t) = [[[[NoRecord EXCEPT !.there = TRUE] EXCEPT !.status = "pending_upload"]
                          EXCEPT !.token = t] EXCEPT !.lease = "live"]
      BY DEF Intent
    <2>1. Intent(t) = [there |-> TRUE, status |-> "pending_upload", token |-> t,
                       lease |-> "live", pending |-> FALSE, cleanup |-> "pending",
                       holder |-> None, until |-> "none", retries |-> 0, wait |-> FALSE]
      BY <2>0 DEF NoRecord
    <2>2. Intent(t) \in FileRecord
      BY <2>1, UploadConstants DEF FileRecord, Lease
    <2> QED
      BY <2>1, <2>2, UploadConstants DEF FileOK
  <1> QED
    BY <1>1, <1>2

LEMMA QueuedOK ==
  ASSUME NEW queued, queued = [Committed EXCEPT !.pending = TRUE]
  PROVE  /\ FileOK(queued) /\ queued.there /\ queued.holder = None
         /\ queued.status = "committed" /\ queued.pending
  <1> DEFINE q == [there |-> TRUE, status |-> "committed", token |-> 0,
                   lease |-> "none", pending |-> TRUE, cleanup |-> "pending",
                   holder |-> None, until |-> "none", retries |-> 0, wait |-> FALSE]
  <1>1. queued = q
    BY DEF Committed, NoRecord
  <1>2. FileOK(q) /\ q.there /\ q.holder = None /\ q.status = "committed" /\ q.pending
    BY UploadConstants DEF FileOK, FileRecord, Lease
  <1> HIDE DEF q
  <1> QED
    BY <1>1, <1>2

LEMMA FileTyped == UploadTypeOK => FileOK(file)
  BY DEF UploadTypeOK, FileOK

LEMMA FileSame ==
  ASSUME UploadTypeOK, UNCHANGED file
  PROVE  FileAges
  BY FileTyped DEF FileAges

(* An uploader that takes another step, or another beat.                   *)
LEMMA UploaderSteps ==
  ASSUME UploadTypeOK, NEW u \in Uploaders,
         NEW pc \in {"idle", "intent", "write", "stop", "commit", "erase", "drop", "mark"},
         NEW beat \in {"off", "good", "bad", "refused"},
         \/ up' = [up EXCEPT ![u].pc = pc]
         \/ up' = [up EXCEPT ![u].pc = pc, ![u].beat = beat]
         \/ up' = [up EXCEPT ![u].beat = beat] /\ pc = up[u].pc
         \/ up' = [up EXCEPT ![u] = Idle] /\ pc = "idle"
  PROVE  UploaderGoes(u, pc)
  <1>1. up[u] \in Upload
    BY DEF UploadTypeOK
  <1>2. CASE up' = [up EXCEPT ![u] = Idle] /\ pc = "idle"
    <2>1. Idle \in Upload /\ Idle.pc = "idle"
      BY UploadConstants DEF Idle, Upload
    <2> QED
      BY <1>2, <2>1 DEF UploaderGoes
  <1>3. ASSUME NEW b \in {"off", "good", "bad", "refused"},
               up' = [up EXCEPT ![u].pc = pc, ![u].beat = b]
        PROVE  UploaderGoes(u, pc)
    <2> DEFINE r == [up[u] EXCEPT !.pc = pc, !.beat = b]
    <2>1. r \in Upload /\ r.pc = pc
      BY <1>1 DEF Upload
    <2>2. up' = [up EXCEPT ![u] = r]
      BY <1>3
    <2> HIDE DEF r
    <2> QED
      BY <2>1, <2>2 DEF UploaderGoes
  <1>4. CASE up' = [up EXCEPT ![u].pc = pc]
    <2>1. up' = [up EXCEPT ![u].pc = pc, ![u].beat = up[u].beat]
      BY <1>1, <1>4 DEF Upload, UploadTypeOK
    <2>2. up[u].beat \in {"off", "good", "bad", "refused"}
      BY <1>1 DEF Upload
    <2> QED
      BY <1>3, <2>1, <2>2
  <1>5. CASE up' = [up EXCEPT ![u].beat = beat] /\ pc = up[u].pc
    <2>1. up' = [up EXCEPT ![u].pc = pc, ![u].beat = beat]
      BY <1>1, <1>5 DEF Upload, UploadTypeOK
    <2> QED
      BY <1>3, <2>1
  <1> QED
    BY <1>2, <1>3, <1>4, <1>5

LEMMA UploaderEffects ==
  ASSUME UploadTypeOK, NEW u \in Uploaders,
         \/ CheckExisting(u) \/ Transfer(u) \/ WriteFails(u) \/ StopTimesOut(u)
         \/ Renew(u) \/ RenewRaises(u) \/ UploaderDies(u)
  PROVE  Uploads(u)
  <1>1. up[u] \in Upload /\ uploads \in 0..MaxUploads /\ blob \in BOOLEAN /\ FileOK(file)
    BY FileTyped DEF UploadTypeOK
  <1>2. CASE CheckExisting(u)
    <2>1. UploaderGoes(u, "intent")
      BY <1>2, UploaderSteps DEF CheckExisting
    <2> QED
      BY <1>2, <2>1 DEF CheckExisting, Uploads, Begins
  <1>3. CASE SaveIntent(u)
    <2> DEFINE r == [pc |-> "write", token |-> uploads + 1, beat |-> "good"]
    <2>1. uploads + 1 \in 0..MaxUploads
      BY <1>1, <1>3, UploadConstants DEF SaveIntent
    <2>2. r \in Upload /\ r.pc = "write"
      BY <2>1 DEF Upload
    <2>3. up' = [up EXCEPT ![u] = r]
      BY <1>3 DEF SaveIntent
    <2> HIDE DEF r
    <2>4. UploaderGoes(u, "write")
      BY <2>2, <2>3 DEF UploaderGoes
    <2> QED
      BY <1>3, <2>1, <2>4, RecordsOK DEF SaveIntent, Uploads, Saves
  <1>4. CASE WriteBlob(u)
    <2>1. UploaderGoes(u, "stop")
      BY <1>4, UploaderSteps DEF WriteBlob
    <2> QED
      BY <1>4, <2>1 DEF WriteBlob, Uploads, Moves, Busy
  <1>5. CASE WriteFails(u)
    <2>1. UploaderGoes(u, "erase")
      BY <1>5, UploaderSteps DEF WriteFails
    <2> QED
      BY <1>5, <2>1 DEF WriteFails, Uploads, Moves, Busy
  <1>6. CASE Renew(u) \/ RenewRaises(u)
    <2>1. PICK beat \in {"off", "good", "bad", "refused"} : up' = [up EXCEPT ![u].beat = beat]
      BY <1>6 DEF Renew, RenewRaises, AfterBeat
    <2>2. up[u].pc \in {"idle", "intent", "write", "stop", "commit", "erase", "drop", "mark"}
      BY <1>1 DEF Upload
    <2>3. UploaderGoes(u, up[u].pc)
      BY <2>1, <2>2, UploaderSteps
    <2>4. FileAges
      <3>1. CASE file' = file
        BY <3>1, FileSame
      <3>2. CASE file' = [file EXCEPT !.lease = "live"]
        BY <1>1, <3>2 DEF FileAges, FileOK, FileRecord, Lease
      <3> QED
        BY <1>6, <3>1, <3>2 DEF Renew, RenewRaises
    <2> QED
      BY <1>6, <2>3, <2>4 DEF Renew, RenewRaises, Uploads, Breathes
  <1>7. CASE StopHeartbeat(u) \/ StopTimesOut(u)
    <2>1. PICK pc \in {"commit", "erase"} : UploaderGoes(u, pc)
      BY <1>7, UploaderSteps DEF StopHeartbeat, StopTimesOut
    <2> QED
      BY <1>7, <2>1 DEF StopHeartbeat, StopTimesOut, Uploads, Moves, Busy
  <1>8. CASE CommitUpload(u)
    <2>1. CASE Mine(u)
      <3>1. UploaderGoes(u, "idle")
        BY <1>8, <2>1, UploaderSteps DEF CommitUpload
      <3>2. file' = [file EXCEPT !.status = "committed", !.pending = FALSE,
                                 !.token = 0, !.lease = "none"]
        BY <1>8, <2>1 DEF CommitUpload
      <3>3. file' \in FileRecord
        <4> DEFINE one == [file EXCEPT !.status = "committed"]
                   two == [one EXCEPT !.pending = FALSE]
                   three == [two EXCEPT !.token = 0]
        <4>1. one \in FileRecord
          BY <1>1 DEF FileOK, FileRecord
        <4>2. two \in FileRecord
          <5> HIDE DEF one
          <5> QED BY <4>1 DEF FileRecord
        <4>3. three \in FileRecord
          <5> HIDE DEF two
          <5> QED BY <4>2, UploadConstants DEF FileRecord
        <4>4. file' = [three EXCEPT !.lease = "none"]
          BY <3>2
        <4> HIDE DEF three
        <4> QED
          BY <4>3, <4>4 DEF FileRecord, Lease
      <3>4. /\ file'.there = file.there /\ file'.status = "committed" /\ ~file'.pending
            /\ file'.holder = file.holder /\ file'.retries = file.retries
            /\ file'.until = file.until /\ file'.cleanup = file.cleanup
        BY <1>1, <3>2 DEF FileOK, FileRecord
      <3>5. FileOK(file') /\ file.there
        BY <1>1, <2>1, <3>3, <3>4 DEF FileOK, Mine
      <3> QED
        BY <1>8, <2>1, <3>1, <3>4, <3>5 DEF CommitUpload, Uploads, Commits
    <2>2. CASE ~Mine(u)
      <3>1. UploaderGoes(u, "erase")
        BY <1>8, <2>2, UploaderSteps DEF CommitUpload
      <3> QED
        BY <1>8, <2>2, <3>1 DEF CommitUpload, Uploads, Moves, Busy
    <2> QED
      BY <2>1, <2>2
  <1>9. CASE CompensateFailedIntent(u)
    <2>1. PICK pc \in {"drop", "mark"} : UploaderGoes(u, pc)
      BY <1>9, UploaderSteps DEF CompensateFailedIntent
    <2> QED
      BY <1>9, <2>1 DEF CompensateFailedIntent, Uploads, Moves, Busy
  <1>10. CASE DropIntent(u)
    <2>1. CASE file' = NoRecord /\ StillOwned(u) /\ up' = [up EXCEPT ![u] = Idle]
      <3>1. UploaderGoes(u, "idle")
        BY <2>1, UploaderSteps
      <3> QED
        BY <1>10, <2>1, <3>1 DEF DropIntent, Uploads, GivesUp, Busy
    <2>2. CASE file' = file
      <3>1. PICK pc \in {"idle", "mark"} : UploaderGoes(u, pc)
        BY <1>10, UploaderSteps DEF DropIntent
      <3> QED
        BY <1>10, <2>2, <3>1 DEF DropIntent, Uploads, Moves, Busy
    <2> QED
      BY <1>10, <2>1, <2>2 DEF DropIntent
  <1>11. CASE MarkFailed(u)
    <2>1. UploaderGoes(u, "idle")
      BY <1>11, UploaderSteps DEF MarkFailed
    <2>2. CASE StillOwned(u)
      <3>1. file' = [file EXCEPT !.status = "failed", !.pending = TRUE, !.token = 0]
        BY <1>11, <2>2 DEF MarkFailed
      <3>2. file' \in FileRecord
        <4> DEFINE one == [file EXCEPT !.status = "failed"]
                   two == [one EXCEPT !.pending = TRUE]
        <4>1. one \in FileRecord
          BY <1>1 DEF FileOK, FileRecord
        <4>2. two \in FileRecord
          <5> HIDE DEF one
          <5> QED BY <4>1 DEF FileRecord
        <4>3. file' = [two EXCEPT !.token = 0]
          BY <3>1
        <4> HIDE DEF two
        <4> QED
          BY <4>2, <4>3, UploadConstants DEF FileRecord
      <3>3. /\ file'.status = "failed" /\ file'.pending
            /\ file'.holder = file.holder /\ file'.retries = file.retries
            /\ file'.until = file.until /\ file'.cleanup = file.cleanup
        BY <1>1, <3>1 DEF FileOK, FileRecord
      <3>4. FileOK(file')
        BY <1>1, <3>2, <3>3 DEF FileOK
      <3> QED
        BY <1>11, <2>1, <2>2, <3>3, <3>4 DEF MarkFailed, Uploads, GivesUp, Busy
    <2>3. CASE ~StillOwned(u)
      BY <1>11, <2>1, <2>3 DEF MarkFailed, Uploads
    <2> QED
      BY <2>2, <2>3
  <1>12. CASE UploaderDies(u)
    <2>1. UploaderGoes(u, "idle")
      BY <1>12, UploaderSteps DEF UploaderDies
    <2> QED
      BY <1>12, <2>1 DEF UploaderDies, Uploads
  <1> QED
    BY <1>2, <1>3, <1>4, <1>5, <1>6, <1>7, <1>8, <1>9, <1>10, <1>11, <1>12 DEF Transfer

LEMMA CleanerSteps ==
  ASSUME UploadTypeOK, NEW c \in Cleaners
  PROVE  /\ cl' = [cl EXCEPT ![c] = Rest] => CleanerGoes(c, "idle", 0)
         /\ \A pc \in {"claim", "mark", "erase", "fence", "final", "release"} :
               \/ cl' = [cl EXCEPT ![c].pc = pc]
               \/ cl' = [cl EXCEPT ![c] = [cl[c] EXCEPT !.pc = pc]]
               => CleanerGoes(c, pc, cl[c].retries)
  <1>1. cl' = [cl EXCEPT ![c] = Rest] => CleanerGoes(c, "idle", 0)
    BY DEF CleanerGoes, Rest
  <1>2. ASSUME NEW pc \in {"claim", "mark", "erase", "fence", "final", "release"},
               \/ cl' = [cl EXCEPT ![c].pc = pc]
               \/ cl' = [cl EXCEPT ![c] = [cl[c] EXCEPT !.pc = pc]]
        PROVE  CleanerGoes(c, pc, cl[c].retries)
    <2>1. cl[c] \in Cleaner
      BY DEF UploadTypeOK
    <2>2. [cl[c] EXCEPT !.pc = pc] = [pc |-> pc, retries |-> cl[c].retries]
      BY <2>1 DEF Cleaner
    <2>3. cl' = [cl EXCEPT ![c] = [cl[c] EXCEPT !.pc = pc]]
      BY <1>2
    <2> QED
      BY <2>2, <2>3 DEF CleanerGoes
  <1> QED
    BY <1>1, <1>2

LEMMA CleanerEffects ==
  ASSUME UploadTypeOK, CleanerKnows, NEW c \in Cleaners,
         Clean(c) \/ CleanupRaises(c) \/ CleanerDies(c)
  PROVE  Cleans(c)
  <1>1. FileOK(file) /\ file \in FileRecord /\ c # None
    BY FileTyped, UploadConstants DEF FileOK
  <1>2. CASE ListPending(c)
    <2>1. CleanerGoes(c, "claim", cl[c].retries)
      BY <1>2, CleanerSteps DEF ListPending
    <2> QED
      BY <1>2, <2>1 DEF ListPending, Cleans, Lists
  <1>3. CASE ClaimCleanupFile(c)
    <2>1. CASE MayClaim
      <3>1. file' = [file EXCEPT !.pending = TRUE, !.cleanup = "in_progress",
                                 !.holder = c, !.until = "live"]
        BY <1>3, <2>1 DEF ClaimCleanupFile
      <3>2. /\ FileOK(file') /\ file'.pending /\ file'.holder = c
            /\ file'.retries = file.retries /\ file'.there = file.there
            /\ file'.status = file.status
        BY <1>1, <2>1, <3>1, UploadConstants DEF FileOK, FileRecord, Lease, MayClaim
      <3>3. file.pending \/ file.status # "committed"
        BY <2>1 DEF MayClaim, Cleanable
      <3>4. CleanerGoes(c, "mark", file.retries)
        BY <1>3, <2>1 DEF ClaimCleanupFile, CleanerGoes
      <3> QED
        BY <1>3, <2>1, <3>2, <3>3, <3>4 DEF ClaimCleanupFile, Cleans, Takes, MayClaim
    <2>2. CASE ~MayClaim
      BY <1>3, <2>2, CleanerSteps, FileSame DEF ClaimCleanupFile, Cleans, EndsSweep
    <2> QED
      BY <2>1, <2>2
  <1>4. CASE MarkDeleting(c) \/ FenceDrop(c)
    <2>1. file' = file \/ (HoldsCleanup(c) /\ file' = [file EXCEPT !.cleanup = "deleting"])
      BY <1>4 DEF MarkDeleting, FenceDrop
    <2>2. FileAges
      <3>1. CASE file' = file
        BY <3>1, FileSame
      <3>2. CASE HoldsCleanup(c) /\ file' = [file EXCEPT !.cleanup = "deleting"]
        BY <1>1, <3>2, UploadConstants DEF HoldsCleanup, FileAges, FileOK, FileRecord, Lease
      <3> QED
        BY <2>1, <3>1, <3>2
    <2>3. \/ cl' = [cl EXCEPT ![c] = Rest]
          \/ \E pc \in {"erase", "final"} : cl' = [cl EXCEPT ![c] = [cl[c] EXCEPT !.pc = pc]]
      BY <1>4 DEF MarkDeleting, FenceDrop, UploadTypeOK
    <2>4. \/ CleanerGoes(c, "idle", 0)
          \/ \E pc \in {"erase", "final"} : CleanerGoes(c, pc, cl[c].retries)
      BY <2>3, CleanerSteps
    <2> QED
      BY <1>4, <2>2, <2>4 DEF MarkDeleting, FenceDrop, Cleans, Sweeps, EndsSweep, Cleaning
  <1>5. CASE EraseFile(c) \/ CleanupRaises(c)
    <2>1. PICK pc \in {"fence", "release"} : cl' = [cl EXCEPT ![c].pc = pc]
      BY <1>5 DEF EraseFile, CleanupRaises
    <2>2. CleanerGoes(c, pc, cl[c].retries)
      BY <2>1, CleanerSteps
    <2> QED
      BY <1>5, <2>2, FileSame DEF EraseFile, CleanupRaises, Cleans, Sweeps, Cleaning
  <1>6. CASE DropFile(c)
    BY <1>6, CleanerSteps, FileSame DEF DropFile, Cleans, EndsSweep, Cleaning
  <1>7. CASE ReleaseCleanup(c)
    <2>1. CleanerGoes(c, "idle", 0)
      BY <1>7, CleanerSteps DEF ReleaseCleanup
    <2>2. CASE HoldsCleanup(c)
      <3>1. file.retries < MaxCleanupRetries /\ file.retries \in 0..MaxCleanupRetries
            /\ cl[c].retries = file.retries
        BY <1>1, <1>7, <2>2, UploadConstants
           DEF HoldsCleanup, FileOK, FileRecord, ReleaseCleanup, CleanerKnows, Cleaning
      <3>2. PICK n \in 0..MaxCleanupRetries :
               n = file.retries + 1 /\ (LastCleanup(c) <=> n >= MaxCleanupRetries)
        BY <3>1, UploadConstants DEF LastCleanup
      <3>3. PICK over \in {"failed", "pending"} :
               /\ over = IF LastCleanup(c) THEN "failed" ELSE "pending"
               /\ over = "failed" <=> n >= MaxCleanupRetries
        BY <3>2
      <3>4. file' = [file EXCEPT !.retries = n, !.holder = None, !.until = "none",
                                 !.cleanup = over, !.wait = TRUE]
        BY <1>7, <2>2, <3>2, <3>3 DEF ReleaseCleanup
      <3>5. /\ FileOK(file') /\ file'.holder = None /\ file'.there = file.there
            /\ file'.status = file.status /\ file'.pending = file.pending
        BY <1>1, <3>3, <3>4 DEF FileOK, FileRecord, Lease
      <3> QED
        BY <1>7, <2>1, <3>5 DEF ReleaseCleanup, Cleans, EndsSweep, Cleaning
    <2>3. CASE ~HoldsCleanup(c)
      BY <1>7, <2>1, <2>3, FileSame DEF ReleaseCleanup, Cleans, EndsSweep
    <2> QED
      BY <2>2, <2>3
  <1>8. CASE CleanerDies(c)
    BY <1>8, CleanerSteps, FileSame DEF CleanerDies, Cleans, EndsSweep
  <1> QED
    BY <1>2, <1>3, <1>4, <1>5, <1>6, <1>7, <1>8 DEF Clean

LEMMA DeleterEffects ==
  ASSUME UploadTypeOK, NEW d \in Deleters, Delete(d) \/ DeleterDies(d)
  PROVE  Deletes(d)
  <1>1. CASE GetFile(d)
    BY <1>1 DEF GetFile, Deletes, Asks
  <1>2. CASE DeleteBytes(d) \/ DeleteRecord(d) \/ DeleterDies(d)
    BY <1>2 DEF DeleteBytes, DeleteRecord, DeleterDies, Deletes, Removes
  <1>3. CASE QueueForCleanup(d)
    BY <1>3, QueuedOK DEF QueueForCleanup, Deletes, Removes
  <1> QED
    BY <1>1, <1>2, <1>3 DEF Delete

LEMMA UploadStep ==
  ASSUME UploadTypeOK, CleanerKnows, [UploadNext]_uvars
  PROVE  UploadEffects
  <1>1. FileOK(file)
    BY FileTyped
  <1>2. CASE UNCHANGED uvars
    BY <1>2, FileSame DEF uvars, UploadEffects, TimeGoesBy
  <1>3. CASE UploadLeaseExpires \/ HolderLeaseExpires \/ RetryComesDue
    <2>1. CASE UploadLeaseExpires
      BY <1>1, <2>1 DEF UploadLeaseExpires, FileAges, FileOK, FileRecord, Lease,
                        UploadEffects, TimeGoesBy
    <2>2. CASE HolderLeaseExpires
      BY <1>1, <2>2 DEF HolderLeaseExpires, FileAges, FileOK, FileRecord, Lease,
                        UploadEffects, TimeGoesBy
    <2>3. CASE RetryComesDue
      BY <1>1, <2>3 DEF RetryComesDue, FileAges, FileOK, FileRecord,
                        UploadEffects, TimeGoesBy
    <2> QED
      BY <1>3, <2>1, <2>2, <2>3
  <1> QED
    BY <1>2, <1>3, UploaderEffects, CleanerEffects, DeleterEffects
       DEF UploadNext, UploadEffects

(* The types, for any number of uploads.                                   *)
LEMMA UploadTypesKept ==
  ASSUME UploadTypeOK, CleanerKnows, UploadEffects
  PROVE  UploadTypeOK' /\ CleanerKnows'
  <1>1. FileOK(file) /\ file.retries \in 0..MaxCleanupRetries
    BY FileTyped DEF FileOK, FileRecord
  <1>2. ASSUME FileOK(file'), blob' \in BOOLEAN, up' \in [Uploaders -> Upload],
               cl' \in [Cleaners -> Cleaner], uploads' \in 0..MaxUploads,
               dl' \in [Deleters -> {"idle", "erase", "drop", "save", "over"}]
        PROVE  UploadTypeOK'
    BY <1>2 DEF UploadTypeOK, FileOK
  <1>3. ASSUME NEW u \in Uploaders, Uploads(u)
        PROVE  UploadTypeOK' /\ CleanerKnows'
    <2>1. up' \in [Uploaders -> Upload]
      BY <1>3 DEF Uploads, Begins, Saves, Breathes, Moves, Commits, GivesUp, UploaderGoes,
                  UploadTypeOK
    <2>2. FileOK(file') /\ blob' \in BOOLEAN /\ uploads' \in 0..MaxUploads
      <3>1. blob \in BOOLEAN /\ uploads \in 0..MaxUploads
        BY DEF UploadTypeOK
      <3>2. CASE Saves(u)
        BY <3>1, <3>2, UploadConstants DEF Saves
      <3>3. CASE GivesUp(u)
        BY <3>1, <3>3, RecordsOK DEF GivesUp
      <3>4. ASSUME NEW pc, Moves(u, pc)
            PROVE  FileOK(file') /\ blob' \in BOOLEAN /\ uploads' \in 0..MaxUploads
        BY <1>1, <3>1, <3>4 DEF Moves
      <3>5. CASE Begins(u) \/ Breathes(u) \/ Commits(u)
                 \/ (UploaderGoes(u, "idle") /\ UNCHANGED <<file, blob, uploads>>)
        BY <1>1, <3>1, <3>5 DEF Begins, Breathes, FileAges, Commits
      <3> QED
        BY <1>3, <3>2, <3>3, <3>4, <3>5 DEF Uploads
    <2>3. file'.holder = None \/ (file'.holder = file.holder /\ file'.retries = file.retries)
      BY <1>3, RecordsOK
         DEF Uploads, Begins, Saves, Breathes, FileAges, Moves, Commits, GivesUp
    <2>4. UNCHANGED <<cl, dl>>
      BY <1>3 DEF Uploads
    <2>5. CleanerKnows'
      BY <2>3, <2>4, UploadConstants DEF CleanerKnows, Cleaning
    <2> QED
      BY <1>2, <2>1, <2>2, <2>4, <2>5 DEF UploadTypeOK
  <1>4. ASSUME NEW c \in Cleaners, Cleans(c)
        PROVE  UploadTypeOK' /\ CleanerKnows'
    <2>1. UNCHANGED <<up, dl, uploads>> /\ FileOK(file') /\ blob' \in BOOLEAN
      BY <1>1, <1>4, RecordsOK
         DEF Cleans, Lists, Takes, Sweeps, EndsSweep, FileAges, UploadTypeOK
    <2>2. PICK pc \in {"idle", "claim", "mark", "erase", "fence", "final", "release"},
               n \in 0..MaxCleanupRetries :
             /\ CleanerGoes(c, pc, n)
             /\ n = file.retries \/ n = cl[c].retries \/ pc = "idle"
             /\ ~Cleaning(c) /\ pc \notin {"idle", "claim"} => n = file'.retries
      <3>1. cl[c].retries \in 0..MaxCleanupRetries /\ 0 \in 0..MaxCleanupRetries
        BY UploadConstants DEF UploadTypeOK, Cleaner
      <3> QED
        BY <1>1, <1>4, <3>1 DEF Cleans, Lists, Takes, Sweeps, EndsSweep
    <2>3. /\ cl' \in [Cleaners -> Cleaner] /\ cl'[c].pc = pc /\ cl'[c].retries = n
          /\ \A e \in Cleaners \ {c} : cl'[e] = cl[e]
      BY <2>2 DEF CleanerGoes, UploadTypeOK, Cleaner
    <2>4. CleanerKnows'
      <3>1. CASE Takes(c)
        <4>1. cl'[c].retries = file.retries /\ file'.retries = file.retries /\ file'.holder = c
          BY <3>1 DEF Takes, CleanerGoes, UploadTypeOK
        <4> QED
          BY <2>3, <4>1 DEF CleanerKnows, Cleaning
      <3>2. CASE Lists(c) \/ EndsSweep(c)
        <4>1. ~Cleaning(c)'
          BY <2>3, <3>2 DEF Lists, EndsSweep, CleanerGoes, Cleaning, UploadTypeOK
        <4>2. file'.holder = None \/ (file'.holder = file.holder /\ file'.retries = file.retries)
          BY <3>2, RecordsOK DEF Lists, EndsSweep, FileAges
        <4> QED
          BY <2>3, <4>1, <4>2, UploadConstants DEF CleanerKnows, Cleaning
      <3>3. CASE Sweeps(c)
        <4>1. cl'[c].retries = cl[c].retries /\ Cleaning(c)
              /\ file'.holder = file.holder /\ file'.retries = file.retries
          BY <3>3 DEF Sweeps, CleanerGoes, UploadTypeOK, FileAges
        <4> QED
          BY <2>3, <4>1 DEF CleanerKnows, Cleaning
      <3> QED
        BY <1>4, <3>1, <3>2, <3>3 DEF Cleans
    <2> QED
      BY <1>2, <2>1, <2>3, <2>4 DEF UploadTypeOK
  <1>5. ASSUME NEW d \in Deleters, Deletes(d)
        PROVE  UploadTypeOK' /\ CleanerKnows'
    <2>1. UNCHANGED <<up, cl, uploads>> /\ FileOK(file') /\ blob' \in BOOLEAN
          /\ dl' \in [Deleters -> {"idle", "erase", "drop", "save", "over"}]
      BY <1>1, <1>5, RecordsOK DEF Deletes, Asks, Removes, UploadTypeOK
    <2>2. file'.holder = None \/ file' = file
      BY <1>5, RecordsOK DEF Deletes, Asks, Removes
    <2>3. CleanerKnows'
      BY <2>1, <2>2, UploadConstants DEF CleanerKnows, Cleaning
    <2> QED
      BY <1>2, <2>1, <2>3 DEF UploadTypeOK
  <1>6. CASE TimeGoesBy
    BY <1>2, <1>6 DEF TimeGoesBy, FileAges, UploadTypeOK, CleanerKnows, Cleaning
  <1> QED
    BY <1>3, <1>4, <1>5, <1>6 DEF UploadEffects

LEMMA UploadTypesInit == UploadInit => UploadTypeOK /\ CleanerKnows
  <1> SUFFICES ASSUME UploadInit PROVE UploadTypeOK /\ CleanerKnows
    OBVIOUS
  <1>1. Idle \in Upload /\ Rest \in Cleaner /\ Rest.pc = "idle" /\ Idle.pc = "idle"
    BY UploadConstants DEF Idle, Upload, Rest, Cleaner
  <1>2. up \in [Uploaders -> Upload] /\ cl \in [Cleaners -> Cleaner]
    BY <1>1 DEF UploadInit
  <1>3. FileOK(file) /\ file.holder = None
    BY RecordsOK DEF UploadInit
  <1>4. CleanerKnows
    BY <1>3, UploadConstants DEF CleanerKnows
  <1>5. dl \in [Deleters -> {"idle", "erase", "drop", "save", "over"}]
    BY DEF UploadInit
  <1>6. blob \in BOOLEAN /\ uploads \in 0..MaxUploads
    <2>1. blob = FALSE /\ uploads = 0
      BY DEF UploadInit
    <2>2. 0 \in 0..MaxUploads
      BY UploadConstants
    <2> QED
      BY <2>1, <2>2
  <1> QED
    <2>1. /\ file \in FileRecord
          /\ file.holder # None <=> file.cleanup \in {"in_progress", "deleting"}
          /\ file.holder # None <=> file.until # "none"
          /\ file.cleanup = "failed" <=> file.retries >= MaxCleanupRetries
      BY <1>3 DEF FileOK
    <2>2. UploadTypeOK
      BY <2>1, <1>2, <1>5, <1>6 DEF UploadTypeOK
    <2> QED
      BY <2>2, <1>4

(* Record and actors keep their types, whatever cleaners and uploads meet: *)
(* a lease is there as long as a cleanup is under way, and a cleanup is    *)
(* given up exactly when its retries are spent.                            *)
THEOREM UploadTypes == UploadSpec => []UploadTypeOK
  <1>1. UploadTypeOK /\ CleanerKnows /\ [UploadNext]_uvars => (UploadTypeOK /\ CleanerKnows)'
    BY UploadStep, UploadTypesKept
  <1> QED
    BY <1>1, UploadTypesInit, PTL DEF UploadSpec

-----------------------------------------------------------------------------
(* The file of a user has a fresh id, that is, one upload.  Until its      *)
(* intent is saved nothing happens to it; while its uploader is busy it is *)
(* neither committed nor deleted; cleaners are at work only on what is     *)
(* queued or gone; and what is about to be committed has its bytes.        *)
Untouched ==
    /\ ~file.there /\ ~file.pending /\ ~Requested
    /\ \A u \in Uploaders : ~Busy(u)
    /\ \A c \in Cleaners : cl[c].pc = "idle"

OneUploadInvariant ==
    /\ uploads = 0 => Untouched
    /\ \A u, v \in Uploaders : Busy(u) /\ Busy(v) => u = v
    /\ file.status = "committed" \/ Requested => \A u \in Uploaders : ~Busy(u)
    /\ file.there /\ ~file.pending => \A c \in Cleaners : ~Cleaning(c)
    /\ \A u \in Uploaders :
          up[u].pc \in {"stop", "commit"} /\ file.there
             /\ file.status = "pending_upload" /\ ~file.pending => blob
    /\ VisibleHasBytes

LEMMA WhoIsBusy ==
  ASSUME UploadTypeOK, NEW u \in Uploaders, NEW pc, UploaderGoes(u, pc)
  PROVE  /\ up'[u].pc = pc /\ (Busy(u)' <=> pc \notin {"idle", "intent"})
         /\ \A v \in Uploaders \ {u} : up'[v] = up[v] /\ (Busy(v)' <=> Busy(v))
  <1>1. PICK r \in Upload : r.pc = pc /\ up' = [up EXCEPT ![u] = r]
    BY DEF UploaderGoes
  <1>2. up'[u] = r /\ \A v \in Uploaders \ {u} : up'[v] = up[v]
    BY <1>1 DEF UploadTypeOK
  <1> QED
    BY <1>1, <1>2 DEF Busy

LEMMA WhoCleans ==
  ASSUME UploadTypeOK, NEW c \in Cleaners, NEW pc, NEW n, CleanerGoes(c, pc, n)
  PROVE  /\ cl'[c].pc = pc /\ (Cleaning(c)' <=> pc \notin {"idle", "claim"})
         /\ \A e \in Cleaners \ {c} : cl'[e] = cl[e] /\ (Cleaning(e)' <=> Cleaning(e))
  <1>1. cl'[c] = [pc |-> pc, retries |-> n] /\ \A e \in Cleaners \ {c} : cl'[e] = cl[e]
    BY DEF CleanerGoes, UploadTypeOK
  <1> QED
    BY <1>1 DEF Cleaning

(* The steps of the only upload.                                           *)
LEMMA OneUploadUploads ==
  ASSUME MaxUploads = 1, UploadTypeOK, OneUploadInvariant, NEW u \in Uploaders, Uploads(u)
  PROVE  OneUploadInvariant'
  <1>1. uploads \in Nat /\ uploads <= 1 /\ UNCHANGED <<cl, dl>>
    BY UploadConstants DEF UploadTypeOK, Uploads
  <1>2. (Requested' <=> Requested) /\ \A c \in Cleaners : Cleaning(c)' <=> Cleaning(c)
    BY <1>1 DEF Requested, Cleaning
  <1>3. ~NoRecord.there /\ ~NoRecord.pending /\ NoRecord.status = "none"
    BY RecordsOK
  <1>4. CASE Saves(u)
    <2>1. uploads = 0 /\ uploads' = 1 /\ Untouched
      BY <1>1, <1>4 DEF Saves, OneUploadInvariant
    <2>2. \A v \in Uploaders : Busy(v)' <=> v = u
      BY <1>4, <2>1, WhoIsBusy DEF Saves, Untouched
    <2>3. up'[u].pc = "write" /\ file'.status = "pending_upload"
      BY <1>4, WhoIsBusy DEF Saves
    <2>4. \A c \in Cleaners : ~Cleaning(c)'
      BY <1>2, <2>1 DEF Untouched, Cleaning
    <2>5. \A v \in Uploaders : up'[v].pc \notin {"stop", "commit"}
      BY <2>2, <2>3 DEF Busy
    <2> QED
      BY <1>2, <2>1, <2>2, <2>3, <2>4, <2>5
         DEF OneUploadInvariant, Untouched, VisibleHasBytes, Visible
  <1>5. CASE Begins(u) \/ Breathes(u)
             \/ (UploaderGoes(u, "idle") /\ UNCHANGED <<file, blob, uploads>>)
    <2>1. \A v \in Uploaders : Busy(v)' => Busy(v)
      BY <1>5, WhoIsBusy DEF Begins, Breathes, Busy
    <2>2. \A v \in Uploaders : up'[v].pc \in {"stop", "commit"} => up[v].pc \in {"stop", "commit"}
      BY <1>5, WhoIsBusy DEF Begins, Breathes
    <2>3. /\ UNCHANGED <<blob, uploads>> /\ file'.there = file.there
          /\ file'.status = file.status /\ file'.pending = file.pending
      BY <1>5 DEF Begins, Breathes, FileAges
    <2>4. Untouched => Untouched'
      BY <1>1, <1>2, <2>1, <2>3 DEF Untouched
    <2> QED
      BY <1>2, <2>1, <2>2, <2>3, <2>4 DEF OneUploadInvariant, VisibleHasBytes, Visible
  <1>6. ASSUME NEW pc, Moves(u, pc)
        PROVE  OneUploadInvariant'
    <2>1. uploads' # 0 /\ UNCHANGED file
      BY <1>6 DEF Moves, OneUploadInvariant, Untouched
    <2>2. Busy(u) /\ \A v \in Uploaders : Busy(v)' => v = u
      BY <1>6, WhoIsBusy DEF Moves, OneUploadInvariant
    <2>3. file.status # "committed" /\ ~Requested
      BY <2>2 DEF OneUploadInvariant
    <2>4. ASSUME up'[u].pc \in {"stop", "commit"}, file.there,
                 file.status = "pending_upload", ~file.pending
          PROVE  blob'
      BY <1>6, <2>4, WhoIsBusy DEF Moves, OneUploadInvariant
    <2>5. \A v \in Uploaders : up'[v].pc \in {"stop", "commit"} => v = u
      BY <2>2 DEF Busy
    <2> QED
      BY <1>2, <2>1, <2>2, <2>3, <2>4, <2>5
         DEF OneUploadInvariant, VisibleHasBytes, Visible
  <1>7. CASE Commits(u)
    <2>1. uploads' # 0 /\ Busy(u) /\ file.there /\ file.status = "pending_upload"
          /\ ~file.pending
      BY <1>7 DEF Commits, Mine, Busy, OneUploadInvariant, Untouched
    <2>2. blob' /\ \A c \in Cleaners : ~Cleaning(c)'
      BY <1>2, <1>7, <2>1 DEF Commits, OneUploadInvariant
    <2>3. \A v \in Uploaders : ~Busy(v)'
      BY <1>7, <2>1, WhoIsBusy DEF Commits, OneUploadInvariant
    <2> QED
      BY <1>7, <2>1, <2>2, <2>3 DEF Commits, OneUploadInvariant, VisibleHasBytes
  <1>8. CASE GivesUp(u)
    <2>1. uploads' # 0 /\ Busy(u)
      BY <1>8 DEF GivesUp, OneUploadInvariant, Untouched
    <2>2. \A v \in Uploaders : ~Busy(v)'
      BY <1>8, <2>1, WhoIsBusy DEF GivesUp, OneUploadInvariant
    <2>3. file'.status # "committed" /\ file'.status # "pending_upload"
          /\ (~file'.there \/ file'.pending)
      BY <1>3, <1>8 DEF GivesUp
    <2> QED
      BY <2>1, <2>2, <2>3 DEF OneUploadInvariant, VisibleHasBytes, Visible
  <1> QED
    BY <1>4, <1>5, <1>6, <1>7, <1>8 DEF Uploads

(* The steps of cleaners.                                                  *)
LEMMA OneUploadCleans ==
  ASSUME UploadTypeOK, OneUploadInvariant, NEW c \in Cleaners, Cleans(c)
  PROVE  OneUploadInvariant'
  <1>1. UNCHANGED <<up, dl, uploads>>
    BY DEF Cleans
  <1>2. (Requested' <=> Requested) /\ \A u \in Uploaders : Busy(u)' <=> Busy(u)
    BY <1>1 DEF Requested, Busy
  <1>3. ~NoRecord.there /\ ~NoRecord.pending /\ NoRecord.status = "none"
    BY RecordsOK
  <1>4. CASE Lists(c) \/ Takes(c)
    <2>1. uploads # 0 /\ file.there /\ blob' = blob /\ file'.there /\ file'.status = file.status
      BY <1>4 DEF Lists, Takes, OneUploadInvariant, Untouched
    <2>2. ~file'.pending => ~file.pending /\ ~Cleaning(c)' /\ Lists(c)
      BY <1>4, WhoCleans DEF Lists, Takes
    <2>3. ASSUME NEW e \in Cleaners, ~file'.pending
          PROVE  ~Cleaning(e)'
      <3>1. Lists(c)
        BY <2>2, <2>3
      <3>2. CASE e = c
        BY <2>2, <2>3, <3>2
      <3>3. CASE e # c
        BY <2>1, <2>2, <2>3, <3>1, <3>3, WhoCleans DEF Lists, OneUploadInvariant
      <3> QED
        BY <3>2, <3>3
    <2> QED
      BY <1>1, <1>2, <2>1, <2>2, <2>3 DEF OneUploadInvariant, VisibleHasBytes, Visible
  <1>5. CASE Sweeps(c)
    <2>1. Cleaning(c) /\ file'.there = file.there /\ file'.status = file.status
          /\ file'.pending = file.pending
      BY <1>5 DEF Sweeps, FileAges
    <2>2. uploads # 0 /\ (~file.there \/ file.pending)
      BY <2>1 DEF OneUploadInvariant, Untouched, Cleaning
    <2> QED
      BY <1>1, <1>2, <2>1, <2>2 DEF OneUploadInvariant, VisibleHasBytes, Visible
  <1>6. CASE EndsSweep(c)
    <2>1. blob' = blob /\ \A e \in Cleaners : Cleaning(e)' => Cleaning(e)
      BY <1>6, WhoCleans DEF EndsSweep
    <2>2. \A e \in Cleaners : cl[e].pc = "idle" => cl'[e].pc = "idle"
      BY <1>6, WhoCleans DEF EndsSweep
    <2>3. CASE /\ file'.there = file.there /\ file'.status = file.status
               /\ file'.pending = file.pending
      <3>1. Untouched => Untouched'
        BY <1>2, <2>2, <2>3 DEF Untouched
      <3> QED
        BY <1>1, <1>2, <2>1, <2>3, <3>1 DEF OneUploadInvariant, VisibleHasBytes, Visible
    <2>4. CASE Cleaning(c) /\ file' = NoRecord
      <3>1. uploads # 0
        BY <2>4 DEF OneUploadInvariant, Untouched, Cleaning
      <3> QED
        BY <1>1, <1>2, <1>3, <2>4, <3>1 DEF OneUploadInvariant, VisibleHasBytes, Visible
    <2> QED
      BY <1>6, <2>3, <2>4 DEF EndsSweep, FileAges
  <1> QED
    BY <1>4, <1>5, <1>6 DEF Cleans

(* The steps of deleters and of time.                                      *)
LEMMA OneUploadDeletes ==
  ASSUME UploadTypeOK, OneUploadInvariant, NEW d \in Deleters, Deletes(d)
  PROVE  OneUploadInvariant'
  <1>1. UNCHANGED <<up, cl, uploads>>
    BY DEF Deletes
  <1>2. /\ \A u \in Uploaders : Busy(u)' <=> Busy(u)
        /\ \A c \in Cleaners : Cleaning(c)' <=> Cleaning(c)
    BY <1>1 DEF Busy, Cleaning
  <1>3. ~NoRecord.there /\ ~NoRecord.pending /\ NoRecord.status = "none"
    BY RecordsOK
  <1>4. Requested'
    <2>1. dl'[d] # "idle"
      BY DEF Deletes, Asks, Removes, UploadTypeOK
    <2> QED
      BY <2>1 DEF Requested
  <1>5. \A u \in Uploaders : ~Busy(u)
    BY DEF Deletes, Asks, Removes, Requested, Visible, OneUploadInvariant
  <1>6. uploads # 0
    BY DEF Deletes, Asks, Removes, Requested, Visible, OneUploadInvariant, Untouched
  <1>7. file' = file \/ ~file'.there \/ file'.pending
    BY <1>3 DEF Deletes, Asks, Removes
  <1>8. \A u \in Uploaders : up'[u].pc \notin {"stop", "commit"}
    BY <1>1, <1>5 DEF Busy
  <1> QED
    BY <1>1, <1>2, <1>4, <1>5, <1>6, <1>7, <1>8 DEF OneUploadInvariant, VisibleHasBytes

LEMMA OneUploadStep ==
  ASSUME MaxUploads = 1, UploadTypeOK, OneUploadInvariant, UploadEffects
  PROVE  OneUploadInvariant'
  <1>1. CASE TimeGoesBy
    <2>1. /\ UNCHANGED <<blob, up, cl, dl, uploads>> /\ file'.there = file.there
          /\ file'.status = file.status /\ file'.pending = file.pending
      BY <1>1 DEF TimeGoesBy, FileAges
    <2> QED
      BY <2>1 DEF OneUploadInvariant, Untouched, Requested, Busy, Cleaning,
                  VisibleHasBytes, Visible
  <1> QED
    BY <1>1, OneUploadUploads, OneUploadCleans, OneUploadDeletes DEF UploadEffects

LEMMA OneUploadInit == UploadInit => OneUploadInvariant
  <1> SUFFICES ASSUME UploadInit PROVE OneUploadInvariant
    OBVIOUS
  <1>1. /\ \A u \in Uploaders : up[u].pc = "idle"
        /\ \A c \in Cleaners : cl[c].pc = "idle"
        /\ ~Requested
    BY DEF UploadInit, Idle, Rest, Requested
  <1>2. ~file.there /\ ~file.pending /\ file.status = "none"
    BY RecordsOK DEF UploadInit
  <1> QED
    BY <1>1, <1>2 DEF OneUploadInvariant, Untouched, Busy, Cleaning, VisibleHasBytes, Visible

LEMMA OneUploadKept ==
  ASSUME MaxUploads = 1
  PROVE  UploadSpec => [](UploadTypeOK /\ CleanerKnows /\ OneUploadInvariant)
  <1>1. UploadTypeOK /\ CleanerKnows /\ OneUploadInvariant /\ [UploadNext]_uvars
           => (UploadTypeOK /\ CleanerKnows /\ OneUploadInvariant)'
    BY UploadStep, UploadTypesKept, OneUploadStep
  <1> QED
    BY <1>1, UploadTypesInit, OneUploadInit, PTL DEF UploadSpec

(* A user's file that is served has its bytes until its deletion is asked  *)
(* for: neither a late cleaner nor a failed call's compensation erases     *)
(* them.  With two uploads to one id this is false (run upload_bundle).    *)
THEOREM VisibleFilesHaveBytes ==
  ASSUME MaxUploads = 1
  PROVE  UploadSpec => []VisibleHasBytes
  <1>1. OneUploadInvariant => VisibleHasBytes
    BY DEF OneUploadInvariant
  <1> QED
    BY <1>1, OneUploadKept, PTL

(* What is queued for cleanup never comes back, and no cleaner hides what  *)
(* is visible.                                                             *)
LEMMA CleanupIsOneWayStep ==
  ASSUME MaxUploads = 1, UploadTypeOK, OneUploadInvariant, UploadEffects
  PROVE  /\ file.pending => ~file'.there \/ file'.pending
         /\ Visible /\ ~Requested => Visible'
  <1>1. ~NoRecord.there
    BY RecordsOK
  <1>2. ASSUME NEW u \in Uploaders, Uploads(u)
        PROVE  /\ file.pending => ~file'.there \/ file'.pending
               /\ Visible /\ ~Requested => Visible'
    <2>1. CASE Saves(u)
      <3>1. uploads = 0
        BY <2>1 DEF Saves, UploadTypeOK
      <3> QED
        BY <3>1 DEF OneUploadInvariant, Untouched, Visible
    <2>2. CASE Commits(u)
      BY <2>2 DEF Commits, Mine, Visible
    <2>3. CASE GivesUp(u)
      BY <1>1, <2>3 DEF GivesUp, Visible, OneUploadInvariant
    <2>4. CASE UNCHANGED file \/ FileAges
      BY <2>4 DEF FileAges, Visible
    <2> QED
      BY <1>2, <2>1, <2>2, <2>3, <2>4 DEF Uploads, Begins, Breathes, Moves
  <1>3. ASSUME NEW c \in Cleaners, Cleans(c)
        PROVE  /\ file.pending => ~file'.there \/ file'.pending
               /\ Visible /\ ~Requested => Visible'
    <2>1. CASE Lists(c) \/ Takes(c)
      BY <2>1 DEF Lists, Takes, Visible
    <2>2. CASE FileAges
      BY <2>2 DEF FileAges, Visible
    <2>3. CASE Cleaning(c) /\ file' = NoRecord
      BY <1>1, <2>3 DEF OneUploadInvariant, Visible
    <2>4. CASE /\ file'.there = file.there /\ file'.status = file.status
               /\ file'.pending = file.pending
      BY <2>4 DEF Visible
    <2> QED
      BY <1>3, <2>1, <2>2, <2>3, <2>4 DEF Cleans, Sweeps, EndsSweep
  <1>4. ASSUME NEW d \in Deleters, Deletes(d)
        PROVE  /\ file.pending => ~file'.there \/ file'.pending
               /\ Visible /\ ~Requested => Visible'
    BY <1>1, <1>4 DEF Deletes, Asks, Removes, Requested, Visible
  <1>5. CASE TimeGoesBy
    BY <1>5 DEF TimeGoesBy, FileAges, Visible
  <1> QED
    BY <1>2, <1>3, <1>4, <1>5 DEF UploadEffects

THEOREM CleanupNeverTurnsBack ==
  ASSUME MaxUploads = 1
  PROVE  UploadSpec => CleanupIsOneWay
  <1>1. UploadTypeOK /\ CleanerKnows /\ OneUploadInvariant /\ [UploadNext]_uvars
           => [/\ file.pending => ~file'.there \/ file'.pending
               /\ Visible /\ ~Requested => Visible']_uvars
    BY UploadStep, CleanupIsOneWayStep
  <1> QED
    BY <1>1, OneUploadKept, PTL DEF UploadSpec, CleanupIsOneWay
=============================================================================
