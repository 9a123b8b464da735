----------------------------- MODULE DiffRepair -----------------------------
(***************************************************************************)
(* The repair of diff shapes by the ingest cron (precompute-ingest.ts,     *)
(* diff-repair-schedule.ts): every six hours a fire asks which epochs of   *)
(* the window lack a shape, stores the current epoch's, and with the time  *)
(* left downloads a few of the older ones.                                 *)
(*                                                                         *)
(* pc: idle, discover, read, download, submit, shape, history, end.        *)
(* Times are in seconds; a call takes no time or its whole allowance.      *)
(* The sweep and the baseline of the current epoch appear as the time      *)
(* their submission takes.                                                 *)
(***************************************************************************)
EXTENDS Integers, Sequences, FiniteSets, FiniteSetsExt, SequencesExt

CONSTANTS
    Epoch,              \* a range; the first is MIN_DZ_EPOCH
    Depth,              \* DIFF_REPAIR_DEPTH
    MaxAttempts,        \* MAX_SHAPE_ATTEMPTS_PER_FIRE
    Cycle,              \* slots are counted modulo this
    CronWork,           \* CRON_WORK_TIMEOUT_MS and the other allowances
    Discovery, Status, SnapshotFetch, ServiceCall, ShapePut,
    RepairWork, RepairAttempt,
    None,
    MaxMishap           \* failed or slow calls, wrong discoveries, skipped fires

ASSUME EpochAssumption ==
    /\ Epoch # {} /\ IsFiniteSet(Epoch) /\ Epoch \subseteq Nat
    /\ Epoch = Min(Epoch)..Max(Epoch)
    /\ None \notin Epoch

\* Counting modulo Cycle leaves every rotation as it is.
ASSUME CycleAssumption ==
    /\ Cycle \in Nat \ {0}
    /\ \A n \in 1..Depth - 1 : Cycle % n = 0

ASSUME BudgetAssumption ==
    /\ {Depth, MaxAttempts} \subseteq Nat \ {0} /\ MaxMishap \in Nat
    /\ {CronWork, Discovery, Status, SnapshotFetch, ServiceCall, ShapePut,
        RepairWork, RepairAttempt} \subseteq Nat

VARIABLES
    published,          \* newest epoch with a snapshot
    broken,             \* epochs whose snapshot cannot be had or read
    stored,             \* epochs with a readable shape
    slot,
    pc, clock,          \* the fire, and its time since it started
    epoch, missing,     \* what it takes for the current epoch and for the gaps
    targets,            \* scheduled repairs, in order
    deferred, results,
    until,              \* repairDeadline
    mishaps

fireVars == <<epoch, missing, targets, deferred, results, until>>
vars == <<published, broken, stored, slot, pc, clock, fireVars, mishaps>>

Window(e) == Max({Min(Epoch), e - Depth + 1})..e

TypeOK ==
    /\ published \in Epoch
    /\ broken \subseteq Epoch /\ stored \subseteq Epoch
    /\ slot \in 0..Cycle - 1
    /\ pc \in {"idle", "discover", "read", "download", "submit", "shape", "history", "end"}
    /\ clock \in 0..CronWork /\ until \in 0..CronWork
    /\ epoch \in Epoch \union {None}
    /\ missing \subseteq Epoch /\ deferred \subseteq missing
    /\ targets \in Seq(missing)
    /\ results \in [Epoch -> {"none", "created", "exists", "failed"}]
    /\ mishaps \in 0..MaxMishap

Untouched == [e \in Epoch |-> "none"]

Init ==
    /\ published \in Epoch
    /\ broken \in SUBSET Epoch
    /\ stored \in SUBSET (Min(Epoch)..published)
    /\ slot \in 0..Cycle - 1
    /\ pc = "idle" /\ clock = 0 /\ epoch = None /\ missing = {}
    /\ targets = <<>> /\ deferred = {} /\ results = Untouched /\ until = 0
    /\ mishaps = 0

Mishap ==
    /\ mishaps < MaxMishap
    /\ mishaps' = mishaps + 1

NoMishap == UNCHANGED mishaps

\* A call is capped by what remains of the fire's budget.
Capped(allowance) == Min({allowance, CronWork - clock})

\* Quick, or as slow as it may be.
Spend(allowance) == clock' \in {clock, clock + Capped(allowance)}

\* Slow calls outside the repairs are mishaps.
Call(allowance) ==
    \/ UNCHANGED clock /\ NoMishap
    \/ Spend(allowance) /\ Mishap

-----------------------------------------------------------------------------
(* scheduleDiffRepairs.                                                    *)

Ascending(S) ==
    CHOOSE s \in [1..Cardinality(S) -> S] : \A i, j \in DOMAIN s : i < j => s[i] < s[j]

\* Variant: always the oldest.
Unrotated(s, offset) == s

Rotated(s, offset) == SubSeq(s, offset + 1, Len(s)) \o SubSeq(s, 1, offset)

\* The current epoch, the newest gap, then the others from the slot's offset.
Scheduled(gaps, current, attempts, now) ==
    LET first == IF current \in gaps THEN <<current>> ELSE <<>>
        older == gaps \ {current}
        newest == IF older # {} /\ attempts > Len(first) THEN <<Max(older)>> ELSE <<>>
        rest == Ascending(older \ ToSet(newest))
        turn == IF rest = <<>> THEN <<>> ELSE Rotated(rest, now % Len(rest))
        order == first \o newest \o turn
    IN  SubSeq(order, 1, Min({attempts, Len(order)}))

-----------------------------------------------------------------------------
(* A fire.                                                                 *)

NextSlot == slot' = (slot + 1) % Cycle

Fire ==
    /\ pc = "idle"
    /\ pc' = "discover" /\ NextSlot
    /\ UNCHANGED <<published, broken, stored, clock, fireVars, mishaps>>

\* No fire in this slot, or one that ends before it asks for the gaps.
SkipFire ==
    /\ pc = "idle"
    /\ Mishap /\ NextSlot
    /\ UNCHANGED <<published, broken, stored, pc, clock, fireVars>>

\* A failed HEAD request, or a cached answer, names an older epoch; so may
\* the epoch parameter of a request by hand.
Discover ==
    /\ pc = "discover"
    /\ \/ epoch' = published /\ Call(Discovery)
       \/ /\ epoch' \in Epoch /\ epoch' < published
          /\ Mishap /\ Spend(Discovery)
    /\ pc' = "read"
    /\ UNCHANGED <<published, broken, stored, slot, missing, targets, deferred, results, until>>

\* The current epoch, selected first if it is a gap, is not among the targets.
Schedule(gaps) ==
    LET selected == Scheduled(gaps, epoch, MaxAttempts, slot)
    IN  /\ missing' = gaps
        /\ targets' = IF epoch \in gaps THEN Tail(selected) ELSE selected
        /\ deferred' = gaps \ ToSet(selected)
        /\ pc' = "download"

\* Unknown gaps: at least the current epoch.
Read ==
    /\ pc = "read"
    /\ \/ Schedule(Window(epoch) \ stored) /\ Call(Status)
       \/ Schedule({epoch}) /\ Mishap /\ Spend(Status)
    /\ UNCHANGED <<published, broken, stored, slot, epoch, results, until>>

StartHistory ==
    /\ until' = Min({CronWork, clock' + RepairWork})
    /\ pc' = "history"

\* runCurrentEpoch: one snapshot for the sweep, the baseline and the shape, if
\* any of them is needed.  A broken one takes any time to fail.
NeedsShape == epoch \in missing

Download ==
    /\ pc = "download"
    /\ \/ /\ ~NeedsShape
          /\ UNCHANGED <<clock, results>> /\ NoMishap /\ StartHistory
       \/ /\ epoch \notin broken
          /\ pc' = "submit" /\ UNCHANGED <<results, until>>
          /\ Call(SnapshotFetch)
       \/ /\ IF epoch \in broken THEN NoMishap ELSE Mishap
          /\ Spend(SnapshotFetch)
          /\ results' = IF NeedsShape THEN [results EXCEPT ![epoch] = "failed"] ELSE results
          /\ StartHistory
    /\ UNCHANGED <<published, broken, stored, slot, epoch, missing, targets, deferred>>

\* The sweep and the baseline, whatever comes of them.
Submit ==
    /\ pc = "submit"
    /\ Call(2 * ServiceCall)
    /\ IF NeedsShape THEN pc' = "shape" /\ UNCHANGED until ELSE StartHistory
    /\ UNCHANGED <<published, broken, stored, slot, epoch, missing, targets, deferred, results>>

\* PUT /diff/shape/:epoch: 201, or 409 for a record that is there.
PutShape(e) ==
    /\ results' = [results EXCEPT ![e] = IF e \in stored THEN "exists" ELSE "created"]
    /\ stored' = stored \union {e}

\* A failed PUT may have been applied.
PutFails(e) ==
    /\ results' = [results EXCEPT ![e] = "failed"]
    /\ stored' \in {stored, stored \union {e}}

Shape ==
    /\ pc = "shape"
    /\ \/ PutShape(epoch) /\ Call(ShapePut)
       \/ PutFails(epoch) /\ Mishap /\ Spend(ShapePut)
    /\ StartHistory
    /\ UNCHANGED <<published, broken, slot, epoch, missing, targets, deferred>>

\* Variant: an attempt starts in whatever time is left.
AllowanceLeftAny == clock < until

AllowanceLeft == until - clock >= RepairAttempt

\* Variant: what no longer fits is dropped.
DeferUnseen ==
    /\ pc = "history" /\ targets # <<>> /\ ~AllowanceLeft
    /\ targets' = Tail(targets)
    /\ UNCHANGED <<published, broken, stored, slot, pc, clock, epoch, missing, deferred, results, until, mishaps>>

Defer ==
    /\ pc = "history" /\ targets # <<>> /\ ~AllowanceLeft
    /\ deferred' = deferred \union {Head(targets)}
    /\ targets' = Tail(targets)
    /\ UNCHANGED <<published, broken, stored, slot, pc, clock, epoch, missing, results, until, mishaps>>

\* One download, extraction and write.
Repair ==
    /\ pc = "history" /\ targets # <<>> /\ AllowanceLeft
    /\ Spend(RepairAttempt)
    /\ LET e == Head(targets)
       IN  \/ /\ e \notin broken
              /\ PutShape(e) /\ NoMishap
           \/ /\ e \in broken
              /\ results' = [results EXCEPT ![e] = "failed"]
              /\ UNCHANGED stored /\ NoMishap
           \/ /\ e \notin broken
              /\ PutFails(e) /\ Mishap
    /\ targets' = Tail(targets)
    /\ UNCHANGED <<published, broken, slot, pc, epoch, missing, deferred, until>>

Report ==
    /\ pc = "history" /\ targets = <<>>
    /\ pc' = "end"
    /\ UNCHANGED <<published, broken, stored, slot, clock, fireVars, mishaps>>

Respond ==
    /\ pc = "end"
    /\ pc' = "idle" /\ clock' = 0
    /\ epoch' = None /\ missing' = {} /\ targets' = <<>>
    /\ deferred' = {} /\ results' = Untouched /\ until' = 0
    /\ UNCHANGED <<published, broken, stored, slot, mishaps>>

-----------------------------------------------------------------------------
(* The snapshot bucket.                                                    *)

Publish ==
    /\ published + 1 \in Epoch
    /\ published' = published + 1
    /\ UNCHANGED <<broken, stored, slot, pc, clock, fireVars, mishaps>>

Mend ==
    /\ \E e \in broken : broken' = broken \ {e}
    /\ UNCHANGED <<published, stored, slot, pc, clock, fireVars, mishaps>>

FireStep ==
    \/ Fire \/ Discover \/ Read \/ Download \/ Submit \/ Shape
    \/ Defer \/ Repair \/ Report \/ Respond

Next == FireStep \/ SkipFire \/ Publish \/ Mend

Spec == Init /\ [][Next]_vars

\* Vercel keeps firing, and every call of a fire is bounded by its timeout.
FairSpec == Spec /\ WF_vars(FireStep)

-----------------------------------------------------------------------------
(* Properties.                                                             *)

\* A fire accounts for every gap it was told of: tried, or deferred.
Accounted ==
    pc = "end" => missing = deferred \union {e \in Epoch : results[e] # "none"}

\* Repairs end within their own budget, whatever the current epoch's work and
\* the downloads before them took, so the response is written in time.
RepairsInTime == pc \in {"history", "end"} => clock <= until

\* No gap that can be repaired waits for ever while it is in the window:
\* neither gaps that never can, nor new epochs, nor slow downloads starve it.
NotStarved ==
    \A e \in Epoch :
        []<>(e \in stored \/ e \in broken \/ e \notin Window(published))
=============================================================================
