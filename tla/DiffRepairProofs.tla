--------------------------- MODULE DiffRepairProofs ---------------------------
(***************************************************************************)
(* Theorems about DiffRepair, for any allowances, any window and any       *)
(* schedule: types, Accounted, and that the repairs end within their       *)
(* budget.                                                                 *)
(*                                                                         *)
(* Accounted.  The schedule selects among the gaps and puts the current    *)
(* epoch first (ScheduledType); from then on each gap is deferred, still   *)
(* a target, or tried, and the current epoch may wait for its shape        *)
(* (Told).                                                                 *)
(*                                                                         *)
(* In time.  A call is capped by what remains of the fire, so that the     *)
(* clock never passes CronWork (Timed); the deadline of the repairs is set *)
(* after the clock has moved, and an attempt starts only while its whole   *)
(* allowance fits before it.                                               *)
(***************************************************************************)
EXTENDS DiffRepair, FiniteSetTheorems, WellFoundedInduction, TLAPS

-----------------------------------------------------------------------------
(* Sets of epochs: their least, their greatest, their order.               *)

LEMMA Least ==
  ASSUME NEW S, S \subseteq Nat, S # {}
  PROVE  Min(S) \in S /\ \A e \in S : Min(S) <= e
  <1> DEFINE R == {ss \in Nat \X Nat : ss[1] < ss[2]}
  <1>1. OpToRel(<, Nat) = R
    BY Zenon DEF OpToRel
  <1>2. IsWellFoundedOn(R, Nat)
    <2>1. IsWellFoundedOn(OpToRel(<, Nat), Nat)
      BY NatLessThanWellFounded
    <2> HIDE DEF R
    <2> QED
      BY <1>1, <2>1, Zenon
  <1>3. PICK x \in S : \A y \in S : ~(<<y, x>> \in R)
    BY <1>2, WFMin
  <1>4. \A y \in Nat : y < x => <<y, x>> \in R
    OBVIOUS
  <1>5. \A y \in S : x <= y
    <2> HIDE DEF R
    <2>1. ASSUME NEW y \in S  PROVE ~(y < x) /\ y \in Nat /\ x \in Nat
      BY <1>3, <1>4, Zenon
    <2> QED
      BY <2>1
  <1> QED
    BY <1>5 DEF Min

UpTo(S, e) == {d \in S : d <= e}
Rank(S, e) == Cardinality(UpTo(S, e))

\* Every rank is somebody's.
LEMMA Ranked ==
  ASSUME NEW S, S \subseteq Nat, IsFiniteSet(S)
  PROVE  /\ Cardinality(S) \in Nat
         /\ \A d, e \in S : d < e => Rank(S, d) < Rank(S, e)
         /\ \A i \in 1..Cardinality(S) : \E e \in S : Rank(S, e) = i
  <1> DEFINE n == Cardinality(S)
             rank == [e \in S |-> Rank(S, e)]
  <1>1. n \in Nat
    BY FS_CardinalityType
  <1>2. ASSUME NEW e \in S
        PROVE  IsFiniteSet(UpTo(S, e)) /\ Rank(S, e) \in 1..n
    <2>1. UpTo(S, e) \in SUBSET S /\ e \in UpTo(S, e)
      BY DEF UpTo
    <2>2. /\ IsFiniteSet(UpTo(S, e)) /\ Cardinality(UpTo(S, e)) <= n
      BY <2>1, FS_Subset
    <2>3. Cardinality(UpTo(S, e)) \in Nat /\ Cardinality(UpTo(S, e)) # 0
      BY <2>1, <2>2, FS_CardinalityType, FS_EmptySet
    <2> QED
      BY <1>1, <2>2, <2>3 DEF Rank
  <1>3. ASSUME NEW d \in S, NEW e \in S, d < e
        PROVE  Rank(S, d) < Rank(S, e)
    <2> USE <1>3
    <2>1. UpTo(S, d) \in SUBSET UpTo(S, e) /\ UpTo(S, d) # UpTo(S, e)
      <3>1. /\ d \in Nat /\ e \in Nat
            /\ \A x \in S : x \in Nat /\ (x <= d => x <= e)
        OBVIOUS
      <3>2. e \in UpTo(S, e) /\ e \notin UpTo(S, d)
        BY <3>1 DEF UpTo
      <3>3. UpTo(S, d) \subseteq UpTo(S, e)
        BY <3>1 DEF UpTo
      <3> QED
        BY <3>2, <3>3
    <2>2. IsFiniteSet(UpTo(S, e))
      BY <1>2
    <2>3. /\ Cardinality(UpTo(S, d)) <= Cardinality(UpTo(S, e))
          /\ Cardinality(UpTo(S, e)) # Cardinality(UpTo(S, d))
      BY <2>1, <2>2, FS_Subset
    <2> QED
      BY <1>1, <1>2, <2>3 DEF Rank
  <1>4. rank \in Injection(S, 1..n)
    <2>1. ASSUME NEW d \in S, NEW e \in S, Rank(S, d) = Rank(S, e)  PROVE d = e
      <3>1. Rank(S, d) \in Nat /\ ~(Rank(S, d) < Rank(S, e)) /\ ~(Rank(S, e) < Rank(S, d))
        BY <1>2, <2>1
      <3> QED
        BY <1>3, <3>1
    <2> QED
      BY <1>2, <2>1 DEF Injection, IsInjective
  <1>5. IsFiniteSet(1..n) /\ Cardinality(1..n) = n
    BY <1>1, FS_Interval
  <1>6. rank \in Surjection(S, 1..n)
    BY <1>4, <1>5, FS_Injection
  <1>7. \A i \in 1..n : \E e \in S : rank[e] = i
    BY <1>6 DEF Surjection
  <1> QED
    BY <1>1, <1>3, <1>7

LEMMA Greatest ==
  ASSUME NEW S, S \subseteq Nat, IsFiniteSet(S), S # {}
  PROVE  Max(S) \in S /\ \A e \in S : e <= Max(S)
  <1>1. Cardinality(S) \in Nat /\ Cardinality(S) # 0
    BY FS_CardinalityType, FS_EmptySet
  <1>2. PICK m \in S : Rank(S, m) = Cardinality(S)
    <2>1. Cardinality(S) \in 1..Cardinality(S)
      BY <1>1
    <2> QED
      BY <2>1, Ranked
  <1>3. UpTo(S, m) \in SUBSET S
    BY DEF UpTo
  <1>4. UpTo(S, m) = S
    BY <1>2, <1>3, FS_Subset DEF Rank
  <1>5. \A e \in S : m >= e
    BY <1>4 DEF UpTo
  <1> QED
    BY <1>5 DEF Max

\* The epochs of a set, one of each rank, are its ascending sequence.
LEMMA AscendingType ==
  ASSUME NEW S, S \subseteq Nat, IsFiniteSet(S)
  PROVE  Ascending(S) \in Seq(S)
  <1> DEFINE n == Cardinality(S)
             s == [i \in 1..n |-> CHOOSE e \in S : Rank(S, e) = i]
  <1>1. n \in Nat
    BY FS_CardinalityType
  <1>2. \A i \in 1..n : s[i] \in S /\ Rank(S, s[i]) = i
    BY Ranked
  <1>3. s \in [1..n -> S]
    BY <1>2
  <1>4. ASSUME NEW i \in 1..n, NEW j \in 1..n, i < j  PROVE s[i] < s[j]
    <2> HIDE DEF s
    <2>1. /\ s[i] \in S /\ s[j] \in S /\ s[i] \in Nat /\ s[j] \in Nat
          /\ Rank(S, s[i]) = i /\ Rank(S, s[j]) = j
      BY <1>2
    <2>2. s[j] < s[i] => Rank(S, s[j]) < Rank(S, s[i])
      BY <2>1, Ranked
    <2>3. ~(j < i) /\ j # i
      BY <1>1, <1>4
    <2>4. ~(s[j] < s[i]) /\ s[j] # s[i]
      BY <2>1, <2>2, <2>3
    <2> QED
      BY <2>1, <2>4
  <1>5. Ascending(S) \in [1..n -> S]
    <2>1. DOMAIN s = 1..n
      OBVIOUS
    <2> HIDE DEF s, n
    <2> QED
      BY <1>3, <1>4, <2>1 DEF Ascending, n
  <1> QED
    BY <1>1, <1>5

-----------------------------------------------------------------------------
(* The schedule selects among the gaps, and the current epoch first.       *)

\* The smaller of two numbers.
LEMMA MinOfTwo ==
  ASSUME NEW a \in Int, NEW b \in Int
  PROVE  Min({a, b}) \in {a, b} /\ Min({a, b}) <= a /\ Min({a, b}) <= b
  <1>1. \E x \in {a, b} : \A y \in {a, b} : x <= y
    OBVIOUS
  <1> QED
    BY <1>1 DEF Min

LEMMA WiderSeq ==
  ASSUME NEW S, NEW T, S \subseteq T, NEW s \in Seq(S)
  PROVE  s \in Seq(T)
  <1>1. s \in [1..Len(s) -> S] /\ Len(s) \in Nat
    OBVIOUS
  <1>2. s \in [1..Len(s) -> T]
    BY <1>1
  <1> QED
    BY <1>1, <1>2

\* A sequence is cut to no less than one of its members.
LEMMA Cut ==
  ASSUME NEW S, NEW s \in Seq(S), NEW k \in Nat \ {0}
  PROVE  LET t == SubSeq(s, 1, Min({k, Len(s)}))
         IN  t \in Seq(S) /\ (Len(s) > 0 => t # <<>> /\ Head(t) = s[1])
  <1> DEFINE m == Min({k, Len(s)})
  <1>1. Len(s) \in Nat /\ k \in Int /\ Len(s) \in Int
    OBVIOUS
  <1>2. m \in {k, Len(s)} /\ m <= Len(s)
    BY <1>1, MinOfTwo
  <1>3. m \in 0..Len(s) /\ (Len(s) > 0 => m > 0)
    BY <1>1, <1>2
  <1> HIDE DEF m
  <1>4. SubSeq(s, 1, m) \in Seq(S) /\ Len(SubSeq(s, 1, m)) = m
    BY <1>1, <1>3
  <1>5. Len(s) > 0 => SubSeq(s, 1, m)[1] = s[1]
    BY <1>1, <1>3
  <1>6. Len(s) > 0 => SubSeq(s, 1, m) # <<>> /\ Head(SubSeq(s, 1, m)) = s[1]
    <2> DEFINE t == SubSeq(s, 1, m)
    <2>1. t \in Seq(S) /\ Len(t) = m
      BY <1>4
    <2> HIDE DEF t
    <2>2. Len(s) > 0 => t # <<>> /\ Head(t) = t[1]
      BY <1>1, <1>3, <2>1
    <2> QED
      BY <1>5, <2>2 DEF t
  <1> QED
    BY <1>4, <1>6 DEF m

LEMMA RotatedType ==
  ASSUME NEW S, NEW s \in Seq(S), NEW k \in 0..Len(s)
  PROVE  Rotated(s, k) \in Seq(S)
  BY DEF Rotated

LEMMA ScheduledType ==
  ASSUME NEW gaps, gaps \subseteq Nat, IsFiniteSet(gaps),
         NEW current, NEW attempts \in Nat \ {0}, NEW now \in Nat
  PROVE  /\ Scheduled(gaps, current, attempts, now) \in Seq(gaps)
         /\ current \in gaps =>
               /\ Scheduled(gaps, current, attempts, now) # <<>>
               /\ Head(Scheduled(gaps, current, attempts, now)) = current
  <1> DEFINE first == IF current \in gaps THEN <<current>> ELSE <<>>
             older == gaps \ {current}
             newest == IF older # {} /\ attempts > Len(first) THEN <<Max(older)>> ELSE <<>>
             rest == Ascending(older \ ToSet(newest))
             turn == IF rest = <<>> THEN <<>> ELSE Rotated(rest, now % Len(rest))
             order == first \o newest \o turn
  <1>1. Scheduled(gaps, current, attempts, now) = SubSeq(order, 1, Min({attempts, Len(order)}))
    BY DEF Scheduled
  <1>2. older \subseteq Nat /\ IsFiniteSet(older)
    BY FS_Subset
  <1>3. first \in Seq(gaps)
    OBVIOUS
  <1>4. newest \in Seq(gaps)
    <2>1. older # {} => Max(older) \in gaps
      BY <1>2, Greatest
    <2> QED
      BY <2>1
  <1>5. rest \in Seq(gaps)
    <2> DEFINE S == older \ ToSet(newest)
    <2>1. S \subseteq Nat /\ IsFiniteSet(S) /\ S \subseteq gaps
      BY <1>2, FS_Subset
    <2> HIDE DEF S
    <2>2. Ascending(S) \in Seq(S)
      BY <2>1, AscendingType
    <2> QED
      BY <2>1, <2>2, WiderSeq DEF S
  <1>6. turn \in Seq(gaps)
    <2> HIDE DEF rest
    <2>1. CASE rest # <<>>
      <3>1. Len(rest) \in Nat \ {0}
        BY <1>5, <2>1
      <3>2. now % Len(rest) \in 0..Len(rest)
        BY <3>1
      <3> QED
        BY <1>5, <2>1, <3>2, RotatedType
    <2> QED
      BY <2>1
  <1> HIDE DEF first, newest, turn
  <1>7. order \in Seq(gaps)
    BY <1>3, <1>4, <1>6
  <1>8. ASSUME current \in gaps  PROVE Len(order) > 0 /\ order[1] = current
    <2>1. first = <<current>>
      BY <1>8 DEF first
    <2>2. Len(order) > 0 /\ order[1] = current
      BY <1>3, <1>4, <1>6, <2>1
    <2> QED
      BY <2>2
  <1> HIDE DEF order
  <1> QED
    BY <1>1, <1>7, <1>8, Cut

-----------------------------------------------------------------------------
(* The clock.                                                              *)

Timed == clock \in 0..CronWork /\ until \in 0..CronWork

IInv == Timed /\ RepairsInTime

LEMMA Allowances ==
  /\ CronWork \in Nat /\ Discovery \in Nat /\ Status \in Nat /\ SnapshotFetch \in Nat
  /\ ServiceCall \in Nat /\ ShapePut \in Nat /\ RepairWork \in Nat /\ RepairAttempt \in Nat
  BY BudgetAssumption

\* A call takes no more than its allowance, nor than what remains.
LEMMA SpendBounds ==
  ASSUME Timed, NEW allowance \in Nat, Spend(allowance)
  PROVE  clock' \in 0..CronWork /\ clock' <= clock + allowance
  <1>1. /\ CronWork - clock \in Int
        /\ Capped(allowance) \in {allowance, CronWork - clock}
        /\ Capped(allowance) <= allowance /\ Capped(allowance) <= CronWork - clock
    BY Allowances, MinOfTwo DEF Timed, Capped
  <1> QED
    BY <1>1, Allowances DEF Timed, Spend

LEMMA CallBounds ==
  ASSUME Timed, NEW allowance \in Nat, Call(allowance)
  PROVE  clock' \in 0..CronWork
  BY SpendBounds DEF Call, Timed

\* The deadline is ahead of the clock when the repairs begin.
LEMMA Deadline ==
  ASSUME NEW now \in 0..CronWork
  PROVE  Min({CronWork, now + RepairWork}) \in now..CronWork
  <1>1. CronWork \in Int /\ now + RepairWork \in Int /\ now <= CronWork /\ now <= now + RepairWork
    BY Allowances
  <1>2. /\ Min({CronWork, now + RepairWork}) \in {CronWork, now + RepairWork}
        /\ Min({CronWork, now + RepairWork}) <= CronWork
    BY <1>1, MinOfTwo
  <1> QED
    BY <1>1, <1>2

LEMMA HistoryStarts ==
  ASSUME clock' \in 0..CronWork, StartHistory
  PROVE  IInv'
  <1>1. until' \in clock'..CronWork
    BY Deadline DEF StartHistory
  <1> QED
    BY <1>1, Allowances DEF IInv, Timed, RepairsInTime

LEMMA InitIInv == Init => IInv
  BY Allowances DEF Init, IInv, Timed, RepairsInTime

LEMMA NextIInv == IInv /\ [Next]_vars => IInv'
  <1> SUFFICES ASSUME IInv, [Next]_vars PROVE IInv'
    OBVIOUS
  <1>1. CASE Discover
    BY <1>1, SpendBounds, CallBounds, Allowances DEF Discover, IInv, Timed, RepairsInTime
  <1>2. CASE Read
    BY <1>2, SpendBounds, CallBounds, Allowances DEF Read, Schedule, IInv, Timed, RepairsInTime
  <1>3. CASE Download
    <2>1. clock' \in 0..CronWork
      BY <1>3, SpendBounds, CallBounds, Allowances DEF Download, IInv, Timed
    <2>2. StartHistory \/ (pc' = "submit" /\ UNCHANGED until)
      BY <1>3 DEF Download
    <2> QED  BY <2>1, <2>2, HistoryStarts DEF IInv, Timed, RepairsInTime
  <1>4. CASE Submit
    <2>1. clock' \in 0..CronWork
      BY <1>4, CallBounds, Allowances DEF Submit, IInv
    <2>2. StartHistory \/ (pc' = "shape" /\ UNCHANGED until)
      BY <1>4 DEF Submit
    <2> QED  BY <2>1, <2>2, HistoryStarts DEF IInv, Timed, RepairsInTime
  <1>5. CASE Shape
    <2>1. clock' \in 0..CronWork
      BY <1>5, SpendBounds, CallBounds, Allowances DEF Shape, IInv
    <2> QED  BY <1>5, <2>1, HistoryStarts DEF Shape
  \* The attempt fits in what is left.
  <1>6. CASE Repair
    <2>1. clock' \in 0..CronWork /\ clock' <= clock + RepairAttempt
      BY <1>6, SpendBounds, Allowances DEF Repair, IInv
    <2>2. until - clock >= RepairAttempt /\ UNCHANGED until
      BY <1>6 DEF Repair, AllowanceLeft
    <2> QED  BY <2>1, <2>2, Allowances DEF IInv, Timed, RepairsInTime
  <1>7. CASE Respond
    BY <1>7, Allowances DEF Respond, IInv, Timed, RepairsInTime
  \* The other steps leave the clock and the deadline alone.
  <1>8. CASE Fire \/ SkipFire
    BY <1>8 DEF Fire, SkipFire, fireVars, IInv, Timed, RepairsInTime
  <1>9. CASE Defer \/ Report
    BY <1>9 DEF Defer, Report, fireVars, IInv, Timed, RepairsInTime
  <1>10. CASE Publish \/ Mend \/ UNCHANGED vars
    BY <1>10 DEF Publish, Mend, vars, fireVars, IInv, Timed, RepairsInTime
  <1> QED
    BY <1>1, <1>2, <1>3, <1>4, <1>5, <1>6, <1>7, <1>8, <1>9, <1>10 DEF Next, FireStep

\* The repairs of a fire end by their deadline, whatever the calls before them
\* took, for every set of allowances.
THEOREM InTime == Spec => []RepairsInTime
  <1>1. IInv => RepairsInTime
    BY DEF IInv
  <1> QED
    BY <1>1, InitIInv, NextIInv, PTL DEF Spec

-----------------------------------------------------------------------------
(* Every gap a fire was told of is deferred, still to come, or tried; until *)
(* its shape was attempted, the current epoch may be none of these.        *)

Plain ==
    /\ published \in Epoch
    /\ broken \subseteq Epoch /\ stored \subseteq Epoch
    /\ slot \in 0..Cycle - 1
    /\ pc \in {"idle", "discover", "read", "download", "submit", "shape", "history", "end"}
    /\ epoch \in Epoch \union {None}
    /\ missing \subseteq Epoch /\ deferred \subseteq missing
    /\ targets \in Seq(missing)
    /\ results \in [Epoch -> {"none", "created", "exists", "failed"}]
    /\ mishaps \in 0..MaxMishap

Tried == {e \in Epoch : results[e] # "none"}
Placed == deferred \union ToSet(targets) \union Tried

Told ==
    /\ pc \notin {"idle", "discover"} => epoch \in Epoch
    /\ pc \in {"idle", "discover", "read"} =>
          missing = {} /\ targets = <<>> /\ deferred = {} /\ Tried = {}
    /\ Tried \subseteq missing
    /\ missing \subseteq Placed \union {epoch}
    /\ pc = "shape" => epoch \in missing
    /\ pc \in {"history", "end"} => missing \subseteq Placed
    /\ pc = "end" => targets = <<>>

GInv == Plain /\ Told

LEMMA EpochRange ==
  /\ Min(Epoch) \in Nat /\ Epoch \subseteq Nat
  /\ \A e \in Epoch : \A d \in Int : Min(Epoch) <= d /\ d <= e => d \in Epoch
  <1> DEFINE lo == Min(Epoch)  hi == Max(Epoch)
  <1>1. /\ lo \in Nat /\ hi \in Nat
        /\ \A e \in Epoch : e <= hi
    BY EpochAssumption, Least, Greatest
  <1>2. Epoch = lo..hi /\ Epoch \subseteq Nat
    BY EpochAssumption
  <1> HIDE DEF lo, hi
  <1>3. \A e \in Epoch : \A d \in Int : lo <= d /\ d <= e => d \in Epoch
    BY <1>1, <1>2
  <1> QED
    BY <1>1, <1>2, <1>3 DEF lo

LEMMA Allowed ==
  Depth \in Nat \ {0} /\ MaxAttempts \in Nat \ {0} /\ MaxMishap \in Nat
  BY BudgetAssumption

LEMMA InitGInv == Init => GInv
  <1> SUFFICES ASSUME Init  PROVE GInv
    OBVIOUS
  <1>1. stored \subseteq Epoch
    <2> DEFINE lo == Min(Epoch)
    <2>1. stored \subseteq lo..published /\ published \in Epoch
      BY DEF Init
    <2>2. lo \in Nat /\ published \in Nat /\ \A d \in Int : lo <= d /\ d <= published => d \in Epoch
      BY <2>1, EpochRange
    <2> HIDE DEF lo
    <2> QED
      BY <2>1, <2>2
  <1>2. Tried = {}
    BY DEF Init, Untouched, Tried
  <1>3. Plain
    BY <1>1, BudgetAssumption DEF Init, Plain, Untouched
  <1> QED
    BY <1>2, <1>3 DEF Init, GInv, Told, Placed

LEMMA WindowInside ==
  ASSUME NEW e \in Epoch
  PROVE  Window(e) \subseteq Epoch
  <1> DEFINE a == Min(Epoch)  b == e - Depth + 1
  <1>1. /\ a \in Nat /\ b \in Int /\ e \in Nat
        /\ \A d \in Int : a <= d /\ d <= e => d \in Epoch
    BY EpochRange, Allowed
  <1>2. Max({a, b}) \in {a, b} /\ a <= Max({a, b})
    <2> HIDE DEF a, b
    <2>1. \E x \in {a, b} : \A y \in {a, b} : x >= y
      BY <1>1
    <2> QED
      BY <1>1, <2>1 DEF Max
  <1>3. Max({a, b})..e \subseteq Epoch
    <2> DEFINE m == Max({a, b})
    <2>1. m \in Int /\ a <= m
      BY <1>1, <1>2
    <2> HIDE DEF m, a, b
    <2>2. m..e \subseteq Epoch
      BY <1>1, <2>1
    <2> QED
      BY <2>2 DEF m
  <1> QED
    BY <1>3 DEF Window

\* What is selected and not deferred becomes a target, but for the current epoch.
LEMMA SchedulePlaces ==
  ASSUME Plain, NEW gaps, gaps \subseteq Epoch, Schedule(gaps)
  PROVE  /\ targets' \in Seq(gaps) /\ deferred' \subseteq gaps
         /\ gaps \subseteq deferred' \union ToSet(targets') \union {epoch}
  <1> DEFINE selected == Scheduled(gaps, epoch, MaxAttempts, slot)
  <1>1. gaps \subseteq Nat /\ IsFiniteSet(gaps) /\ MaxAttempts \in Nat \ {0} /\ slot \in Nat
    <2>1. IsFiniteSet(Epoch) /\ gaps \in SUBSET Epoch
      BY EpochAssumption
    <2>2. IsFiniteSet(gaps)
      BY <2>1, FS_Subset
    <2> QED
      BY <2>2, EpochRange, Allowed, CycleAssumption DEF Plain
  <1>2. /\ selected \in Seq(gaps)
        /\ epoch \in gaps => selected # <<>> /\ Head(selected) = epoch
    BY <1>1, ScheduledType
  <1>3. /\ targets' = IF epoch \in gaps THEN Tail(selected) ELSE selected
        /\ deferred' = gaps \ ToSet(selected)
    BY DEF Schedule
  <1> HIDE DEF selected
  <1>4. ToSet(selected) \subseteq ToSet(targets') \union {epoch}
    <2>1. CASE epoch \in gaps
      <3>1. ASSUME NEW i \in 1..Len(selected), selected[i] # epoch
            PROVE  selected[i] \in ToSet(Tail(selected))
        <4>1. i # 1
          BY <1>2, <2>1, <3>1
        <4>2. i - 1 \in 1..Len(Tail(selected)) /\ Tail(selected)[i - 1] = selected[i]
          BY <1>2, <2>1, <4>1
        <4>3. DOMAIN Tail(selected) = 1..Len(Tail(selected))
          BY <1>2, <2>1
        <4> QED
          BY <4>2, <4>3 DEF ToSet
      <3>2. DOMAIN selected = 1..Len(selected)
        BY <1>2
      <3> QED
        BY <1>3, <2>1, <3>1, <3>2 DEF ToSet
    <2> QED
      BY <1>3, <2>1
  <1>5. targets' \in Seq(gaps)
    BY <1>2, <1>3
  <1> QED
    BY <1>3, <1>4, <1>5

\* The first target and the others.
LEMMA NextTarget ==
  ASSUME Plain, targets # <<>>
  PROVE  /\ Head(targets) \in missing /\ Tail(targets) \in Seq(missing)
         /\ ToSet(targets) \subseteq {Head(targets)} \union ToSet(Tail(targets))
  <1>1. targets \in Seq(missing) /\ Len(targets) > 0
    BY DEF Plain
  <1>2. ASSUME NEW i \in 1..Len(targets), i # 1
        PROVE  targets[i] \in ToSet(Tail(targets))
    <2>1. i - 1 \in 1..Len(Tail(targets)) /\ Tail(targets)[i - 1] = targets[i]
      BY <1>1, <1>2
    <2>2. DOMAIN Tail(targets) = 1..Len(Tail(targets))
      BY <1>1
    <2> QED
      BY <2>1, <2>2 DEF ToSet
  <1>3. DOMAIN targets = 1..Len(targets) /\ Head(targets) = targets[1]
    BY <1>1
  <1>4. ToSet(targets) \subseteq {Head(targets)} \union ToSet(Tail(targets))
    BY <1>2, <1>3 DEF ToSet
  <1> QED
    BY <1>1, <1>4

LEMMA MishapType ==
  ASSUME mishaps \in 0..MaxMishap, Mishap \/ NoMishap
  PROVE  mishaps' \in 0..MaxMishap
  BY BudgetAssumption DEF Mishap, NoMishap

\* An outcome places its epoch.
LEMMA OutcomePlaces ==
  ASSUME Plain, NEW e \in Epoch, NEW o \in {"created", "exists", "failed"},
         results' = [results EXCEPT ![e] = o]
  PROVE  /\ Tried' = Tried \union {e}
         /\ results' \in [Epoch -> {"none", "created", "exists", "failed"}]
  BY DEF Plain, Tried

LEMMA ReadTells == ASSUME GInv, Read  PROVE GInv'
  <1> USE DEF GInv
  <1>1. pc = "read" /\ epoch \in Epoch /\ Tried = {}
    BY DEF Read, Told
  <1>2. UNCHANGED <<published, broken, stored, slot, epoch, results>>
    BY DEF Read
  <1>3. PICK gaps \in SUBSET Epoch : Schedule(gaps)
    BY <1>1, WindowInside DEF Read
  <1>4. missing' = gaps /\ pc' = "download"
    BY <1>3 DEF Schedule
  <1>5. /\ targets' \in Seq(gaps) /\ deferred' \subseteq gaps
        /\ gaps \subseteq deferred' \union ToSet(targets') \union {epoch}
    BY <1>3, SchedulePlaces
  <1>6. mishaps' \in 0..MaxMishap
    BY MishapType DEF Read, Call, Plain
  <1>7. Tried' = {}
    BY <1>1, <1>2 DEF Tried
  <1>8. Plain'
    BY <1>2, <1>4, <1>5, <1>6 DEF Plain
  <1>9. Told'
    BY <1>1, <1>2, <1>4, <1>5, <1>7 DEF Told, Placed
  <1> QED
    BY <1>8, <1>9

\* Of what these steps leave alone.
LEMMA SamePlaces ==
  ASSUME UNCHANGED <<missing, targets, deferred, results>>
  PROVE  Tried' = Tried /\ Placed' = Placed
  BY DEF Tried, Placed

LEMMA DownloadTells == ASSUME GInv, Download  PROVE GInv'
  <1> USE DEF GInv
  <1>1. pc = "download" /\ epoch \in Epoch /\ missing \subseteq Placed \union {epoch}
    BY DEF Download, Told
  <1>2. UNCHANGED <<published, broken, stored, slot, epoch, missing, targets, deferred>>
    BY DEF Download
  <1>3. mishaps' \in 0..MaxMishap
    BY MishapType DEF Download, Call, Plain
  <1>4. CASE UNCHANGED results /\ (pc' = "submit" \/ (~NeedsShape /\ StartHistory))
    <2>1. Plain'
      BY <1>2, <1>3, <1>4 DEF Download, StartHistory, Plain
    <2>2. pc' = "submit" \/ (pc' = "history" /\ epoch \notin missing)
      BY <1>4 DEF StartHistory, NeedsShape
    <2>3. Tried' = Tried /\ Placed' = Placed
      BY <1>2, <1>4, SamePlaces
    <2> QED
      BY <1>1, <1>2, <2>1, <2>2, <2>3 DEF Told
  <1>5. CASE results' = [results EXCEPT ![epoch] = "failed"] /\ NeedsShape /\ StartHistory
    <2>1. /\ Tried' = Tried \union {epoch}
          /\ results' \in [Epoch -> {"none", "created", "exists", "failed"}]
      BY <1>1, <1>5, OutcomePlaces
    <2>2. Plain'
      BY <1>2, <1>3, <1>5, <2>1 DEF StartHistory, Plain
    <2>3. Placed' = Placed \union {epoch}
      BY <1>2, <2>1 DEF Placed
    <2> QED
      BY <1>1, <1>2, <1>5, <2>1, <2>2, <2>3 DEF Told, StartHistory, NeedsShape
  <1> QED
    BY <1>4, <1>5 DEF Download

LEMMA SubmitTells == ASSUME GInv, Submit  PROVE GInv'
  <1> USE DEF GInv
  <1>1. UNCHANGED <<published, broken, stored, slot, epoch, missing, targets, deferred, results>>
    BY DEF Submit
  <1>2. mishaps' \in 0..MaxMishap
    BY MishapType DEF Submit, Call, Plain
  <1>3. \/ pc' = "shape" /\ epoch \in missing
        \/ pc' = "history" /\ epoch \notin missing
    BY DEF Submit, StartHistory, NeedsShape
  <1>4. Plain'
    BY <1>1, <1>2, <1>3 DEF Plain
  <1>5. Tried' = Tried /\ Placed' = Placed
    BY <1>1, SamePlaces
  <1> QED
    BY <1>1, <1>3, <1>4, <1>5 DEF Told, Submit

LEMMA ShapeTells == ASSUME GInv, Shape  PROVE GInv'
  <1> USE DEF GInv
  <1>1. epoch \in Epoch /\ epoch \in missing /\ missing \subseteq Placed \union {epoch}
    BY DEF Shape, Told
  <1>2. UNCHANGED <<published, broken, slot, epoch, missing, targets, deferred>> /\ pc' = "history"
    BY DEF Shape, StartHistory
  <1>3. mishaps' \in 0..MaxMishap
    BY MishapType DEF Shape, Call, Plain
  <1>4. /\ stored' \subseteq Epoch
        /\ \E o \in {"created", "exists", "failed"} : results' = [results EXCEPT ![epoch] = o]
    BY <1>1 DEF Shape, PutShape, PutFails, Plain
  <1>5. /\ Tried' = Tried \union {epoch}
        /\ results' \in [Epoch -> {"none", "created", "exists", "failed"}]
    BY <1>1, <1>4, OutcomePlaces
  <1>6. Plain'
    BY <1>2, <1>3, <1>4, <1>5 DEF Plain
  <1>7. Placed' = Placed \union {epoch}
    BY <1>2, <1>5 DEF Placed
  <1> QED
    BY <1>1, <1>2, <1>5, <1>6, <1>7 DEF Told

LEMMA DeferTells == ASSUME GInv, Defer  PROVE GInv'
  <1> USE DEF GInv
  <1>1. pc = "history" /\ targets # <<>>
    BY DEF Defer
  <1>2. /\ UNCHANGED <<published, broken, stored, slot, pc, epoch, missing, results, mishaps>>
        /\ deferred' = deferred \union {Head(targets)} /\ targets' = Tail(targets)
    BY DEF Defer
  <1>3. /\ Head(targets) \in missing /\ Tail(targets) \in Seq(missing)
        /\ ToSet(targets) \subseteq {Head(targets)} \union ToSet(Tail(targets))
    BY <1>1, NextTarget
  <1>4. Plain'
    BY <1>2, <1>3 DEF Plain
  <1>5. Tried' = Tried /\ Placed \subseteq Placed'
    BY <1>2, <1>3 DEF Tried, Placed
  <1> QED
    BY <1>1, <1>2, <1>4, <1>5 DEF Told

LEMMA RepairTells == ASSUME GInv, Repair  PROVE GInv'
  <1> USE DEF GInv
  <1> DEFINE e == Head(targets)
  <1>1. pc = "history" /\ targets # <<>>
    BY DEF Repair
  <1>2. /\ UNCHANGED <<published, broken, slot, pc, epoch, missing, deferred>>
        /\ targets' = Tail(targets)
    BY DEF Repair
  <1>3. /\ e \in missing /\ Tail(targets) \in Seq(missing) /\ e \in Epoch
        /\ ToSet(targets) \subseteq {e} \union ToSet(Tail(targets))
    BY <1>1, NextTarget DEF Plain
  <1>4. mishaps' \in 0..MaxMishap
    BY MishapType DEF Repair, Plain
  <1>5. /\ stored' \subseteq Epoch
        /\ \E o \in {"created", "exists", "failed"} : results' = [results EXCEPT ![e] = o]
    BY <1>3 DEF Repair, PutShape, PutFails, Plain
  <1>6. /\ Tried' = Tried \union {e}
        /\ results' \in [Epoch -> {"none", "created", "exists", "failed"}]
    BY <1>3, <1>5, OutcomePlaces
  <1> HIDE DEF e
  <1>7. Plain'
    BY <1>2, <1>3, <1>4, <1>5, <1>6 DEF Plain
  <1>8. Placed \subseteq Placed'
    BY <1>2, <1>3, <1>6 DEF Placed
  <1> QED
    BY <1>1, <1>2, <1>3, <1>6, <1>7, <1>8 DEF Told

LEMMA NextGInv == GInv /\ [Next]_vars => GInv'
  <1> SUFFICES ASSUME GInv, [Next]_vars PROVE GInv'
    OBVIOUS
  <1> USE DEF GInv
  <1>1. CASE Read \/ Download \/ Submit \/ Shape \/ Defer \/ Repair
    BY <1>1, ReadTells, DownloadTells, SubmitTells, ShapeTells, DeferTells, RepairTells
  \* Nothing is placed before the gaps are known.
  <1>2. CASE Discover
    <2>1. /\ UNCHANGED <<published, broken, stored, slot, missing, targets, deferred, results>>
          /\ epoch' \in Epoch /\ pc' = "read" /\ pc = "discover"
      BY <1>2 DEF Discover, Plain
    <2>2. mishaps' \in 0..MaxMishap
      BY <1>2, MishapType DEF Discover, Call, Plain
    <2>3. Tried' = Tried /\ Placed' = Placed
      BY <2>1, SamePlaces
    <2> QED
      BY <2>1, <2>2, <2>3 DEF Plain, Told
  <1>3. CASE Fire \/ SkipFire
    <2>1. /\ UNCHANGED <<published, broken, stored, fireVars>>
          /\ pc = "idle" /\ pc' \in {"idle", "discover"}
      BY <1>3 DEF Fire, SkipFire
    <2>2. slot' \in 0..Cycle - 1
      <3>1. slot \in Int /\ Cycle \in Nat \ {0}
        BY CycleAssumption DEF Plain
      <3> QED
        BY <1>3, <3>1 DEF Fire, SkipFire, NextSlot
    <2>3. mishaps' \in 0..MaxMishap
      BY <1>3, MishapType DEF Fire, SkipFire, NoMishap, Plain
    <2>4. Tried' = Tried /\ Placed' = Placed
      BY <2>1, SamePlaces DEF fireVars
    <2> QED
      BY <2>1, <2>2, <2>3, <2>4 DEF Plain, Told, fireVars
  <1>4. CASE Report
    <2>1. /\ UNCHANGED <<published, broken, stored, slot, fireVars, mishaps>>
          /\ pc = "history" /\ targets = <<>> /\ pc' = "end"
      BY <1>4 DEF Report
    <2>2. Tried' = Tried /\ Placed' = Placed
      BY <2>1, SamePlaces DEF fireVars
    <2> QED
      BY <2>1, <2>2 DEF Plain, Told, fireVars
  <1>5. CASE Respond
    <2>1. Tried' = {}
      BY <1>5 DEF Respond, Untouched, Tried
    <2>2. Plain'
      BY <1>5 DEF Respond, Untouched, Plain
    <2> QED
      BY <1>5, <2>1, <2>2 DEF Respond, Told
  <1>6. CASE Publish \/ Mend \/ UNCHANGED vars
    <2>1. /\ UNCHANGED <<stored, slot, pc, fireVars, mishaps>>
          /\ published' \in Epoch /\ broken' \subseteq Epoch
      BY <1>6 DEF Publish, Mend, vars, Plain
    <2>2. Tried' = Tried /\ Placed' = Placed
      BY <2>1, SamePlaces DEF fireVars
    <2> QED
      BY <2>1, <2>2 DEF Plain, Told, fireVars
  <1> QED
    BY <1>1, <1>2, <1>3, <1>4, <1>5, <1>6 DEF Next, FireStep

\* The state of a fire keeps its types: the window a gap comes from never reaches
\* outside the epochs, and every target is a gap.
THEOREM TypeCorrect == Spec => []TypeOK
  <1>1. GInv /\ IInv => TypeOK
    BY DEF GInv, IInv, Plain, Timed, TypeOK
  <1> QED
    BY <1>1, InitGInv, NextGInv, InitIInv, NextIInv, PTL DEF Spec

\* A fire that ends has tried or deferred every gap it was told of, for any depth,
\* any number of attempts and any times its calls take.
THEOREM AllAccounted == Spec => []Accounted
  <1>1. GInv => Accounted
    <2> SUFFICES ASSUME GInv, pc = "end"
                 PROVE  missing = deferred \union Tried
      BY DEF Accounted, Tried
    <2>1. targets = <<>> /\ missing \subseteq Placed /\ Tried \subseteq missing
      BY DEF GInv, Told
    <2>2. ToSet(<<>>) = {}
      BY DEF ToSet
    <2> QED
      BY <2>1, <2>2 DEF GInv, Plain, Placed
  <1> QED
    BY <1>1, InitGInv, NextGInv, PTL DEF Spec
=============================================================================
