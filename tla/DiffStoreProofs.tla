--------------------------- MODULE DiffStoreProofs --------------------------
(***************************************************************************)
(* Theorems about the shapes of the epochs: DiffStore, for any number of   *)
(* processes, requests, epochs, shapes and mishaps (types, the three state *)
(* properties, and that the store implements the write-once records of     *)
(* ShapeRecords); and ChangeLog over those records, for any window and     *)
(* concurrency (KeptIsExact and PagesAgree).                               *)
(*                                                                         *)
(* The store: a write finds the bytes its condition names, and these    *)
(* are never a shape, so a readable object is final (ReadableStays).  What *)
(* a request saw readable is then still there when it acts on it, whatever *)
(* happened in between: the shape a get keeps, the shape a put has stored, *)
(* the epochs a missing query has passed over.  IInv states this request   *)
(* by request.                                                             *)
(*                                                                         *)
(* The changelog: a record that was read never changes, so what a request  *)
(* has read is what stands, whenever it read it; an answer that lacked an  *)
(* epoch is not kept.  An answer that is kept therefore equals the one     *)
(* computed from all the records at once (LogInv), and the properties      *)
(* follow from the algorithms of diff.rs: an entry's date is the least     *)
(* epoch that shows it, and the two pages divide the same links by owner,  *)
(* given that no listed contributor is called "unknown".                   *)
(***************************************************************************)
EXTENDS DiffStore, ChangeLog, FiniteSetTheorems, WellFoundedInduction, TLAPS

\* A request that carries a shape.
Bodies ==
    \A q \in Request :
        pc[q] \in {"keep", "probe", "store", "reprobe", "remember", "advance"}
            => body[q] \in Shape

Silent == \A q \in Request : pc[q] # "end" => answer[q] = Silence

\* A put that has written its epoch's record.
Won(q) == pc[q] \in {"remember", "advance"} \/ answer[q].kind = "created"

Winners ==
    /\ \A q \in Request : Won(q) \/ pc[q] = "keep" => object[want[q]] = body[q]
    /\ \A q \in Request : answer[q].kind = "created" => answer[q].epoch = want[q]
                                                      /\ answer[q].shape = body[q]
                                                      /\ body[q] \in Shape
    /\ \A p, q \in Request : Won(p) /\ Won(q) /\ want[p] = want[q] => p = q

\* The progress of a missing query.
Scans ==
    \A q \in Request :
        /\ \A e \in joined[q] \ found[q] : Readable(e)
        /\ pc[q] \in {"new", "list", "merge", "publish"} => joined[q] = {}
        /\ answer[q].kind = "missing" => joined[q] = window[q]

AsListed ==
    \A q \in Request :
        pc[q] \in {"merge", "publish"} => \A e \in found[q] : object[e] # Nothing

IInv ==
    /\ TypeOK /\ Bodies /\ Silent /\ Winners /\ Scans /\ AsListed
    /\ MemoryIsDurable /\ LatestIsStored

-----------------------------------------------------------------------------
LEMMA InitIInv == Init => IInv
  BY EpochAssumption, ValueAssumption, BoundAssumption
  DEF Init, IInv, TypeOK, Pc, Bodies, Silent, Silence, Won, Winners, Scans,
      AsListed, MemoryIsDurable, LatestIsStored, Readable

LEMMA KeepStep ==
  ASSUME IInv, NEW q \in Request, Keep(q)
  PROVE  IInv'
  BY EpochAssumption, ValueAssumption, BoundAssumption
  DEF Keep, Reply, Told, Goto, Remember, IInv, TypeOK, Pc, Bodies, Silent, Silence,
      Won, Winners, Scans, AsListed, MemoryIsDurable, LatestIsStored, Readable, At,
      storeVars, processVars

LEMMA StartPutStep ==
  ASSUME IInv, NEW q \in Request, StartPut(q)
  PROVE  IInv'
  BY EpochAssumption, ValueAssumption, BoundAssumption
  DEF StartPut, Goto, IInv, TypeOK, Pc, Bodies, Silent, Silence, Won, Winners, Scans,
      AsListed, MemoryIsDurable, LatestIsStored, Readable, At, storeVars, processVars

LEMMA StoreStep ==
  ASSUME IInv, NEW q \in Request, Store(q)
  PROVE  IInv'
  BY EpochAssumption, ValueAssumption, BoundAssumption
  DEF Store, Goto, PutObject, Holds, IInv, TypeOK, Pc, Bodies, Silent, Silence,
      Won, Winners, Scans, AsListed, MemoryIsDurable, LatestIsStored, Readable, At,
      storeVars, processVars

LEMMA RememberPutStep ==
  ASSUME IInv, NEW q \in Request, RememberPut(q)
  PROVE  IInv'
  BY EpochAssumption, ValueAssumption, BoundAssumption
  DEF RememberPut, Remember, Goto, IInv, TypeOK, Pc, Bodies, Silent, Silence, Won,
      Winners, Scans, AsListed, MemoryIsDurable, LatestIsStored, Readable, At,
      storeVars, processVars

LEMMA StartMissingStep ==
  ASSUME IInv, NEW q \in Request, StartMissing(q)
  PROVE  IInv'
  BY EpochAssumption, ValueAssumption, BoundAssumption
  DEF StartMissing, Goto, IInv, TypeOK, Pc, Bodies, Silent, Silence, Won, Winners,
      Scans, AsListed, MemoryIsDurable, LatestIsStored, Readable, At, storeVars,
      processVars

LEMMA ScanStep ==
  ASSUME IInv, NEW q \in Request, Scan(q)
  PROVE  IInv'
  BY EpochAssumption, ValueAssumption, BoundAssumption
  DEF Scan, Spawned, IInv, TypeOK, Pc, Bodies, Silent, Silence, Won, Winners, Scans,
      AsListed, MemoryIsDurable, LatestIsStored, Readable, At, storeVars, processVars

LEMMA ReportMissingStep ==
  ASSUME IInv, NEW q \in Request, ReportMissing(q)
  PROVE  IInv'
  BY EpochAssumption, ValueAssumption, BoundAssumption
  DEF ReportMissing, Reply, Told, Goto, IInv, TypeOK, Pc, Bodies, Silent, Silence,
      Won, Winners, Scans, AsListed, MemoryIsDurable, LatestIsStored, Readable, At,
      storeVars, processVars

LEMMA ListStep ==
  ASSUME IInv, NEW q \in Request, List(q)
  PROVE  IInv'
  BY EpochAssumption, ValueAssumption, BoundAssumption
  DEF List, Goto, IInv, TypeOK, Pc, Bodies, Silent, Silence, Won, Winners, Scans,
      AsListed, MemoryIsDurable, LatestIsStored, Readable, At, storeVars, processVars

LEMMA FailsStep ==
  ASSUME IInv, NEW q \in Request, Fails(q)
  PROVE  IInv'
  BY EpochAssumption, ValueAssumption, BoundAssumption
  DEF Fails, Mishap, Reply, Told, Goto, InFlight, IInv, TypeOK, Pc, Bodies, Silent,
      Silence, Won, Winners, Scans, AsListed, MemoryIsDurable, LatestIsStored,
      Readable, At, storeVars, processVars

LEMMA StoreRetriedStep ==
  ASSUME IInv, NEW q \in Request, StoreRetried(q)
  PROVE  IInv'
  BY EpochAssumption, ValueAssumption, BoundAssumption
  DEF StoreRetried, Mishap, PutObject, Holds, Goto, IInv, TypeOK, Pc, Bodies,
      Silent, Silence, Won, Winners, Scans, AsListed, MemoryIsDurable,
      LatestIsStored, Readable, At, storeVars, processVars

LEMMA GivesUpStep ==
  ASSUME IInv, NEW q \in Request, GivesUp(q)
  PROVE  IInv'
  BY EpochAssumption, ValueAssumption, BoundAssumption
  DEF GivesUp, Mishap, Goto, InFlight, IInv, TypeOK, Pc, Bodies, Silent, Silence,
      Won, Winners, Scans, AsListed, MemoryIsDurable, LatestIsStored, Readable, At,
      storeVars, processVars

\* A step that only answers a request.
LEMMA ReplyKeepsIInv ==
  ASSUME IInv, NEW q \in Request, pc[q] # "end",
         NEW kind \in {"exists", "shape", "absent", "unknown", "empty"},
         NEW s \in Shape \union {Nothing}, Reply(q, kind, s),
         UNCHANGED <<storeVars, processVars, at, want, body, cond, window, joined, found, mishaps>>
  PROVE  IInv'
  BY ValueAssumption
  DEF Reply, Told, Goto, IInv, TypeOK, Pc, Bodies, Silent, Silence, Won, Winners,
      Scans, AsListed, MemoryIsDurable, LatestIsStored, Readable, storeVars, processVars

LEMMA StartGetStep ==
  ASSUME IInv, NEW q \in Request, StartGet(q)
  PROVE  IInv'
  <1>1. CASE memory[at[q]][want[q]] = Nothing
    <2>1. Goto(q, "load") /\ UNCHANGED answer /\ pc[q] = "new"
      BY <1>1 DEF StartGet, At
    <2>2. UNCHANGED <<storeVars, processVars, at, want, body, cond, window, joined, found, mishaps>>
      BY DEF StartGet
    <2> QED
      BY <2>1, <2>2, ValueAssumption
      DEF Goto, IInv, TypeOK, Pc, Bodies, Silent, Silence, Won, Winners, Scans,
          AsListed, MemoryIsDurable, LatestIsStored, Readable, At, storeVars,
          processVars
  <1>2. CASE memory[at[q]][want[q]] # Nothing
    <2>1. memory[at[q]][want[q]] \in Shape
      BY <1>2 DEF IInv, TypeOK
    <2>2. Reply(q, "shape", memory[at[q]][want[q]])
      BY <1>2 DEF StartGet
    <2> QED
      BY <2>1, <2>2, ReplyKeepsIInv DEF StartGet, At
  <1> QED
    BY <1>1, <1>2

LEMMA LoadStep ==
  ASSUME IInv, NEW q \in Request, Load(q)
  PROVE  IInv'
  <1>1. CASE Readable(want[q])
    <2>1. /\ body' = [body EXCEPT ![q] = object[want[q]]]
          /\ Goto(q, "keep") /\ UNCHANGED answer /\ pc[q] = "load"
      BY <1>1 DEF Load, At
    <2>2. UNCHANGED <<storeVars, processVars, at, want, cond, window, joined, found, mishaps>>
      BY DEF Load
    <2> QED
      BY <1>1, <2>1, <2>2, ValueAssumption
      DEF Goto, IInv, TypeOK, Pc, Bodies, Silent, Silence, Won, Winners, Scans,
          AsListed, MemoryIsDurable, LatestIsStored, Readable, At, storeVars,
          processVars
  <1>2. CASE ~Readable(want[q])
    BY <1>2, ReplyKeepsIInv DEF Load, At
  <1> QED
    BY <1>1, <1>2

LEMMA ProbeStep ==
  ASSUME IInv, NEW q \in Request, Probe(q)
  PROVE  IInv'
  <1>1. CASE /\ object[want[q]] \notin Shape
             /\ cond' = [cond EXCEPT ![q] = object[want[q]]]
             /\ Goto(q, "store") /\ UNCHANGED answer
    BY <1>1, ValueAssumption
    DEF Probe, Reply, Told, Goto, IInv, TypeOK, Pc, Bodies, Silent, Silence, Won,
        Winners, Scans, AsListed, MemoryIsDurable, LatestIsStored, Readable, At,
        storeVars, processVars
  <1>2. CASE Reply(q, "exists", Nothing) /\ UNCHANGED cond
    BY <1>2, ReplyKeepsIInv DEF Probe, At
  <1>3. CASE Reply(q, "unknown", Nothing) /\ UNCHANGED cond
    BY <1>3, ReplyKeepsIInv DEF Probe, At
  <1> QED
    BY <1>1, <1>2, <1>3 DEF Probe

LEMMA ReprobeStep ==
  ASSUME IInv, NEW q \in Request, Reprobe(q)
  PROVE  IInv'
  BY ReplyKeepsIInv DEF Reprobe, At

LEMMA StartLatestStep ==
  ASSUME IInv, NEW q \in Request, StartLatest(q)
  PROVE  IInv'
  <1>1. CASE fresh[at[q]]
    <2>1. /\ answer' = [answer EXCEPT ![q] = Told("latest", latest[at[q]], Nothing)]
          /\ Goto(q, "end") /\ pc[q] = "new"
      BY <1>1 DEF StartLatest, At
    <2>2. UNCHANGED <<storeVars, processVars, at, want, body, cond, window, joined, found, mishaps>>
      BY DEF StartLatest
    <2>3. latest[at[q]] \in Epoch \union {Nothing}
      BY DEF IInv, TypeOK
    <2> QED
      BY <2>1, <2>2, <2>3, ValueAssumption
      DEF Told, Goto, IInv, TypeOK, Pc, Bodies, Silent, Silence, Won, Winners,
          Scans, AsListed, MemoryIsDurable, LatestIsStored, Readable, At, storeVars,
          processVars
  <1>2. CASE ~fresh[at[q]]
    <2>1. Goto(q, "list") /\ UNCHANGED answer /\ pc[q] = "new"
      BY <1>2 DEF StartLatest, At
    <2>2. UNCHANGED <<storeVars, processVars, at, want, body, cond, window, joined, found, mishaps>>
      BY DEF StartLatest
    <2> QED
      BY <2>1, <2>2, ValueAssumption
      DEF Goto, IInv, TypeOK, Pc, Bodies, Silent, Silence, Won, Winners, Scans,
          AsListed, MemoryIsDurable, LatestIsStored, Readable, At, storeVars,
          processVars
  <1> QED
    BY <1>1, <1>2

LEMMA MergeStep ==
  ASSUME IInv, NEW q \in Request, Merge(q)
  PROVE  IInv'
  <1> DEFINE known == found[q] \union {e \in Epoch : memory[at[q]][e] # Nothing}
  <1>1. CASE known = {}
    BY <1>1, ReplyKeepsIInv DEF Merge, At
  <1>2. CASE known # {}
    <2>1. \A e \in known : object[e] # Nothing
      BY ValueAssumption DEF Merge, At, IInv, TypeOK, AsListed, MemoryIsDurable
    <2>2. known \subseteq Epoch
      BY DEF IInv, TypeOK
    <2>3. found' = [found EXCEPT ![q] = known] /\ Goto(q, "publish") /\ UNCHANGED answer
      BY <1>2 DEF Merge
    <2> HIDE DEF known
    <2> QED
      BY <2>1, <2>2, <2>3, ValueAssumption
      DEF Merge, Reply, Told, Goto, IInv, TypeOK, Pc, Bodies, Silent, Silence, Won,
          Winners, Scans, AsListed, MemoryIsDurable, LatestIsStored, Readable, At,
          storeVars, processVars
  <1> QED
    BY <1>1, <1>2

LEMMA PublishStep ==
  ASSUME IInv, NEW q \in Request, Publish(q)
  PROVE  IInv'
  <1>1. PICK e \in found[q] :
          /\ latest' = [latest EXCEPT ![at[q]] = e]
          /\ answer' = [answer EXCEPT ![q] = Told("latest", e, Nothing)]
    BY DEF Publish
  <1>2. e \in Epoch /\ object[e] # Nothing
    BY <1>1 DEF Publish, At, IInv, TypeOK, AsListed
  <1>3. UNCHANGED <<storeVars, memory, at, want, body, cond, window, joined, found, mishaps>>
        /\ fresh' = [fresh EXCEPT ![at[q]] = TRUE] /\ Goto(q, "end") /\ pc[q] = "publish"
    BY DEF Publish, At
  <1> QED
    BY <1>1, <1>2, <1>3, ValueAssumption
    DEF Told, Goto, IInv, TypeOK, Pc, Bodies, Silent, Silence, Won, Winners, Scans,
        AsListed, MemoryIsDurable, LatestIsStored, Readable, At, storeVars,
        processVars

LEMMA AdvanceStep ==
  ASSUME IInv, NEW q \in Request, Advance(q)
  PROVE  IInv'
  <1>1. /\ pc[q] = "advance" /\ body[q] \in Shape
        /\ object[want[q]] = body[q] /\ want[q] \in Epoch /\ at[q] \in Replica
    BY DEF Advance, At, IInv, TypeOK, Bodies, Winners, Won
  <1>2. /\ answer' = [answer EXCEPT ![q] = Told("created", want[q], body[q])]
        /\ Goto(q, "end")
        /\ UNCHANGED <<storeVars, memory, at, want, body, cond, window, joined, found, mishaps>>
    BY DEF Advance, Reply
  <1>3. /\ latest' \in [Replica -> Epoch \union {Nothing}] /\ fresh' \in [Replica -> BOOLEAN]
        /\ \A r \in Replica : latest'[r] \in {latest[r], want[q]} /\ (latest'[r] # latest[r] => r = at[q])
    BY <1>1 DEF Advance, AdvanceLatest, IInv, TypeOK
  <1>4. LatestIsStored'
    BY <1>1, <1>2, <1>3, ValueAssumption DEF LatestIsStored, IInv, TypeOK, storeVars
  <1>5. TypeOK'
    BY <1>1, <1>2, <1>3 DEF Told, Goto, IInv, TypeOK, Pc, storeVars
  <1> QED
    BY <1>1, <1>2, <1>4, <1>5, ValueAssumption
    DEF Told, Goto, IInv, TypeOK, Pc, Bodies, Silent, Silence, Won, Winners, Scans,
        AsListed, MemoryIsDurable, Readable, storeVars

LEMMA LatestExpiresStep ==
  ASSUME IInv, NEW r \in Replica, LatestExpires(r)
  PROVE  IInv'
  BY
  DEF LatestExpires, requestVars, IInv, TypeOK, Pc, Bodies, Silent, Silence, Won,
      Winners, Scans, AsListed, MemoryIsDurable, LatestIsStored, Readable, At,
      storeVars, processVars

LEMMA LateStoreStep ==
  ASSUME IInv, LateStore
  PROVE  IInv'
  BY ValueAssumption
  DEF LateStore, PutObject, Holds, requestVars, IInv, TypeOK, Pc, Bodies, Silent,
      Silence, Won, Winners, Scans, AsListed, MemoryIsDurable, LatestIsStored,
      Readable, At, storeVars, processVars

LEMMA ForeignWriteStep ==
  ASSUME IInv, ForeignWrite
  PROVE  IInv'
  BY ValueAssumption, BoundAssumption
  DEF ForeignWrite, Mishap, requestVars, IInv, TypeOK, Pc, Bodies, Silent, Silence,
      Won, Winners, Scans, AsListed, MemoryIsDurable, LatestIsStored, Readable, At,
      storeVars, processVars

LEMMA RestartStep ==
  ASSUME IInv, NEW r \in Replica, Restart(r)
  PROVE  IInv'
  BY ValueAssumption, BoundAssumption
  DEF Restart, Mishap, InFlight, IInv, TypeOK, Pc, Bodies, Silent, Silence, Won,
      Winners, Scans, AsListed, MemoryIsDurable, LatestIsStored, Readable, At,
      storeVars, processVars

LEMMA NextKeepsIInv ==
  ASSUME IInv, [Next]_vars
  PROVE  IInv'
  <1>1. CASE UNCHANGED vars
    BY <1>1
    DEF vars, requestVars, IInv, TypeOK, Pc, Bodies, Silent, Silence, Won, Winners,
        Scans, AsListed, MemoryIsDurable, LatestIsStored, Readable, At, storeVars,
        processVars
  <1>2. ASSUME NEW q \in Request,
               StartGet(q) \/ Load(q) \/ Keep(q) \/ StartPut(q) \/ Probe(q)
                 \/ Store(q) \/ Reprobe(q) \/ RememberPut(q) \/ Advance(q)
        PROVE  IInv'
    BY <1>2, StartGetStep, LoadStep, KeepStep, StartPutStep, ProbeStep, StoreStep,
       ReprobeStep, RememberPutStep, AdvanceStep
  <1>3. ASSUME NEW q \in Request,
               StartMissing(q) \/ Scan(q) \/ ReportMissing(q) \/ StartLatest(q)
                 \/ List(q) \/ Merge(q) \/ Publish(q)
        PROVE  IInv'
    BY <1>3, StartMissingStep, ScanStep, ReportMissingStep, StartLatestStep,
       ListStep, MergeStep, PublishStep
  <1>4. ASSUME NEW q \in Request, Fails(q) \/ StoreRetried(q) \/ GivesUp(q)
        PROVE  IInv'
    BY <1>4, FailsStep, StoreRetriedStep, GivesUpStep
  <1>5. ASSUME NEW r \in Replica, LatestExpires(r) \/ Restart(r)
        PROVE  IInv'
    BY <1>5, LatestExpiresStep, RestartStep
  <1> QED
    BY <1>1, <1>2, <1>3, <1>4, <1>5, LateStoreStep, ForeignWriteStep DEF Next

LEMMA Invariance == Spec => []IInv
  <1>1. Init => IInv
    BY InitIInv
  <1>2. IInv /\ [Next]_vars => IInv'
    BY NextKeepsIInv
  <1> QED
    BY <1>1, <1>2, PTL DEF Spec

\* Every variable has its type, for any instance.
THEOREM TypeCorrect == Spec => []TypeOK
  BY Invariance, PTL DEF IInv

\* The memory of a process never differs from the bucket: `remember` follows a
\* successful write or a readable load, and readable objects are final.
THEOREM MemoryCorrect == Spec => []MemoryIsDurable
  BY Invariance, PTL DEF IInv

\* missing_epochs leaves out only epochs with a readable record, in whatever
\* order its reads finish and whatever is written meanwhile.
THEOREM GapsCorrect == Spec => []GapsComplete
  <1>1. IInv => GapsComplete
    BY DEF IInv, Scans, GapsComplete
  <1> QED
    BY <1>1, Invariance, PTL

\* The cached latest epoch of a process is in the bucket.
THEOREM LatestCorrect == Spec => []LatestIsStored
  BY Invariance, PTL DEF IInv

-----------------------------------------------------------------------------
(* The store implements the write-once records.                            *)

Mapped ==
    <<[e \in Epoch |-> IF Readable(e) THEN object[e] ELSE Nothing],
      [q \in Request |-> IF answer[q].kind \in {"missing", "latest", "empty"}
                         THEN Silence ELSE answer[q]]>>

Implements == Records!Next \/ UNCHANGED Mapped

LEMMA InitImplements == Init => Records!Init
  BY ValueAssumption DEF Init, Records!Init, Records!Silence, Silence, Readable

\* A write over unreadable bytes.
LEMMA WriteImplements ==
  ASSUME IInv, NEW e \in Epoch, NEW s \in Shape, ~Readable(e),
         object' = [object EXCEPT ![e] = s], UNCHANGED answer
  PROVE  Implements
  <1> DEFINE rec == [d \in Epoch |-> IF Readable(d) THEN object[d] ELSE Nothing]
  <1>1. rec[e] = Nothing
    OBVIOUS
  <1>2. rec' = [rec EXCEPT ![e] = s]
    BY DEF IInv, TypeOK, Readable
  <1>3. Records!Write
    BY <1>1, <1>2, Zenon DEF Records!Write
  <1> QED
    BY <1>3 DEF Implements, Records!Next

\* A conditional write, whether it finds its bytes or not.
LEMMA PutImplements ==
  ASSUME IInv, NEW e \in Epoch, NEW s \in Shape, NEW c \in Garbage \union {Nothing},
         PutObject(e, c, s), UNCHANGED answer
  PROVE  Implements
  <1>1. CASE Holds(e, c)
    BY <1>1, WriteImplements, ValueAssumption DEF PutObject, Holds, Readable
  <1>2. CASE ~Holds(e, c)
    BY <1>2 DEF PutObject, Implements, Mapped, Readable
  <1> QED
    BY <1>1, <1>2

\* An answer the records allow.
LEMMA ReplyImplements ==
  ASSUME IInv, NEW q \in Request, pc[q] # "end",
         NEW kind \in {"created", "exists", "shape", "absent", "unknown"},
         NEW s \in Shape \union {Nothing}, Reply(q, kind, s), UNCHANGED object,
         kind = "created" =>
            /\ s \in Shape /\ object[want[q]] = s
            /\ \A r \in Request : ~(answer[r].kind = "created" /\ want[r] = want[q]),
         kind = "exists" => Readable(want[q]) /\ s = Nothing,
         kind = "shape" => s \in Shape /\ object[want[q]] = s,
         kind = "absent" => ~Readable(want[q]) /\ s = Nothing,
         kind = "unknown" => s = Nothing
  PROVE  Implements
  <1> DEFINE rec == [e \in Epoch |-> IF Readable(e) THEN object[e] ELSE Nothing]
             ans == [r \in Request |-> IF answer[r].kind \in {"missing", "latest", "empty"}
                                       THEN Silence ELSE answer[r]]
  <1>1. /\ want[q] \in Epoch /\ answer[q] = Silence
        /\ answer' = [answer EXCEPT ![q] = Told(kind, want[q], s)]
    BY DEF IInv, TypeOK, Silent, Reply
  <1>2. /\ ans[q] = Records!Silence /\ rec' = rec
        /\ ans' = [ans EXCEPT ![q] = Records!Told(kind, want[q], s)]
    BY <1>1 DEF Records!Told, Records!Silence, Told, Silence, Readable, IInv, TypeOK
  <1>3. rec[want[q]] = IF Readable(want[q]) THEN object[want[q]] ELSE Nothing
    BY <1>1
  <1>4. CASE kind = "created"
    <2>1. \A r \in Request : ~(ans[r].kind = "created" /\ ans[r].epoch = want[q])
      BY <1>4 DEF IInv, Winners, Silence
    <2>2. rec[want[q]] = s
      BY <1>3, <1>4 DEF Readable
    <2>3. Records!Created(q)
      BY <1>1, <1>2, <1>4, <2>1, <2>2, Zenon DEF Records!Created, Records!Reply
    <2> QED
      BY <2>3 DEF Implements, Records!Next
  <1>5. CASE kind = "exists"
    <2>1. rec[want[q]] # Nothing
      BY <1>3, <1>5, ValueAssumption DEF Readable
    <2>2. Records!Exists(q)
      BY <1>1, <1>2, <1>5, <2>1, Zenon DEF Records!Exists, Records!Reply
    <2> QED
      BY <2>2 DEF Implements, Records!Next
  <1>6. CASE kind = "shape"
    <2>1. rec[want[q]] = s
      BY <1>3, <1>6, ValueAssumption DEF Readable
    <2>2. Records!Found(q)
      BY <1>1, <1>2, <1>6, <2>1, Zenon DEF Records!Found, Records!Reply
    <2> QED
      BY <2>2 DEF Implements, Records!Next
  <1>7. CASE kind = "absent"
    <2>1. rec[want[q]] = Nothing
      BY <1>3, <1>7, ValueAssumption DEF Readable
    <2>2. Records!NotFound(q)
      BY <1>1, <1>2, <1>7, <2>1, Zenon DEF Records!NotFound, Records!Reply
    <2> QED
      BY <2>2 DEF Implements, Records!Next
  <1>8. CASE kind = "unknown"
    <2>1. Records!Unknown(q)
      BY <1>1, <1>2, <1>8, Zenon DEF Records!Unknown, Records!Reply
    <2> QED
      BY <2>1 DEF Implements, Records!Next
  <1> QED
    BY <1>4, <1>5, <1>6, <1>7, <1>8

\* A step that neither touches the bucket nor answers get or put.
LEMMA SilentImplements ==
  ASSUME IInv, UNCHANGED object,
         \/ UNCHANGED answer
         \/ \E q \in Request, kind \in {"missing", "latest", "empty"}, e \in Epoch \union {Nothing},
               s \in Shape \union {Nothing} :
               pc[q] # "end" /\ answer' = [answer EXCEPT ![q] = Told(kind, e, s)]
  PROVE  Implements
  <1>1. CASE UNCHANGED answer
    BY <1>1 DEF Implements, Mapped, Readable
  <1>2. ASSUME NEW q \in Request, NEW kind \in {"missing", "latest", "empty"},
               NEW e, NEW s, pc[q] # "end",
               answer' = [answer EXCEPT ![q] = Told(kind, e, s)]
        PROVE  UNCHANGED Mapped
    <2>1. answer[q] = Silence /\ answer'[q].kind = kind
          /\ \A r \in Request \ {q} : answer'[r] = answer[r]
      BY <1>2 DEF IInv, TypeOK, Silent, Told
    <2>2. Silence.kind = "none"
      BY DEF Silence
    <2> QED
      BY <1>2, <2>1, <2>2 DEF Mapped, Readable
  <1> QED
    BY <1>1, <1>2 DEF Implements

LEMMA GetImplements ==
  ASSUME IInv, NEW q \in Request, StartGet(q) \/ Load(q) \/ Keep(q)
  PROVE  Implements
  <1>1. CASE StartGet(q)
    <2>1. CASE memory[at[q]][want[q]] = Nothing
      BY <1>1, <2>1, SilentImplements DEF StartGet, storeVars
    <2>2. CASE memory[at[q]][want[q]] # Nothing
      <3>1. /\ memory[at[q]][want[q]] \in Shape /\ pc[q] # "end"
            /\ object[want[q]] = memory[at[q]][want[q]]
        BY <1>1, <2>2 DEF StartGet, At, IInv, TypeOK, MemoryIsDurable
      <3>2. Reply(q, "shape", memory[at[q]][want[q]]) /\ UNCHANGED object
        BY <1>1, <2>2 DEF StartGet, storeVars
      <3> QED
        BY <3>1, <3>2, ReplyImplements
    <2> QED
      BY <2>1, <2>2
  <1>2. CASE Load(q)
    <2>1. CASE Readable(want[q])
      BY <1>2, <2>1, SilentImplements DEF Load, storeVars
    <2>2. CASE ~Readable(want[q])
      BY <1>2, <2>2, ReplyImplements DEF Load, At, storeVars
    <2> QED
      BY <2>1, <2>2
  <1>3. CASE Keep(q)
    <2>1. body[q] \in Shape /\ object[want[q]] = body[q] /\ pc[q] # "end"
      BY <1>3 DEF Keep, At, IInv, Bodies, Winners
    <2> QED
      BY <1>3, <2>1, ReplyImplements DEF Keep, storeVars
  <1> QED
    BY <1>1, <1>2, <1>3

LEMMA PutStepsImplement ==
  ASSUME IInv, NEW q \in Request,
         StartPut(q) \/ Probe(q) \/ Store(q) \/ StoreRetried(q) \/ Reprobe(q)
           \/ RememberPut(q) \/ Advance(q)
  PROVE  Implements
  <1>1. CASE StartPut(q) \/ RememberPut(q)
    BY <1>1, SilentImplements DEF StartPut, RememberPut, storeVars
  <1>2. CASE Probe(q)
    <2>1. CASE object[want[q]] \in Shape /\ Reply(q, "exists", Nothing)
      BY <1>2, <2>1, ReplyImplements DEF Probe, At, storeVars, Readable
    <2>2. CASE UNCHANGED answer
      BY <1>2, <2>2, SilentImplements DEF Probe, storeVars
    <2>3. CASE Reply(q, "unknown", Nothing)
      BY <1>2, <2>3, ReplyImplements DEF Probe, At, storeVars
    <2> QED
      BY <1>2, <2>1, <2>2, <2>3 DEF Probe
  <1>3. CASE Store(q) \/ StoreRetried(q)
    <2>1. /\ want[q] \in Epoch /\ body[q] \in Shape
          /\ cond[q] \in Garbage \union {Nothing}
      BY <1>3 DEF Store, StoreRetried, At, IInv, TypeOK, Bodies
    <2>2. PutObject(want[q], cond[q], body[q]) /\ UNCHANGED answer
      BY <1>3 DEF Store, StoreRetried
    <2> QED
      BY <2>1, <2>2, PutImplements
  <1>4. CASE Reprobe(q)
    BY <1>4, ReplyImplements DEF Reprobe, At, storeVars
  <1>5. CASE Advance(q)
    <2>1. /\ pc[q] = "advance" /\ body[q] \in Shape /\ object[want[q]] = body[q]
          /\ UNCHANGED object /\ Reply(q, "created", body[q])
      BY <1>5 DEF Advance, At, IInv, Bodies, Winners, Won, storeVars
    <2>2. \A r \in Request : ~(answer[r].kind = "created" /\ want[r] = want[q])
      <3>1. answer[q].kind = "none"
        BY <2>1 DEF IInv, Silent, Silence
      <3> QED
        BY <2>1, <3>1 DEF IInv, Winners, Won
    <2> QED
      BY <2>1, <2>2, ReplyImplements
  <1> QED
    BY <1>1, <1>2, <1>3, <1>4, <1>5

LEMMA QueriesImplement ==
  ASSUME IInv, NEW q \in Request,
         StartMissing(q) \/ Scan(q) \/ ReportMissing(q)
           \/ StartLatest(q) \/ List(q) \/ Merge(q) \/ Publish(q)
  PROVE  Implements
  <1> USE DEF storeVars
  <1>1. want[q] \in Epoch /\ latest[at[q]] \in Epoch \union {Nothing}
    BY DEF IInv, TypeOK
  <1>2. CASE StartMissing(q) \/ Scan(q) \/ List(q)
    BY <1>2, SilentImplements DEF StartMissing, Scan, List
  <1>3. CASE ReportMissing(q)
    BY <1>1, <1>3, SilentImplements DEF ReportMissing, Reply, At
  <1>4. CASE StartLatest(q)
    <2>1. CASE fresh[at[q]]
      BY <1>1, <1>4, <2>1, SilentImplements DEF StartLatest, At
    <2>2. CASE ~fresh[at[q]]
      BY <1>4, <2>2, SilentImplements DEF StartLatest
    <2> QED
      BY <2>1, <2>2
  <1>5. CASE Merge(q)
    <2>1. UNCHANGED answer \/ Reply(q, "empty", Nothing)
      BY <1>5 DEF Merge
    <2> QED
      BY <1>1, <1>5, <2>1, SilentImplements DEF Merge, Reply, At
  <1>6. CASE Publish(q)
    <2>1. PICK e \in found[q] : answer' = [answer EXCEPT ![q] = Told("latest", e, Nothing)]
      BY <1>6 DEF Publish
    <2>2. e \in Epoch
      BY <2>1 DEF IInv, TypeOK
    <2> QED
      BY <1>6, <2>1, <2>2, SilentImplements DEF Publish, At
  <1> QED
    BY <1>2, <1>3, <1>4, <1>5, <1>6

LEMMA NextImplements ==
  ASSUME IInv, [Next]_vars
  PROVE  Implements
  <1>1. CASE UNCHANGED vars
    BY <1>1, SilentImplements DEF vars, storeVars, requestVars
  <1>2. ASSUME NEW q \in Request, Fails(q)
        PROVE  Implements
    BY <1>2, ReplyImplements DEF Fails
  <1>3. ASSUME NEW q \in Request, GivesUp(q)
        PROVE  Implements
    BY <1>3, SilentImplements DEF GivesUp
  <1>4. ASSUME NEW r \in Replica, LatestExpires(r) \/ Restart(r)
        PROVE  Implements
    BY <1>4, SilentImplements DEF LatestExpires, Restart, storeVars, requestVars
  <1>5. CASE LateStore
    <2>1. PICK w \in late : PutObject(w.epoch, w.cond, w.shape)
      BY <1>5 DEF LateStore
    <2>2. w.epoch \in Epoch /\ w.shape \in Shape /\ w.cond \in Garbage \union {Nothing}
      BY <2>1 DEF IInv, TypeOK
    <2> QED
      BY <1>5, <2>1, <2>2, PutImplements DEF LateStore, requestVars
  <1>6. CASE ForeignWrite
    BY <1>6, ValueAssumption
    DEF ForeignWrite, requestVars, Implements, Mapped, Readable, IInv, TypeOK
  <1> QED
    BY <1>1, <1>2, <1>3, <1>4, <1>5, <1>6, GetImplements, PutStepsImplement,
       QueriesImplement DEF Next

\* Every behaviour of the store, as its clients see it, is one of write-once
\* records with truthful answers.
THEOREM RecordsImplemented == Spec => ImplementsRecords
  <1>1. Init => Records!Init
    BY InitImplements
  <1>2. IInv /\ [Next]_vars => [Records!Next]_(Records!recordVars)
    BY NextImplements DEF Implements, Mapped, Records!recordVars
  <1> QED
    BY <1>1, <1>2, Invariance, PTL DEF Spec, ImplementsRecords, Records!Spec

-----------------------------------------------------------------------------
(* Sets of epochs and of links.                                            *)

LEMMA Least ==
  ASSUME NEW S, S \subseteq Nat, S # {}
  PROVE  Min(S) \in S /\ \A e \in S : Min(S) <= e
  <1> DEFINE R == {ss \in Nat \X Nat : ss[1] < ss[2]}
  <1>1. OpToRel(<, Nat) = R
    BY Zenon DEF OpToRel
  <1>2. IsWellFoundedOn(R, Nat)
    <2>1. IsWellFoundedOn(OpToRel(<, Nat), Nat)
      BY NatLessThanWellFounded
    <2> HIDE DEF R
    <2> QED
      BY <1>1, <2>1, Zenon
  <1>3. PICK x \in S : \A y \in S : ~(<<y, x>> \in R)
    BY <1>2, WFMin
  <1>4. \A y \in Nat : y < x => <<y, x>> \in R
    OBVIOUS
  <1>5. \A y \in S : x <= y
    <2> HIDE DEF R
    <2>1. ASSUME NEW y \in S  PROVE ~(y < x) /\ y \in Nat /\ x \in Nat
      BY <1>3, <1>4, Zenon
    <2> QED
      BY <2>1
  <1> QED
    BY <1>5 DEF Min

\* What nobody owns adds up to nothing.
LEMMA NoSum == ASSUME NEW s, NEW c, Owned(s, c) = {}  PROVE Bandwidth(s, c) = 0
  <1> DEFINE iter[t \in SUBSET {}] ==
        IF t = {} THEN 0
        ELSE LET x == CHOOSE x \in t : TRUE
             IN s.links[x].bandwidth + iter[t \ {x}]
             g == [t \in SUBSET {} |-> 0]
  <1>1. iter[{}] = 0
    <2>1. g = [t \in SUBSET {} |->
                  IF t = {} THEN 0
                  ELSE LET x == CHOOSE x \in t : TRUE
                       IN s.links[x].bandwidth + g[t \ {x}]]
      OBVIOUS
    <2>2. iter = [t \in SUBSET {} |->
                     IF t = {} THEN 0
                     ELSE LET x == CHOOSE x \in t : TRUE
                          IN s.links[x].bandwidth + iter[t \ {x}]]
      BY <2>1
    <2> QED
      BY <2>2
  <1> QED
    BY <1>1 DEF Bandwidth, MapThenSumSet, MapThenFoldSet

LEMMA Balance ==
  ASSUME NEW A, NEW B, IsFiniteSet(A), IsFiniteSet(B)
  PROVE  /\ Cardinality(B) + Cardinality(A \ B) = Cardinality(A) + Cardinality(B \ A)
         /\ Cardinality(A) \in Nat /\ Cardinality(B) \in Nat
         /\ Cardinality(A \ B) \in Nat /\ Cardinality(B \ A) \in Nat
  <1>1. A \intersect B = B \intersect A
    OBVIOUS
  <1>2. /\ Cardinality(A \ B) = Cardinality(A) - Cardinality(A \intersect B)
        /\ Cardinality(B \ A) = Cardinality(B) - Cardinality(B \intersect A)
    BY FS_Difference
  <1>3. IsFiniteSet(A \ B) /\ IsFiniteSet(B \ A) /\ IsFiniteSet(A \intersect B)
    BY FS_Difference, FS_Intersection
  <1>4. /\ Cardinality(A) \in Nat /\ Cardinality(B) \in Nat
        /\ Cardinality(A \ B) \in Nat /\ Cardinality(B \ A) \in Nat
        /\ Cardinality(A \intersect B) \in Nat
    BY <1>3, FS_CardinalityType
  <1> QED
    BY <1>1, <1>2, <1>4

-----------------------------------------------------------------------------
(* The invariant: what is kept is computed from the records.               *)

HasRecord(e) == record[e] \in DiffShapes

Typed ==
    /\ record \in [Epochs -> DiffShapes \union {NoRecord}]
    /\ span \in [from : Epochs, to : Epochs] /\ span.from # span.to
    /\ asked \in Codes \union {Network, NoAnswer}
    /\ read \in [Epochs -> DiffShapes \union {NoRecord, Unread, Failed}]
    /\ kept = [p \in Codes \union {Network} |-> kept[p]]

\* What was read of an epoch is its record.
Seen == \A e \in Epochs : read[e] \in DiffShapes => record[e] = read[e]

\* The answers, had every shape been read at once.
NetworkDiff ==
    compute_network_diff(record[span.from], record[span.to],
                         [e \in Between |-> record[e]], span.to)

ContributorDiff(c) == compute_contributor_diff(record[span.from], record[span.to], c)

Exact ==
    /\ kept[Network] # NoAnswer =>
          /\ \A e \in Ends \union Between : HasRecord(e)
          /\ kept[Network] = NetworkDiff
    /\ \A c \in Codes : kept[c] # NoAnswer =>
          /\ \A e \in Ends : HasRecord(e)
          /\ kept[c] = ContributorDiff(c)

LogInv == Typed /\ Seen /\ Exact

LEMMA InitLog == LogInit => LogInv
  <1> SUFFICES ASSUME LogInit  PROVE LogInv
    OBVIOUS
  <1>1. Typed
    BY DEF LogInit, Typed, validate_window
  <1> QED
    BY <1>1, LogAssumption DEF LogInit, LogInv, Seen, Exact

\* A record that was read stays.
LEMMA FillKeeps == ASSUME LogInv, Fill  PROVE LogInv'
  <1>1. PICK e \in Epochs, s \in DiffShapes :
            record[e] = NoRecord /\ record' = [record EXCEPT ![e] = s]
    BY DEF Fill
  <1>2. UNCHANGED <<span, asked, read, kept>>
    BY DEF Fill
  <1>3. Typed'
    BY <1>1, <1>2 DEF LogInv, Typed
  <1>4. \A d \in Epochs : HasRecord(d) => record'[d] = record[d]
    BY <1>1, LogAssumption DEF LogInv, Typed, HasRecord
  <1>5. Seen'
    BY <1>2, <1>4 DEF LogInv, Seen, HasRecord
  <1>6. Ends' = Ends /\ Between' = Between /\ Ends \union Between \subseteq Epochs
    BY <1>2 DEF Ends, Between, LogInv, Typed
  <1>7. ASSUME kept[Network] # NoAnswer
        PROVE  /\ \A d \in Ends \union Between : HasRecord(d)'
               /\ NetworkDiff' = NetworkDiff
    <2>1. \A d \in Ends \union Between : record'[d] = record[d] /\ HasRecord(d)'
      BY <1>4, <1>6, <1>7 DEF LogInv, Exact, HasRecord
    <2>2. [d \in Between |-> record[d]]' = [d \in Between |-> record[d]]
      BY <1>6, <2>1
    <2> QED
      BY <1>2, <2>1, <2>2 DEF NetworkDiff, Ends
  <1>8. ASSUME NEW c \in Codes, kept[c] # NoAnswer
        PROVE  /\ \A d \in Ends : HasRecord(d)'
               /\ ContributorDiff(c)' = ContributorDiff(c)
    <2>1. \A d \in Ends : record'[d] = record[d] /\ HasRecord(d)'
      BY <1>4, <1>6, <1>8 DEF LogInv, Exact, HasRecord
    <2> QED
      BY <1>2, <2>1 DEF ContributorDiff, Ends
  <1>9. Exact'
    BY <1>2, <1>6, <1>7, <1>8 DEF LogInv, Exact
  <1> QED
    BY <1>3, <1>5, <1>9 DEF LogInv

LEMMA ReadKeeps == ASSUME LogInv, ReadShape  PROVE LogInv'
  <1>1. PICK e \in UnderWay : \E r \in {record[e], Failed} : read' = [read EXCEPT ![e] = r]
    BY DEF ReadShape
  <1>2. UNCHANGED <<record, span, asked, kept>> /\ e \in Epochs
    BY <1>1 DEF ReadShape, UnderWay, Ends, Between, LogInv, Typed
  <1>3. Typed' /\ Seen'
    BY <1>1, <1>2, LogAssumption DEF LogInv, Typed, Seen
  <1> QED
    BY <1>2, <1>3 DEF LogInv, Exact, HasRecord, Ends, Between, NetworkDiff, ContributorDiff

\* An answer that is kept was computed from every record of the window.
LEMMA AnswerKeeps == ASSUME LogInv, Answer  PROVE LogInv'
  <1>1. /\ asked \in Codes \union {Network} /\ HasEnds
        /\ asked' = NoAnswer /\ read' = [e \in Epochs |-> Unread]
        /\ UNCHANGED <<record, span>>
    BY DEF Answer, Closes, LogInv, Typed
  <1>2. /\ \A e \in Ends : HasRecord(e) /\ record[e] = read[e]
        /\ span.from \in Ends /\ span.to \in Ends /\ Ends \subseteq Epochs
    BY <1>1 DEF HasEnds, Ends, LogInv, Typed, Seen, HasRecord
  <1>3. Typed' /\ Seen'
    BY <1>1, LogAssumption DEF Answer, LogInv, Typed, Seen
  <1>4. ASSUME asked = Network, Skipped = {}
        PROVE  /\ \A e \in Between : HasRecord(e)
               /\ Body = NetworkDiff
    <2>1. \A e \in Between : read[e] \in DiffShapes /\ record[e] = read[e]
      BY <1>4 DEF Skipped, Between, LogInv, Seen
    <2>2. {e \in Between : read[e] \in DiffShapes} = Between
      BY <2>1
    <2>3. Intermediates = [e \in Between |-> record[e]]
      BY <2>1, <2>2 DEF Intermediates
    <2> QED
      BY <1>2, <1>4, <2>1, <2>3 DEF Body, NetworkDiff, HasRecord
  <1>5. asked # Network => Body = ContributorDiff(asked)
    BY <1>2 DEF Body, ContributorDiff
  <1>6. /\ NetworkDiff' = NetworkDiff /\ \A c : ContributorDiff(c)' = ContributorDiff(c)
        /\ Ends' = Ends /\ Between' = Between /\ \A e : HasRecord(e)' <=> HasRecord(e)
    BY <1>1 DEF NetworkDiff, ContributorDiff, Ends, Between, HasRecord
  <1>7. Exact'
    <2>1. CASE asked = Network /\ Skipped # {}
      BY <1>6, <2>1 DEF Answer, LogInv, Exact
    <2>2. CASE ~(asked = Network /\ Skipped # {})
      <3>1. kept' = [kept EXCEPT ![asked] = Body]
        BY <2>2 DEF Answer
      <3>2. \A p \in Codes \union {Network} : kept'[p] = IF p = asked THEN Body ELSE kept[p]
        BY <3>1 DEF LogInv, Typed
      <3> QED
        BY <1>1, <1>2, <1>4, <1>5, <1>6, <2>2, <3>2, LogAssumption DEF LogInv, Exact
    <2> QED
      BY <2>1, <2>2
  <1> QED
    BY <1>3, <1>7 DEF LogInv

LEMMA LogInvariance == LogSpec => []LogInv
  <1>1. LogInv /\ [LogNext]_logVars => LogInv'
    <2> SUFFICES ASSUME LogInv, [LogNext]_logVars  PROVE LogInv'
      OBVIOUS
    <2>1. ASSUME NEW p \in Codes \union {Network}, Ask(p)  PROVE LogInv'
      BY <2>1
      DEF Ask, LogInv, Typed, Seen, Exact, HasRecord, Ends, Between, NetworkDiff, ContributorDiff
    <2>2. CASE Refuse
      <3>1. Typed' /\ Seen'
        BY <2>2, LogAssumption DEF Refuse, Closes, LogInv, Typed, Seen
      <3> QED
        BY <2>2, <3>1
        DEF Refuse, LogInv, Exact, HasRecord, Ends, Between, NetworkDiff, ContributorDiff
    <2>3. CASE UNCHANGED logVars
      BY <2>3 DEF logVars, LogInv, Typed, Seen, Exact, HasRecord, Ends, Between, NetworkDiff,
         ContributorDiff
    <2> QED
      BY <2>1, <2>2, <2>3, FillKeeps, ReadKeeps, AnswerKeeps DEF LogNext
  <1> QED
    BY <1>1, InitLog, PTL DEF LogSpec

-----------------------------------------------------------------------------
(* The dates.                                                              *)

\* The first epoch that shows an entry, or the last of the window.
LEMMA Dated ==
  ASSUME Typed, NEW shows, shows \subseteq Between
  PROVE  /\ FirstOf(shows, span.to) \in shows \/ FirstOf(shows, span.to) = span.to
         /\ \A e \in Between : e < FirstOf(shows, span.to) => e \notin shows
  <1>1. CASE shows = {}
    BY <1>1 DEF FirstOf
  <1>2. CASE shows # {}
    <2>1. shows \subseteq Nat
      BY LogAssumption DEF Between
    <2>2. Min(shows) \in shows /\ \A e \in shows : Min(shows) <= e
      BY <1>2, <2>1, Least
    <2>3. FirstOf(shows, span.to) = Min(shows) /\ Min(shows) \in Nat
      BY <1>2, <2>1, <2>2 DEF FirstOf
    <2>4. ASSUME NEW e \in shows, e < Min(shows)  PROVE FALSE
      BY <2>1, <2>2, <2>3, <2>4
    <2> QED
      BY <2>2, <2>3, <2>4
  <1> QED
    BY <1>1, <1>2

\* An entry that its last epoch shows, and that names the first to show it.
LEMMA Timely ==
  ASSUME Typed, \A e \in Ends \union Between : HasRecord(e),
         NEW Shows, Shows \subseteq Epochs, span.to \in Shows,
         NEW first, first = FirstOf({e \in Between : e \in Shows}, span.to)
  PROVE  /\ record[first] # NoRecord /\ first \in Shows
         /\ \A e \in Epochs : span.from < e /\ e < first => record[e] # NoRecord /\ e \notin Shows
  <1> DEFINE shows == {e \in Between : e \in Shows}
  <1>1. /\ first \in shows \/ first = span.to
        /\ \A e \in Between : e < first => e \notin shows
    BY Dated
  <1>2. first \in Ends \union Between /\ first \in Shows
    BY <1>1 DEF Ends
  <1>3. \A e \in Between : e <= span.to /\ e \in Nat
    BY LogAssumption DEF Between, Typed
  <1>4. first \in Nat /\ span.to \in Nat /\ span.from \in Nat /\ first <= span.to
    BY <1>1, <1>3, LogAssumption DEF Typed
  <1>5. ASSUME NEW e \in Epochs, span.from < e, e < first  PROVE e \in Between /\ e \notin shows
    BY <1>1, <1>4, <1>5, LogAssumption DEF Between
  <1> QED
    BY <1>2, <1>5, LogAssumption DEF HasRecord

LEMMA ExactDates == LogInv => KeptIsExact
  <1> SUFFICES ASSUME LogInv, kept[Network] # NoAnswer,
                      NEW kind \in {"added", "removed", "changed"}, NEW x \in kept[Network][kind]
               PROVE  /\ record[x.first] # NoRecord /\ IsTrue(kind, x, record[x.first])
                      /\ \A e \in Epochs : span.from < e /\ e < x.first =>
                            record[e] # NoRecord /\ ~IsTrue(kind, x, record[e])
    BY DEF KeptIsExact
  <1> DEFINE b == record[span.from]
             a == record[span.to]
             between == [e \in Between |-> record[e]]
             Shows == {e \in Epochs : IsTrue(kind, x, record[e])}
  <1>1. /\ Typed /\ \A e \in Ends \union Between : HasRecord(e)
        /\ kept[Network] = compute_network_diff(b, a, between, span.to)
    BY DEF LogInv, Exact, NetworkDiff
  <1>2. span.to \in Epochs /\ Between \subseteq Epochs
    BY <1>1 DEF Typed, Between
  <1>3. x.first = FirstOf({e \in Between : e \in Shows}, span.to) /\ span.to \in Shows
    <2>1. CASE kind = "added"
      <3>1. x \in AddedIn(b, a, between, span.to)
        BY <1>1, <2>1 DEF compute_network_diff
      <3>2. PICK l \in Links(a) \ Links(b) :
                x = [link |-> l, owner |-> a.links[l].owner,
                     first |-> FirstOf({e \in DOMAIN between : l \in Links(between[e])}, span.to)]
        BY <3>1 DEF AddedIn
      <3>3. {e \in DOMAIN between : l \in Links(between[e])} = {e \in Between : e \in Shows}
        BY <1>2, <2>1, <3>2 DEF IsTrue
      <3> QED
        BY <1>2, <2>1, <3>2, <3>3 DEF IsTrue
    <2>2. CASE kind = "removed"
      <3>1. x \in RemovedIn(b, a, between, span.to)
        BY <1>1, <2>2 DEF compute_network_diff
      <3>2. PICK l \in Links(b) \ Links(a) :
                x = [link |-> l, owner |-> b.links[l].owner,
                     first |-> FirstOf({e \in DOMAIN between : l \notin Links(between[e])}, span.to)]
        BY <3>1 DEF RemovedIn
      <3>3. {e \in DOMAIN between : l \notin Links(between[e])} = {e \in Between : e \in Shows}
        BY <1>2, <2>2, <3>2 DEF IsTrue
      <3> QED
        BY <1>2, <2>2, <3>2, <3>3 DEF IsTrue
    <2>3. CASE kind = "changed"
      <3>1. x \in ChangedIn(b, a, between, span.to)
        BY <1>1, <2>3 DEF compute_network_diff
      <3>2. PICK l \in Links(b) \intersect Links(a), f \in Fields :
                x = [link |-> l, field |-> f, owner |-> a.links[l].owner,
                     first |-> FirstOf({e \in DOMAIN between :
                                           Carries(between[e], l, f, a.links[l][f])}, span.to)]
        BY <3>1 DEF ChangedIn
      <3>3. {e \in DOMAIN between : Carries(between[e], l, f, a.links[l][f])}
              = {e \in Between : e \in Shows}
        BY <1>2, <2>3, <3>2 DEF IsTrue
      <3>4. span.to \in Shows
        BY <1>2, <2>3, <3>2 DEF IsTrue, Carries
      <3> QED
        BY <3>2, <3>3, <3>4
    <2> QED
      BY <2>1, <2>2, <2>3
  <1>4. Shows \subseteq Epochs
    OBVIOUS
  <1>5. /\ record[x.first] # NoRecord /\ x.first \in Shows
        /\ \A e \in Epochs : span.from < e /\ e < x.first => record[e] # NoRecord /\ e \notin Shows
    <2> HIDE DEF Shows
    <2> QED
      BY <1>1, <1>3, <1>4, Timely
  <1> QED
    BY <1>5

\* What the CDN keeps of the network names, for every entry, the first epoch of the
\* window that shows it: an answer that lacked an epoch was marked degraded.
THEOREM DatesCorrect == LogSpec => []KeptIsExact
  BY LogInvariance, ExactDates, PTL

-----------------------------------------------------------------------------
(* The two pages.                                                          *)

\* Nobody is called "unknown", so whoever is not listed owns nothing.
LEMMA Unlisted ==
  ASSUME NEW s \in DiffShapes, NEW c, c # "unknown"
  PROVE  /\ ~Listed(s, c) => Owned(s, c) = {} /\ Bandwidth(s, c) = 0
         /\ LinkCount(s, c) = Cardinality(Owned(s, c))
         /\ IsFiniteSet(Links(s)) /\ IsFiniteSet(Owned(s, c))
  <1>1. ~Listed(s, c) => Owned(s, c) = {}
    BY ShapeAssumption DEF Listed, Owned, Links
  <1>2. IsFiniteSet(Links(s)) /\ IsFiniteSet(Owned(s, c))
    BY ShapeAssumption, FS_Subset DEF Owned, Links
  <1> QED
    BY <1>1, <1>2, NoSum, FS_EmptySet DEF LinkCount

\* A set with at most one member for each of finitely many things is finite, so
\* that no member means a count of zero.
LEMMA Counted ==
  ASSUME NEW S, NEW T, IsFiniteSet(S), NEW f \in [S -> T],
         NEW X, \A x \in X : \E s \in S : x = f[s]
  PROVE  IsFiniteSet(X) /\ (X # {} => Cardinality(X) > 0)
  <1> DEFINE U == {f[s] : s \in S}
  <1>1. [s \in S |-> f[s]] \in Surjection(S, U)
    BY DEF Surjection
  <1>2. IsFiniteSet(U)
    BY <1>1, FS_Surjection
  <1>3. X \subseteq U
    OBVIOUS
  <1>4. IsFiniteSet(X)
    BY <1>2, <1>3, FS_Subset
  <1> QED
    BY <1>4, FS_EmptySet, FS_CardinalityType

\* The links of the entries of one owner.
LEMMA AddedLinks ==
  ASSUME NEW b, NEW a, NEW between, NEW to, NEW c
  PROVE  LinksOf(Of(c, AddedIn(b, a, between, to))) = Owned(a, c) \ Links(b)
  <1> DEFINE entry(l) ==
        [link |-> l, owner |-> a.links[l].owner,
         first |-> FirstOf({e \in DOMAIN between : l \in Links(between[e])}, to)]
  <1>1. AddedIn(b, a, between, to) = {entry(l) : l \in Links(a) \ Links(b)}
    BY DEF AddedIn
  <1>2. \A l : entry(l).link = l /\ entry(l).owner = a.links[l].owner
    OBVIOUS
  <1> HIDE DEF entry
  <1> QED
    BY <1>1, <1>2 DEF LinksOf, Of, Owned

LEMMA RemovedLinks ==
  ASSUME NEW b, NEW a, NEW between, NEW to, NEW c
  PROVE  LinksOf(Of(c, RemovedIn(b, a, between, to))) = Owned(b, c) \ Links(a)
  <1> DEFINE entry(l) ==
        [link |-> l, owner |-> b.links[l].owner,
         first |-> FirstOf({e \in DOMAIN between : l \notin Links(between[e])}, to)]
  <1>1. RemovedIn(b, a, between, to) = {entry(l) : l \in Links(b) \ Links(a)}
    BY DEF RemovedIn
  <1>2. \A l : entry(l).link = l /\ entry(l).owner = b.links[l].owner
    OBVIOUS
  <1> HIDE DEF entry
  <1> QED
    BY <1>1, <1>2 DEF LinksOf, Of, Owned

LEMMA ChangedLinks ==
  ASSUME NEW b, NEW a, NEW between, NEW to, NEW c, NEW F,
         NEW all, all = ChangedIn(b, a, between, to)
  PROVE  LinksOf({x \in Of(c, all) : x.field \in F})
            = {l \in Links(b) \intersect Owned(a, c) :
                  \E f \in Fields \intersect F : Differs(b, a, l, f)}
  <1> DEFINE entry(l, f) ==
        [link |-> l, field |-> f, owner |-> a.links[l].owner,
         first |-> FirstOf({e \in DOMAIN between :
                               Carries(between[e], l, f, a.links[l][f])}, to)]
  <1>1. \A x : x \in all <=> \E l \in Links(b) \intersect Links(a) :
                              \E f \in {g \in Fields : Differs(b, a, l, g)} : x = entry(l, f)
    BY DEF ChangedIn
  <1>2. \A l, f : /\ entry(l, f).link = l /\ entry(l, f).field = f
                  /\ entry(l, f).owner = a.links[l].owner
    OBVIOUS
  <1> HIDE DEF entry
  <1>3. ASSUME NEW l, l \in LinksOf({x \in Of(c, all) : x.field \in F})
        PROVE  /\ l \in Links(b) \intersect Owned(a, c)
               /\ \E f \in Fields \intersect F : Differs(b, a, l, f)
    <2>1. PICK x \in all : x.owner = c /\ x.field \in F /\ x.link = l
      BY <1>3 DEF LinksOf, Of
    <2>2. PICK m \in Links(b) \intersect Links(a), f \in Fields :
              Differs(b, a, m, f) /\ x = entry(m, f)
      BY <1>1
    <2> QED
      BY <1>2, <2>1, <2>2 DEF Owned
  <1>4. ASSUME NEW l \in Links(b) \intersect Owned(a, c), NEW f \in Fields \intersect F,
               Differs(b, a, l, f)
        PROVE  l \in LinksOf({x \in Of(c, all) : x.field \in F})
    <2>1. entry(l, f) \in all
      BY <1>1, <1>4 DEF Owned
    <2>2. entry(l, f) \in {x \in Of(c, all) : x.field \in F}
      BY <1>2, <1>4, <2>1 DEF Of, Owned
    <2> QED
      BY <1>2, <2>2 DEF LinksOf
  <1> QED
    BY <1>3, <1>4

\* An owner with entries counts some.
LEMMA EntriesCount ==
  ASSUME NEW b \in DiffShapes, NEW a \in DiffShapes, NEW between, NEW to, NEW c,
         NEW X \in {AddedIn(b, a, between, to), RemovedIn(b, a, between, to),
                    ChangedIn(b, a, between, to)},
         ~(Cardinality(Of(c, X)) > 0)
  PROVE  Of(c, X) = {}
  <1>1. IsFiniteSet(Links(a)) /\ IsFiniteSet(Links(b))
    BY ShapeAssumption DEF Links
  <1>2. CASE X = AddedIn(b, a, between, to)
    <2> DEFINE f == [l \in Links(a) |-> [link |-> l, owner |-> a.links[l].owner,
         first |-> FirstOf({e \in DOMAIN between : l \in Links(between[e])}, to)]]
    <2>1. \A x \in Of(c, X) : \E l \in Links(a) : x = f[l]
      BY <1>2 DEF AddedIn, Of
    <2>2. f \in [Links(a) -> {f[l] : l \in Links(a)}]
      OBVIOUS
    <2> HIDE DEF f
    <2> QED
      BY <1>1, <2>1, <2>2, Counted
  <1>3. CASE X = RemovedIn(b, a, between, to)
    <2> DEFINE f == [l \in Links(b) |-> [link |-> l, owner |-> b.links[l].owner,
         first |-> FirstOf({e \in DOMAIN between : l \notin Links(between[e])}, to)]]
    <2>1. \A x \in Of(c, X) : \E l \in Links(b) : x = f[l]
      BY <1>3 DEF RemovedIn, Of
    <2>2. f \in [Links(b) -> {f[l] : l \in Links(b)}]
      OBVIOUS
    <2> HIDE DEF f
    <2> QED
      BY <1>1, <2>1, <2>2, Counted
  <1>4. CASE X = ChangedIn(b, a, between, to)
    <2> DEFINE S == Links(a) \X Fields
               f == [p \in S |-> [link |-> p[1], field |-> p[2], owner |-> a.links[p[1]].owner,
                       first |-> FirstOf({e \in DOMAIN between :
                           Carries(between[e], p[1], p[2], a.links[p[1]][p[2]])}, to)]]
    <2>1. ASSUME NEW x \in Of(c, X)  PROVE \E p \in S : x = f[p]
      <3>1. PICK l \in Links(b) \intersect Links(a), g \in Fields :
              x = [link |-> l, field |-> g, owner |-> a.links[l].owner,
                   first |-> FirstOf({e \in DOMAIN between :
                                         Carries(between[e], l, g, a.links[l][g])}, to)]
        BY <1>4 DEF ChangedIn, Of
      <3>2. <<l, g>> \in S /\ x = f[<<l, g>>]
        BY <3>1
      <3> QED
        BY <3>2
    <2>2. f \in [S -> {f[p] : p \in S}]
      OBVIOUS
    <2>3. IsFiniteSet(Fields)
      <3>1. IsFiniteSet({"bandwidth"})
        BY FS_Singleton
      <3>2. IsFiniteSet({"bandwidth"} \union {"kind"})
        BY <3>1, FS_AddElement
      <3>3. IsFiniteSet(({"bandwidth"} \union {"kind"}) \union {"ends"})
        BY <3>2, FS_AddElement
      <3>4. Fields = ({"bandwidth"} \union {"kind"}) \union {"ends"}
        BY DEF Fields
      <3> QED
        BY <3>3, <3>4
    <2>4. IsFiniteSet(S)
      BY <1>1, <2>3, FS_Product
    <2> HIDE DEF f, S
    <2> QED
      BY <2>1, <2>2, <2>4, Counted
  <1> QED
    BY <1>2, <1>3, <1>4

LEMMA SamePages == LogInv => PagesAgree
  <1> SUFFICES ASSUME LogInv, NEW c \in Codes, kept[c] # NoAnswer,
                      \E e \in Ends : Listed(record[e], c)
               PROVE  LET mine == kept[c]
                          all == kept[Network]
                      IN  /\ mine.links[1] + Cardinality(mine.added)
                                = mine.links[2] + Cardinality(mine.removed)
                          /\ all # NoAnswer =>
                                /\ LinksOf(Of(c, all.added)) = mine.added \ HandedOver(c)
                                /\ LinksOf(Of(c, all.removed)) = mine.removed \ HandedOver(c)
                                /\ mine.changed =
                                      LinksOf({x \in Of(c, all.changed) : x.field # "ends"})
                                         \ HandedOver(c)
                                /\ \A r \in RowOf(c) :
                                      r.links = mine.links /\ r.bandwidth = mine.bandwidth
                                /\ RowOf(c) = {} =>
                                      /\ mine.added \union mine.removed \subseteq HandedOver(c)
                                      /\ mine.changed = {}
    BY DEF PagesAgree
  <1> DEFINE b == record[span.from]
             a == record[span.to]
             between == [e \in Between |-> record[e]]
             mine == kept[c]
             all == kept[Network]
             added == AddedIn(b, a, between, span.to)
             removed == RemovedIn(b, a, between, span.to)
             changed == ChangedIn(b, a, between, span.to)
  <1>1. /\ b \in DiffShapes /\ a \in DiffShapes
        /\ (Listed(b, c) \/ Listed(a, c))
        /\ mine = compute_contributor_diff(b, a, c)
    BY DEF LogInv, Exact, Ends, HasRecord, ContributorDiff
  <1>2. c # "unknown"
    BY <1>1, ShapeAssumption DEF Listed
  <1>3. /\ mine.added = Owned(a, c) \ Owned(b, c)
        /\ mine.removed = Owned(b, c) \ Owned(a, c)
        /\ mine.changed = {l \in Owned(a, c) \intersect Owned(b, c) :
                              Differs(b, a, l, "bandwidth") \/ Differs(b, a, l, "kind")}
        /\ mine.links = <<LinkCount(b, c), LinkCount(a, c)>>
        /\ mine.bandwidth = <<Bandwidth(b, c), Bandwidth(a, c)>>
    BY <1>1 DEF compute_contributor_diff, BeforeLinks
  <1>4. mine.links[1] + Cardinality(mine.added) = mine.links[2] + Cardinality(mine.removed)
    <2>1. /\ LinkCount(b, c) = Cardinality(Owned(b, c)) /\ IsFiniteSet(Owned(b, c))
          /\ LinkCount(a, c) = Cardinality(Owned(a, c)) /\ IsFiniteSet(Owned(a, c))
      BY <1>1, <1>2, Unlisted
    <2>2. mine.links[1] = Cardinality(Owned(b, c)) /\ mine.links[2] = Cardinality(Owned(a, c))
      BY <1>3, <2>1
    <2> QED
      BY <1>3, <2>1, <2>2, Balance
  <1>5. ASSUME all # NoAnswer
        PROVE  /\ all.added = added /\ all.removed = removed /\ all.changed = changed
               /\ all.contributors = {r \in {Row(b, a, d, added, removed, changed) :
                                                d \in b.codes \union a.codes} : Active(r)}
    BY <1>5 DEF LogInv, Exact, NetworkDiff, compute_network_diff
  <1>6. HandedOver(c) = (Links(b) \intersect Links(a))
           \intersect ((Owned(b, c) \ Owned(a, c)) \union (Owned(a, c) \ Owned(b, c)))
    BY DEF HandedOver
  <1>7. /\ LinksOf(Of(c, added)) = Owned(a, c) \ Links(b)
        /\ LinksOf(Of(c, removed)) = Owned(b, c) \ Links(a)
    BY AddedLinks, RemovedLinks
  <1>8. LinksOf({x \in Of(c, changed) : x.field # "ends"})
          = {l \in Links(b) \intersect Owned(a, c) :
                Differs(b, a, l, "bandwidth") \/ Differs(b, a, l, "kind")}
    <2>1. ASSUME NEW x \in Of(c, changed)  PROVE x.field \in Fields
      <3>1. PICK l \in Links(b) \intersect Links(a), g \in Fields :
              x = [link |-> l, field |-> g, owner |-> a.links[l].owner,
                   first |-> FirstOf({e \in DOMAIN between :
                       Carries(between[e], l, g, a.links[l][g])}, span.to)]
        BY DEF ChangedIn, Of
      <3> QED
        BY <3>1
    <2>2. {x \in Of(c, changed) : x.field # "ends"}
            = {x \in Of(c, changed) : x.field \in {"bandwidth", "kind"}}
      BY <2>1 DEF Fields
    <2>3. Fields \intersect {"bandwidth", "kind"} = {"bandwidth", "kind"}
      BY DEF Fields
    <2>4. LinksOf({x \in Of(c, changed) : x.field \in {"bandwidth", "kind"}})
            = {l \in Links(b) \intersect Owned(a, c) :
                  \E f \in Fields \intersect {"bandwidth", "kind"} : Differs(b, a, l, f)}
      <3> DEFINE to == span.to  F == {"bandwidth", "kind"}
      <3>1. changed = ChangedIn(b, a, between, to)
        OBVIOUS
      <3> HIDE DEF changed, b, a, between, to, F
      <3>2. LinksOf({x \in Of(c, changed) : x.field \in F})
              = {l \in Links(b) \intersect Owned(a, c) :
                    \E f \in Fields \intersect F : Differs(b, a, l, f)}
        BY <3>1, ChangedLinks
      <3> QED
        BY <3>2, Zenon DEF F
    <2> HIDE DEF changed, b, a
    <2>5. \A l : (\E f \in Fields \intersect {"bandwidth", "kind"} : Differs(b, a, l, f))
                  <=> Differs(b, a, l, "bandwidth") \/ Differs(b, a, l, "kind")
      BY <2>3
    <2>6. LinksOf({x \in Of(c, changed) : x.field # "ends"})
            = LinksOf({x \in Of(c, changed) : x.field \in {"bandwidth", "kind"}})
      BY <2>2
    <2> QED
      BY <2>4, <2>5, <2>6
  <1>9. ASSUME all # NoAnswer, NEW r \in RowOf(c)
         PROVE  r.links = mine.links /\ r.bandwidth = mine.bandwidth
    <2>1. PICK d \in b.codes \union a.codes : r = Row(b, a, d, added, removed, changed)
      BY <1>5, <1>9 DEF RowOf
    <2>2. d = c
      BY <1>9, <2>1 DEF RowOf, Row
    <2> QED
      BY <1>1, <1>2, <1>3, <2>1, <2>2, Unlisted DEF Row
  <1>10. ASSUME all # NoAnswer, RowOf(c) = {}
         PROVE  /\ mine.added \union mine.removed \subseteq HandedOver(c)
                /\ mine.changed = {}
    <2> DEFINE row == Row(b, a, c, added, removed, changed)
    <2>1. ~Active(row)
      <3>1. row.code = c /\ c \in b.codes \union a.codes
        BY <1>1 DEF Row, Listed
      <3> QED
        BY <1>5, <1>10, <3>1 DEF RowOf
    <2>2. /\ ~(Cardinality(Of(c, added)) > 0) /\ ~(Cardinality(Of(c, removed)) > 0)
          /\ ~(Cardinality(Of(c, changed)) > 0)
      BY <2>1 DEF Active, Row
    <2>3. Of(c, added) = {} /\ Of(c, removed) = {} /\ Of(c, changed) = {}
      BY <1>1, <2>2, EntriesCount
    <2>4. /\ LinksOf(Of(c, added)) = {} /\ LinksOf(Of(c, removed)) = {}
          /\ LinksOf({x \in Of(c, changed) : x.field # "ends"}) = {}
      BY <2>3 DEF LinksOf
    <2> HIDE DEF added, removed, changed, b, a, mine, all
    <2> QED
      BY <1>3, <1>6, <1>7, <1>8, <2>4 DEF Owned
  <1>11. all # NoAnswer =>
            /\ LinksOf(Of(c, all.added)) = mine.added \ HandedOver(c)
            /\ LinksOf(Of(c, all.removed)) = mine.removed \ HandedOver(c)
            /\ mine.changed = LinksOf({x \in Of(c, all.changed) : x.field # "ends"})
                                  \ HandedOver(c)
    <2> HIDE DEF added, removed, changed, b, a, mine, all
    <2> QED
      BY <1>3, <1>5, <1>6, <1>7, <1>8 DEF Owned
  <1> QED
    BY <1>4, <1>9, <1>10, <1>11

\* The page of a contributor and the network's agree on their links, their counts and
\* their row, although each is computed apart from records read at different times.
THEOREM PagesCorrect == LogSpec => []PagesAgree
  BY LogInvariance, SamePages, PTL
=============================================================================
