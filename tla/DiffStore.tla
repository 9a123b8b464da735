----------------------------- MODULE DiffStore -----------------------------
(***************************************************************************)
(* The per-epoch diff shapes (diff_store.rs): S3 objects written under a   *)
(* precondition, the memory of each service process above them, and the    *)
(* queries the ingest cron and the changelog put to them.                  *)
(*                                                                         *)
(* pc[q] names the next step of request q:                                 *)
(*   new                                                                   *)
(*   load, keep                      get                                   *)
(*   probe, store, reprobe, remember, advance       put                    *)
(*   scan                            missing_epochs                        *)
(*   list, merge, publish            latest_epoch                          *)
(*   end                             answered, or dropped by its client    *)
(*                                                                         *)
(* An object is a shape, bytes that are no shape of its epoch (Garbage),   *)
(* or Nothing; its ETag stands for its bytes.  A readable object may lose  *)
(* to nothing but the code under study: only absent or corrupt objects are *)
(* ever changed from outside.                                              *)
(***************************************************************************)
EXTENDS Integers, FiniteSets

CONSTANTS
    Replica,        \* service processes over one bucket
    Request,
    Epoch,
    Shape, Garbage, Nothing,
    Ops,            \* the requests there are: "get", "put", "missing", "latest"
    Concurrency,    \* MISSING_READ_CONCURRENCY
    MaxMishap       \* failed calls, lost requests, restarts and foreign writes

ASSUME EpochAssumption == Epoch \subseteq Nat /\ IsFiniteSet(Epoch)

ASSUME ValueAssumption ==
    /\ Shape \intersect Garbage = {}
    /\ Nothing \notin Shape \union Garbage \union Nat

ASSUME BoundAssumption == Concurrency \in Nat \ {0} /\ MaxMishap \in Nat

VARIABLES
    object,         \* the bucket
    late,           \* writes whose caller gave up on them
    memory,         \* shapes of each process
    latest, fresh,  \* its cached latest epoch, and whether within its TTL
    pc,
    at,             \* the process that handles a request
    want,           \* its epoch; the newest of the window for missing_epochs
    body,           \* the shape to put, or the one got
    cond,           \* ShapeWriteCondition: the ETag to match, Nothing for Absent
    window, joined, \* epochs of a missing query, and those it has read
    found,          \* epochs a query has found
    answer,
    mishaps

storeVars == <<object, late>>
processVars == <<memory, latest, fresh>>
requestVars == <<pc, at, want, body, cond, window, joined, found, answer>>
vars == <<storeVars, processVars, requestVars, mishaps>>

Readable(e) == object[e] \in Shape

Told(kind, e, s) == [kind |-> kind, epoch |-> e, shape |-> s]
Silence == [kind |-> "none", epoch |-> Nothing, shape |-> Nothing]

Pc == {"new", "load", "keep", "probe", "store", "reprobe", "remember",
       "advance", "scan", "list", "merge", "publish", "end"}

TypeOK ==
    /\ object \in [Epoch -> Shape \union Garbage \union {Nothing}]
    /\ late \subseteq
          [epoch : Epoch, shape : Shape, cond : Garbage \union {Nothing}]
    /\ memory \in [Replica -> [Epoch -> Shape \union {Nothing}]]
    /\ latest \in [Replica -> Epoch \union {Nothing}]
    /\ fresh \in [Replica -> BOOLEAN]
    /\ pc \in [Request -> Pc]
    /\ at \in [Request -> Replica]
    /\ want \in [Request -> Epoch]
    /\ body \in [Request -> Shape \union {Nothing}]
    /\ cond \in [Request -> Garbage \union {Nothing}]
    /\ window \in [Request -> SUBSET Epoch] /\ joined \in [Request -> SUBSET Epoch]
    /\ found \in [Request -> SUBSET Epoch]
    /\ answer \in [Request ->
          [kind : {"none", "created", "exists", "shape", "absent", "unknown",
                   "missing", "latest", "empty"},
           epoch : Epoch \union {Nothing}, shape : Shape \union {Nothing}]]
    /\ mishaps \in 0..MaxMishap

Init ==
    /\ object \in [Epoch -> Shape \union Garbage \union {Nothing}]
    /\ late = {}
    /\ memory = [r \in Replica |-> [e \in Epoch |-> Nothing]]
    /\ latest = [r \in Replica |-> Nothing] /\ fresh = [r \in Replica |-> FALSE]
    /\ pc = [q \in Request |-> "new"]
    /\ at \in [Request -> Replica] /\ want \in [Request -> Epoch]
    /\ body = [q \in Request |-> Nothing] /\ cond = [q \in Request |-> Nothing]
    /\ window = [q \in Request |-> {}] /\ joined = [q \in Request |-> {}]
    /\ found = [q \in Request |-> {}]
    /\ answer = [q \in Request |-> Silence]
    /\ mishaps = 0

At(q, where) == pc[q] = where
Goto(q, where) == pc' = [pc EXCEPT ![q] = where]

Mishap ==
    /\ mishaps < MaxMishap
    /\ mishaps' = mishaps + 1

Reply(q, kind, s) ==
    /\ answer' = [answer EXCEPT ![q] = Told(kind, want[q], s)]
    /\ Goto(q, "end")

Remember(q) ==
    memory' = [memory EXCEPT ![at[q]][want[q]] = body[q]]

-----------------------------------------------------------------------------
(* get: memory first; a record found in the bucket is kept.                *)

StartGet(q) ==
    /\ At(q, "new") /\ "get" \in Ops
    /\ LET s == memory[at[q]][want[q]]
       IN  IF s = Nothing THEN Goto(q, "load") /\ UNCHANGED answer
                          ELSE Reply(q, "shape", s)
    /\ UNCHANGED <<storeVars, processVars, at, want, body, cond, window, joined, found, mishaps>>

Load(q) ==
    /\ At(q, "load")
    /\ IF Readable(want[q])
       THEN /\ body' = [body EXCEPT ![q] = object[want[q]]]
            /\ Goto(q, "keep") /\ UNCHANGED answer
       ELSE Reply(q, "absent", Nothing) /\ UNCHANGED body
    /\ UNCHANGED <<storeVars, processVars, at, want, cond, window, joined, found, mishaps>>

Keep(q) ==
    /\ At(q, "keep")
    /\ Remember(q)
    /\ Reply(q, "shape", body[q])
    /\ UNCHANGED <<storeVars, latest, fresh, at, want, body, cond, window, joined, found, mishaps>>

-----------------------------------------------------------------------------
(* put: read, then write under the precondition that read established.     *)

\* Variant: the latest epoch advances before the write.
StartPutEager(q) ==
    /\ At(q, "new") /\ "put" \in Ops
    /\ \E s \in Shape : body' = [body EXCEPT ![q] = s]
    /\ Goto(q, "probe")
    /\ latest' = [latest EXCEPT ![at[q]] = want[q]]
    /\ fresh' = [fresh EXCEPT ![at[q]] = TRUE]
    /\ UNCHANGED <<storeVars, memory, at, want, cond, window, joined, found, answer, mishaps>>

StartPut(q) ==
    /\ At(q, "new") /\ "put" \in Ops
    /\ \E s \in Shape : body' = [body EXCEPT ![q] = s]
    /\ Goto(q, "probe")
    /\ UNCHANGED <<storeVars, processVars, at, want, cond, window, joined, found, answer, mishaps>>

\* Corrupt bytes may come without an ETag; they are then left alone.
Probe(q) ==
    /\ At(q, "probe")
    /\ LET o == object[want[q]]
       IN  \/ /\ o \in Shape
              /\ Reply(q, "exists", Nothing) /\ UNCHANGED cond
           \/ /\ o \notin Shape
              /\ cond' = [cond EXCEPT ![q] = o]
              /\ Goto(q, "store") /\ UNCHANGED answer
           \/ /\ o \in Garbage
              /\ Reply(q, "unknown", Nothing) /\ UNCHANGED cond
    /\ UNCHANGED <<storeVars, processVars, at, want, body, window, joined, found, mishaps>>

Holds(e, c) == object[e] = c

\* Variant: a PUT without a precondition.
PutAlways(e, c, s) == object' = [object EXCEPT ![e] = s]

\* If-None-Match: * or If-Match.
PutObject(e, c, s) ==
    object' = IF Holds(e, c) THEN [object EXCEPT ![e] = s] ELSE object

Store(q) ==
    /\ At(q, "store")
    /\ PutObject(want[q], cond[q], body[q])
    /\ Goto(q, IF Holds(want[q], cond[q]) THEN "remember" ELSE "reprobe")
    /\ UNCHANGED <<late, processVars, at, want, body, cond, window, joined, found, answer, mishaps>>

\* Variant: a 412 is taken for a conflict.
ReprobeTrusting(q) ==
    /\ At(q, "reprobe")
    /\ Reply(q, "exists", Nothing)
    /\ UNCHANGED <<storeVars, processVars, at, want, body, cond, window, joined, found, mishaps>>

\* 412: a conflict only when the winner can be read.
Reprobe(q) ==
    /\ At(q, "reprobe")
    /\ Reply(q, IF Readable(want[q]) THEN "exists" ELSE "unknown", Nothing)
    /\ UNCHANGED <<storeVars, processVars, at, want, body, cond, window, joined, found, mishaps>>

RememberPut(q) ==
    /\ At(q, "remember")
    /\ Remember(q)
    /\ Goto(q, "advance")
    /\ UNCHANGED <<storeVars, latest, fresh, at, want, body, cond, window, joined, found, answer, mishaps>>

AdvanceLatest(q) ==
    LET r == at[q]
    IN  IF latest[r] # Nothing /\ latest[r] >= want[q]
        THEN UNCHANGED <<latest, fresh>>
        ELSE /\ latest' = [latest EXCEPT ![r] = want[q]]
             /\ fresh' = [fresh EXCEPT ![r] = TRUE]

Advance(q) ==
    /\ At(q, "advance")
    /\ AdvanceLatest(q)
    /\ Reply(q, "created", body[q])
    /\ UNCHANGED <<storeVars, memory, at, want, body, cond, window, joined, found, mishaps>>

-----------------------------------------------------------------------------
(* missing_epochs: up to Concurrency reads at a time, spawned in ascending *)
(* order.                                                                  *)

StartMissing(q) ==
    /\ At(q, "new") /\ "missing" \in Ops
    /\ \E oldest \in Epoch :
          window' = [window EXCEPT ![q] = {e \in Epoch : oldest <= e /\ e <= want[q]}]
    /\ Goto(q, "scan")
    /\ UNCHANGED <<storeVars, processVars, at, want, body, cond, joined, found, answer, mishaps>>

Spawned(q) ==
    LET left == window[q] \ joined[q]
    IN  {e \in left : Cardinality({d \in left : d < e}) < Concurrency}

\* Variant: an epoch is present when its key is.
ScanKeys(q) ==
    /\ At(q, "scan")
    /\ \E e \in Spawned(q) :
          /\ joined' = [joined EXCEPT ![q] = @ \union {e}]
          /\ found' = IF object[e] # Nothing THEN found
                      ELSE [found EXCEPT ![q] = @ \union {e}]
    /\ UNCHANGED <<storeVars, processVars, pc, at, want, body, cond, window, answer, mishaps>>

Scan(q) ==
    /\ At(q, "scan")
    /\ \E e \in Spawned(q) :
          /\ joined' = [joined EXCEPT ![q] = @ \union {e}]
          /\ found' = IF Readable(e) THEN found
                      ELSE [found EXCEPT ![q] = @ \union {e}]
    /\ UNCHANGED <<storeVars, processVars, pc, at, want, body, cond, window, answer, mishaps>>

ReportMissing(q) ==
    /\ At(q, "scan") /\ joined[q] = window[q]
    /\ Reply(q, "missing", Nothing)
    /\ UNCHANGED <<storeVars, processVars, at, want, body, cond, window, joined, found, mishaps>>

-----------------------------------------------------------------------------
(* latest_epoch: a cached value within its TTL, else the keys in the       *)
(* bucket and in memory.                                                   *)

StartLatest(q) ==
    /\ At(q, "new") /\ "latest" \in Ops
    /\ IF fresh[at[q]]
       THEN /\ answer' = [answer EXCEPT ![q] = Told("latest", latest[at[q]], Nothing)]
            /\ Goto(q, "end")
       ELSE Goto(q, "list") /\ UNCHANGED answer
    /\ UNCHANGED <<storeVars, processVars, at, want, body, cond, window, joined, found, mishaps>>

List(q) ==
    /\ At(q, "list")
    /\ found' = [found EXCEPT ![q] = {e \in Epoch : object[e] # Nothing}]
    /\ Goto(q, "merge")
    /\ UNCHANGED <<storeVars, processVars, at, want, body, cond, window, joined, answer, mishaps>>

Merge(q) ==
    LET known == found[q] \union {e \in Epoch : memory[at[q]][e] # Nothing}
    IN  /\ At(q, "merge")
        /\ IF known = {}
           THEN Reply(q, "empty", Nothing) /\ UNCHANGED found
           ELSE /\ found' = [found EXCEPT ![q] = known]
                /\ Goto(q, "publish") /\ UNCHANGED answer
        /\ UNCHANGED <<storeVars, processVars, at, want, body, cond, window, joined, mishaps>>

Publish(q) ==
    /\ At(q, "publish")
    /\ \E e \in found[q] :
          /\ \A d \in found[q] : d <= e
          /\ latest' = [latest EXCEPT ![at[q]] = e]
          /\ answer' = [answer EXCEPT ![q] = Told("latest", e, Nothing)]
    /\ fresh' = [fresh EXCEPT ![at[q]] = TRUE]
    /\ Goto(q, "end")
    /\ UNCHANGED <<storeVars, memory, at, want, body, cond, window, joined, found, mishaps>>

\* LATEST_EPOCH_TTL.
LatestExpires(r) ==
    /\ fresh[r]
    /\ fresh' = [fresh EXCEPT ![r] = FALSE]
    /\ UNCHANGED <<storeVars, memory, latest, requestVars, mishaps>>

-----------------------------------------------------------------------------
(* Failures.                                                               *)

InFlight(Q) ==
    {[epoch |-> want[q], shape |-> body[q], cond |-> cond[q]] :
        q \in {p \in Q : At(p, "store")}}

\* A failed or timed-out call answers 502; a write may still land.
\* missing_epochs fails as a whole: an epoch in an unknown state is neither
\* missing nor present.
Fails(q) ==
    /\ pc[q] \in {"load", "probe", "store", "reprobe", "scan", "list"}
    /\ Mishap
    /\ Reply(q, "unknown", Nothing)
    /\ late' \in {late, late \union InFlight({q})}
    /\ UNCHANGED <<object, processVars, at, want, body, cond, window, joined, found>>

\* The SDK retries an attempt whose reply was lost; S3 has applied the first,
\* so the second finds the precondition gone.
StoreRetried(q) ==
    /\ At(q, "store") /\ Holds(want[q], cond[q])
    /\ Mishap
    /\ PutObject(want[q], cond[q], body[q])
    /\ Goto(q, "reprobe")
    /\ UNCHANGED <<late, processVars, at, want, body, cond, window, joined, found, answer>>

\* The client goes away, or the 120 s of the router pass, at any await.
GivesUp(q) ==
    /\ pc[q] \notin {"new", "end"}
    /\ Mishap
    /\ Goto(q, "end")
    /\ late' \in {late, late \union InFlight({q})}
    /\ UNCHANGED <<object, processVars, at, want, body, cond, window, joined, found, answer>>

LateStore ==
    /\ \E w \in late :
          /\ PutObject(w.epoch, w.cond, w.shape)
          /\ late' = late \ {w}
    /\ UNCHANGED <<processVars, requestVars, mishaps>>

Restart(r) ==
    LET served == {q \in Request : at[q] = r /\ pc[q] # "new"}
    IN  /\ Mishap
        /\ memory' = [memory EXCEPT ![r] = [e \in Epoch |-> Nothing]]
        /\ latest' = [latest EXCEPT ![r] = Nothing]
        /\ fresh' = [fresh EXCEPT ![r] = FALSE]
        /\ pc' = [q \in Request |-> IF q \in served THEN "end" ELSE pc[q]]
        /\ late' \in {late, late \union InFlight(served)}
    /\ UNCHANGED <<object, at, want, body, cond, window, joined, found, answer>>

\* Something other than this service leaves bytes at an unreadable key.
ForeignWrite ==
    /\ Mishap
    /\ \E e \in Epoch, g \in Garbage :
          ~Readable(e) /\ object' = [object EXCEPT ![e] = g]
    /\ UNCHANGED <<late, processVars, requestVars>>

Next ==
    \/ \E q \in Request :
          \/ StartGet(q) \/ Load(q) \/ Keep(q)
          \/ StartPut(q) \/ Probe(q) \/ Store(q) \/ Reprobe(q)
          \/ RememberPut(q) \/ Advance(q)
          \/ StartMissing(q) \/ Scan(q) \/ ReportMissing(q)
          \/ StartLatest(q) \/ List(q) \/ Merge(q) \/ Publish(q)
          \/ Fails(q) \/ StoreRetried(q) \/ GivesUp(q)
    \/ \E r \in Replica : LatestExpires(r) \/ Restart(r)
    \/ LateStore \/ ForeignWrite

Spec == Init /\ [][Next]_vars

-----------------------------------------------------------------------------
(* Properties.                                                             *)

\* What a process keeps in memory for ever is what the bucket holds: neither
\* a lost race, a late write nor a repair leaves it with another's shape.
MemoryIsDurable ==
    \A r \in Replica, e \in Epoch :
        memory[r][e] # Nothing => object[e] = memory[r][e]

\* A complete missing query leaves out no epoch without a readable record, so
\* the cron does not pass over a gap.
GapsComplete ==
    \A q \in Request :
        answer[q].kind = "missing" =>
            \A e \in window[q] \ found[q] : Readable(e)

\* The latest epoch a process announces has bytes in the bucket: it neither
\* runs ahead of its writes nor outlives a lost one.
LatestIsStored ==
    \A r \in Replica : latest[r] # Nothing => object[latest[r]] # Nothing

\* The store implements write-once records: a readable shape never changes,
\* 201 is answered once per epoch and only for the shape that is there, 409
\* only over a readable record, and get returns the record or its absence.
Records == INSTANCE ShapeRecords WITH
    record <- [e \in Epoch |-> IF Readable(e) THEN object[e] ELSE Nothing],
    answer <- [q \in Request |->
                  IF answer[q].kind \in {"missing", "latest", "empty"}
                  THEN Silence ELSE answer[q]]

ImplementsRecords == Records!Spec
=============================================================================
