------------------------------ MODULE JobStore ------------------------------
(***************************************************************************)
(* The shared state of the asynchronous compute queue: the Redis keyspace  *)
(* of services/shapley-rs/src/queue.rs, the operations jobs.rs performs on *)
(* it, the Redis Stream with its one consumer group, and the S3 result     *)
(* objects of cache.rs.                                                    *)
(*                                                                         *)
(* One operator per Redis command (or pair of commands that no other       *)
(* client can tell from one).  JobApi and JobWorker build their steps from *)
(* these operators; JobQueue composes them and adds time and crashes.      *)
(*                                                                         *)
(* Abstractions.  A payload, a result and an error text are present or     *)
(* absent.  A TTL is an expiry that may happen at any moment its guard     *)
(* allows.  Two kinds of job are modelled, Simulate and LinkEstimate       *)
(* without a sweep's focus; each job is submitted, and enqueued, at most   *)
(* once, so a stream entry is named by its job.                            *)
(***************************************************************************)
EXTENDS Integers, FiniteSets

CONSTANTS
    Job,            \* job ids, minted one per submission
    Linkest,        \* the jobs of kind LinkEstimate; the others are Simulate
    Hash,           \* input hashes
    HashOf,         \* the input hash of each job's request
    NoJob,
    MaxLen,         \* STREAM_MAXLEN
    Hazard,         \* the kinds of mishap below
    Budgets         \* how many of each kind one behaviour may contain, by choice

ASSUME JobAssumption ==
    IsFiniteSet(Job) /\ NoJob \notin Job /\ Linkest \subseteq Job

ASSUME HashAssumption ==
    HashOf \in [Job -> Hash]

ASSUME MaxLenAssumption == MaxLen \in Nat \ {0}

\* "crash": a worker process dies; "fault": a Redis or S3 call fails or a
\* handler is dropped; "lapse": a live claim is not renewed for 30 s;
\* "expiry": a key reaches its TTL; "backstop": an in-flight claim reaches
\* its own, of 24 h; "cancel": a DELETE /jobs/{id}.
ASSUME BudgetAssumption ==
    /\ {"crash", "fault", "lapse", "expiry", "backstop", "cancel"} \subseteq Hazard
    /\ Budgets \subseteq [Hazard -> Nat]

VARIABLES
    state,          \* state:{job}  "none" when the hash does not exist
    payload,        \* jobs whose payload:{job} exists
    cancel,         \* jobs whose cancel:{job} exists
    result,         \* hashes whose result:{hash} exists
    inflight,       \* linkest:inflight:{hash}, a job id or NoJob
    id,             \* stream position of each job's entry, 0 before its XADD
    trimmed,        \* entries MAXLEN has removed from the stream
    delivered,      \* entries the group's cursor has passed
    pel,            \* times_delivered of a pending entry, 0 when not pending
    idle,           \* pending entries idle for RECLAIM_MIN_IDLE_MS
    dead,           \* jobs in the dead-letter stream
    durable,        \* hashes whose result object exists in S3
    puts,           \* detached S3 writes that have not landed
    asked,          \* <<j, s>>: a DELETE found job j in state s (history)
    left            \* what remains of the budget chosen

keyVars == <<state, payload, cancel, result, inflight>>
streamVars == <<id, trimmed, delivered, pel, idle, dead>>
s3Vars == <<durable, puts>>

Terminal == {"done", "failed", "cancelled"}
JobState == {"none", "running"} \union Terminal

StoreTypeOK ==
    /\ state \in [Job -> JobState]
    /\ payload \subseteq Job /\ cancel \subseteq Job
    /\ result \subseteq Hash
    /\ inflight \in [Hash -> Job \union {NoJob}]
    /\ id \in [Job -> Nat]
    /\ trimmed \subseteq Job /\ delivered \subseteq Job
    /\ pel \in [Job -> Nat]
    /\ idle \subseteq Job /\ dead \subseteq Job
    /\ durable \subseteq Hash /\ puts \subseteq Hash
    /\ asked \subseteq Job \X JobState
    /\ left \in [Hazard -> Nat]

StoreInit ==
    /\ state = [j \in Job |-> "none"]
    /\ payload = {} /\ cancel = {} /\ result = {}
    /\ inflight = [h \in Hash |-> NoJob]
    /\ id = [j \in Job |-> 0]
    /\ trimmed = {} /\ delivered = {}
    /\ pel = [j \in Job |-> 0]
    /\ idle = {} /\ dead = {}
    /\ durable = {} /\ puts = {}
    /\ asked = {}
    /\ left \in Budgets

Spend(hazard) ==
    /\ left[hazard] > 0
    /\ left' = [left EXCEPT ![hazard] = @ - 1]

-----------------------------------------------------------------------------
(* The state hash, the payload and the in-flight claim.                    *)

SetState(j, s) == state' = [state EXCEPT ![j] = s]

Exists(j) == state[j] # "none"

Claimed(h) == inflight[h] # NoJob

\* Variant: SET without NX.
ClaimByOverwrite(j) == inflight' = [inflight EXCEPT ![HashOf[j]] = j]

ClaimInflight(j) ==
    inflight' = IF Claimed(HashOf[j]) THEN inflight
                ELSE [inflight EXCEPT ![HashOf[j]] = j]

\* DEL: it does not look at whose claim it removes.
ClearInflight(h) == inflight' = [inflight EXCEPT ![h] = NoJob]

-----------------------------------------------------------------------------
(* The stream and its consumer group.                                      *)

Added == {j \in Job : id[j] > 0}
Undelivered == Added \ (delivered \union trimmed)
Pending == {j \in Job : pel[j] > 0}

\* XADD MAXLEN ~: the entry goes to the tail; the trim removes from the head
\* everything beyond MaxLen, or, being approximate, nothing yet.
XAdd(j) ==
    LET stream == (Added \ trimmed) \union {j}
        newer(i) == {k \in stream \ {i} : k = j \/ (i # j /\ id[k] > id[i])}
    IN  /\ id' = [id EXCEPT ![j] = Cardinality(Added) + 1]
        /\ trimmed' \in {trimmed, trimmed \union
                {i \in stream : Cardinality(newer(i)) >= MaxLen}}

\* Variant: XREADGROUP ... NOACK.
DeliverNoAck(S) ==
    /\ delivered' = delivered \union S
    /\ UNCHANGED <<pel, idle>>

Deliver(S) ==
    /\ delivered' = delivered \union S
    /\ pel' = [j \in Job |-> IF j \in S THEN pel[j] + 1 ELSE pel[j]]
    /\ idle' = idle \ S

XAck(j) ==
    /\ pel' = [pel EXCEPT ![j] = 0]
    /\ idle' = idle \ {j}

-----------------------------------------------------------------------------
(* DELETE /jobs/{id}: the flag is set for any job whose hash exists,       *)
(* whatever its state; otherwise the answer is 404.                        *)

\* Variant: the handler writes the verdict itself.
CancelAtOnce(j) ==
    /\ Spend("cancel")
    /\ Exists(j)
    /\ SetState(j, "cancelled")
    /\ asked' = asked \union {<<j, state[j]>>}
    /\ UNCHANGED <<payload, cancel, result, inflight, streamVars, s3Vars>>

RequestCancel(j) ==
    /\ Spend("cancel")
    /\ Exists(j)
    /\ cancel' = cancel \union {j}
    /\ asked' = asked \union {<<j, state[j]>>}
    /\ UNCHANGED <<state, payload, result, inflight, streamVars, s3Vars>>

(* A detached S3 write lands, or is lost with its process or its request.  *)
PutLands ==
    /\ \E h \in puts : durable' = durable \union {h} /\ puts' = puts \ {h}
    /\ UNCHANGED <<keyVars, streamVars, asked, left>>

PutLost ==
    /\ Spend("fault")
    /\ \E h \in puts : puts' = puts \ {h}
    /\ UNCHANGED <<keyVars, streamVars, durable, asked>>
=============================================================================
