------------------------------ MODULE JobQueue ------------------------------
(***************************************************************************)
(* The asynchronous compute queue: submissions (JobApi) and workers        *)
(* (JobWorker) that share Redis and S3 (JobStore), under time, crashes,    *)
(* failed calls and cancellations.                                         *)
(***************************************************************************)
EXTENDS JobApi, JobWorker

vars == <<keyVars, streamVars, s3Vars, asked, left, apiVars, workerVars>>

TypeOK == StoreTypeOK /\ ApiTypeOK /\ WorkerTypeOK

Init == StoreInit /\ ApiInit /\ WorkerInit

-----------------------------------------------------------------------------
(* Time.                                                                   *)

\* A live worker renews the entry's claim, or is a few calls away from taking
\* it up: only a solve keeps the rest of a sweep waiting for long.
Attended(j) ==
    \E w \in Worker :
        wjob[w] = j \/ (j \in wbatch[w] /\ wpc[w] \notin Solving)

Held(j) == \E w \in Worker : wjob[w] = j \/ j \in wbatch[w]
HasHeartbeat(j) == \E w \in Worker : wjob[w] = j /\ wpc[w] \in Beating

\* RECLAIM_MIN_IDLE_MS passes without a renewal.  Nothing renews an entry
\* whose worker died or returned, nor one that waits in a sweep behind
\* another's solve; for an attended entry it takes a lapse: Redis out of reach
\* of the heartbeat, or calls that take 30 s.
GoIdle(j) ==
    /\ j \in Pending \ idle
    /\ Attended(j) => left["lapse"] > 0
    /\ left' = IF Attended(j) THEN [left EXCEPT !["lapse"] = @ - 1] ELSE left
    /\ idle' = idle \union {j}
    /\ UNCHANGED <<keyVars, id, trimmed, delivered, pel, dead, s3Vars, asked, apiVars, workerVars>>

\* JOB_TTL_SECS without a refresh: a running job nobody is processing.
StateExpires(j) ==
    /\ state[j] = "running" /\ ~InHandler(j) /\ ~HasHeartbeat(j)
    /\ Spend("expiry")
    /\ SetState(j, "none")
    /\ UNCHANGED <<payload, cancel, result, inflight, streamVars, s3Vars, asked, apiVars, workerVars>>

\* TERMINAL_TTL_SECS: long after the entry was dealt with.
RetentionEnds(j) ==
    /\ state[j] \in Terminal /\ j \notin Pending \union Undelivered
    /\ ~Held(j) /\ ~InHandler(j)
    /\ Spend("expiry")
    /\ SetState(j, "none")
    /\ UNCHANGED <<payload, cancel, result, inflight, streamVars, s3Vars, asked, apiVars, workerVars>>

\* PAYLOAD_TTL_SECS is twice JOB_TTL_SECS: the state hash of a job that no
\* worker has picked up by then is gone.
PayloadExpires(j) ==
    /\ j \in payload /\ ~InHandler(j)
    /\ state[j] = "running" => j \in delivered
    /\ Spend("expiry")
    /\ payload' = payload \ {j}
    /\ UNCHANGED <<state, cancel, result, inflight, streamVars, s3Vars, asked, apiVars, workerVars>>

\* The bridge of a running solve has copied the flag long before.
CancelExpires(j) ==
    /\ j \in cancel /\ ~HasHeartbeat(j)
    /\ Spend("expiry")
    /\ cancel' = cancel \ {j}
    /\ UNCHANGED <<state, payload, result, inflight, streamVars, s3Vars, asked, apiVars, workerVars>>

\* RESULT_TTL_SECS, not within the few calls that follow the write.
ResultExpires(h) ==
    /\ h \in result
    /\ \A w \in Worker : wpc[w] \in {"clear", "ack"} => HashOf[wjob[w]] # h
    /\ Spend("expiry")
    /\ result' = result \ {h}
    /\ UNCHANGED <<state, payload, cancel, inflight, streamVars, s3Vars, asked, apiVars, workerVars>>

InflightExpires(h) ==
    /\ Claimed(h)
    /\ Spend("backstop")
    /\ ClearInflight(h)
    /\ UNCHANGED <<state, payload, cancel, result, streamVars, s3Vars, asked, apiVars, workerVars>>

Time ==
    \/ \E j \in Job : \/ GoIdle(j) \/ StateExpires(j) \/ RetentionEnds(j)
                      \/ PayloadExpires(j) \/ CancelExpires(j)
    \/ \E h \in Hash : ResultExpires(h) \/ InflightExpires(h)

\* Its submitter was answered with its id, or somebody who attached to it was.
Given(j) ==
    \/ api[j] = "accepted"
    \/ \E i \in Job : api[i] = "attached" /\ seen[i] = j

\* DELETE /jobs/{id}, also while j's own handler is not done or has failed.
Cancel(j) ==
    /\ Given(j)
    /\ RequestCancel(j)
    /\ UNCHANGED <<apiVars, workerVars>>

Next ==
    \/ \E j \in Job : \/ ApiStep(j) /\ UNCHANGED workerVars
                      \/ ApiFault(j) /\ UNCHANGED workerVars
                      \/ Cancel(j)
    \/ \E w \in Worker : (WorkerStep(w) \/ WorkerFault(w)) /\ UNCHANGED apiVars
    \/ (PutLands \/ PutLost) /\ UNCHANGED <<apiVars, workerVars>>
    \/ Time

Spec == Init /\ [][Next]_vars

\* A handler and a worker in the middle of an entry make their next call; a
\* worker between entries reads with a 5 s block and sweeps every 30 s, so it
\* comes back to both for ever, whatever other workers take from it; an
\* entry nobody renews does go idle.
Fairness ==
    /\ \A j \in Job :
          /\ WF_vars(api[j] # "new" /\ ApiStep(j) /\ UNCHANGED workerVars)
          /\ WF_vars(~Attended(j) /\ GoIdle(j))
    /\ \A w \in Worker :
          /\ WF_vars(~At(w, "loop") /\ WorkerStep(w) /\ UNCHANGED apiVars)
          /\ SF_vars(Read(w) /\ UNCHANGED apiVars)
          /\ SF_vars(Reclaim(w) /\ UNCHANGED apiVars)

FairSpec == Spec /\ Fairness

-----------------------------------------------------------------------------
(* Safety.                                                                 *)

Acked == delivered \ Pending

\* An entry leaves the pending list only once its job no longer reads as
\* running, so no client polls for ever a job nobody will process: set_done,
\* set_failed and set_cancelled precede every XACK of worker.rs.  Excepted
\* are a dead-lettered job, whose set_failed is best-effort, and an entry
\* trimmed from the stream.
SettledWhenAcked ==
    \A j \in Acked : state[j] = "running" => j \in dead \union trimmed

\* An entry leaves the pending list only once its job has released the
\* in-flight claim of its hash, on every path of process_entry and reclaim;
\* otherwise each resubmission would attach to a finished job for the rest of
\* INFLIGHT_TTL_SECS.  Excepted are a failed best-effort DEL and a trimmed
\* entry.
ClaimReleased ==
    \A j \in Acked \intersect Linkest :
        inflight[HashOf[j]] = j => j \in skipped \union trimmed

\* No job reads as cancelled unless a DELETE reached it while it existed:
\* neither a redelivery, a failed baseline nor another job's flag cancels it.
CancelledOnlyOnRequest ==
    \A j \in Job : state[j] = "cancelled" => \E s \in JobState : <<j, s>> \in asked

\* The poison-pill guard of reclaim: an entry that may still be redelivered
\* was taken up at most MAX_DELIVERIES times (once for a link estimate),
\* however often it crashed or panicked its worker.  One that was acknowledged
\* while it waited in another worker's sweep may be taken up once more: its
\* delivery count then reads 0.
AttemptsBounded ==
    \A j \in Pending : attempts[j] <= Cap(j)

\* The in-flight claim and the result cache keep two workers from solving the
\* same link estimate at the same time (queue.rs, inflight_key), as long as
\* every solve succeeds: after a failed or cancelled one nothing is cached, and
\* a submission that lost its claim to it goes on without any.
DedupHolds ==
    \A v, w \in Worker :
        v # w /\ At(v, "estimate") /\ At(w, "estimate") /\ asked = {}
            => HashOf[wjob[v]] # HashOf[wjob[w]]

-----------------------------------------------------------------------------
(* Action and liveness properties.                                         *)

\* A delivery count above 1, or one that reads 0 again because another worker
\* acknowledged or dropped the entry.
DeliveredAgain(j) == pel[j] > 1 \/ j \in Acked

\* A job that is done, failed or cancelled keeps that verdict, through crashes,
\* faults, lapses and expiries, until its retention ends, unless its entry was
\* delivered again or its submission reported that it could not enqueue it: no late
\* DELETE, no first delivery and no other job's handler or worker rewrites it.
TerminalIsFinal ==
    [][\A j \in Job :
          state[j] \in Terminal /\ state'[j] \notin {state[j], "none"}
              => DeliveredAgain(j) \/ api[j] \in {"fail", "error"}]_vars

\* Every job whose entry reached the stream stops reading as running, through
\* crashes, panics and redeliveries, unless its entry was trimmed or its failure
\* could not be written.
Settles ==
    \A j \in Job :
        j \in Added ~> state[j] # "running" \/ j \in dead \union trimmed

-----------------------------------------------------------------------------
(* The abstract queue.                                                     *)

PlaceOf(j) ==
    IF j \in Pending THEN "pending"
    ELSE IF j \notin Added THEN "out"
    ELSE IF j \in Undelivered THEN "queued" ELSE "gone"

Place == [j \in Job |-> PlaceOf(j)]
InHand == [w \in Worker |-> wbatch[w] \union ({wjob[w]} \ {NoJob})]
Open == {j \in Job : api[j] \notin Ended}
Called == {j \in Job : \E s \in JobState : <<j, s>> \in asked}

Queue == INSTANCE AtLeastOnce WITH
    place <- Place, turn <- id, cut <- trimmed, open <- Open, hands <- InHand,
    called <- Called, buried <- dead, verdict <- state

\* To those who submit and poll, Redis streams, sweeps, heartbeats and the
\* handlers' error arms come to a queue that delivers at least once, in order,
\* and forgets an entry only after its job's verdict.
ImplementsAtLeastOnce == Queue!Spec

=============================================================================
