----------------------------- MODULE JobWorker -----------------------------
(***************************************************************************)
(* The worker role (worker.rs): the consume loop, the reclaim sweep, the   *)
(* processing of one entry, and the two solves a user can submit.          *)
(*                                                                         *)
(* wpc[w] names the next step of worker w:                                 *)
(*   loop                    between entries                               *)
(*   next                    in a reclaim sweep, before its next entry     *)
(*   lookup, load            process_entry, steps 3 and 4-5                *)
(*   baseline, modified      run_simulate                                  *)
(*   durable, estimate       run_link_estimate                             *)
(*   settle, cache, clear, ack     terminal handling                       *)
(*   poison, release, bury         dead-lettering                          *)
(***************************************************************************)
EXTENDS JobStore

CONSTANTS
    Worker,
    Outcomes,           \* what a solve may end with, besides a cancellation
    ClaimCount,         \* COUNT of the XAUTOCLAIM
    MaxDeliveries, MaxDeliveriesLinkest

ASSUME OutcomesAssumption ==
    Outcomes \subseteq {"done", "failed", "panic"}

ASSUME DeliveriesAssumption ==
    /\ ClaimCount \in Nat \ {0}
    /\ MaxDeliveries \in Nat \ {0} /\ MaxDeliveriesLinkest \in Nat \ {0}

VARIABLES
    wpc,
    wjob,           \* the job of the entry in hand
    wbatch,         \* reclaimed entries still to be handled by the sweep
    wout,           \* how the entry in hand ends
    attempts,       \* process_entry calls per job (history)
    skipped         \* jobs whose claim a failed DEL left behind (history)

localVars == <<wpc, wjob, wbatch, wout>>
historyVars == <<attempts, skipped>>
workerVars == <<localVars, historyVars>>

Solving == {"baseline", "modified", "estimate"}

\* claim_heartbeat runs from step 2 of process_entry to the terminal write.
Beating == {"lookup", "load", "durable"} \union Solving

WorkerPc ==
    Beating \union {"loop", "next", "settle", "cache", "clear", "ack",
                    "poison", "release", "bury"}

Out == {"none", "done", "republished", "expired", "failed", "cancelled"}

WorkerTypeOK ==
    /\ wpc \in [Worker -> WorkerPc]
    /\ wjob \in [Worker -> Job \union {NoJob}]
    /\ \A w \in Worker : wjob[w] = NoJob <=> wpc[w] \in {"loop", "next"}
    /\ wbatch \in [Worker -> SUBSET Job]
    /\ wout \in [Worker -> Out]
    /\ attempts \in [Job -> Nat]
    /\ skipped \subseteq Job

WorkerInit ==
    /\ wpc = [w \in Worker |-> "loop"]
    /\ wjob = [w \in Worker |-> NoJob]
    /\ wbatch = [w \in Worker |-> {}]
    /\ wout = [w \in Worker |-> "none"]
    /\ attempts = [j \in Job |-> 0]
    /\ skipped = {}

At(w, pc) == wpc[w] = pc
Step(w, pc) == wpc' = [wpc EXCEPT ![w] = pc]

Cap(j) == IF j \in Linkest THEN MaxDeliveriesLinkest ELSE MaxDeliveries

\* Variant: XCLAIM ... FORCE, which makes an entry pending that is not.
RenewForced(j) ==
    /\ idle' = idle \ {j}
    /\ pel' = [pel EXCEPT ![j] = IF j \in trimmed THEN 0 ELSE IF @ = 0 THEN 1 ELSE @]

\* touch_claim: XCLAIM by whichever worker beats, owner or not.  A pending
\* entry that was trimmed from the stream is dropped instead.
Renew(j) ==
    /\ idle' = idle \ {j}
    /\ pel' = IF j \in trimmed THEN [pel EXCEPT ![j] = 0] ELSE pel

\* Taking up an entry: a call of process_entry.
Process(w, j) ==
    /\ wjob' = [wjob EXCEPT ![w] = j]
    /\ attempts' = [attempts EXCEPT ![j] = @ + 1]
    /\ Step(w, "lookup")

\* process_entry returns Ok: on to the next entry of the sweep, if any.
Leave(w) ==
    /\ Step(w, IF wbatch[w] = {} THEN "loop" ELSE "next")
    /\ wjob' = [wjob EXCEPT ![w] = NoJob]
    /\ wout' = [wout EXCEPT ![w] = "none"]
    /\ UNCHANGED wbatch

\* It returns Err, or the process dies: the rest of the sweep goes with it.
Abandon(w) ==
    /\ Step(w, "loop")
    /\ wjob' = [wjob EXCEPT ![w] = NoJob]
    /\ wout' = [wout EXCEPT ![w] = "none"]
    /\ wbatch' = [wbatch EXCEPT ![w] = {}]

\* Variant: the entry is acknowledged and the outcome never written.
EndUnwritten(w, out) ==
    /\ Step(w, "ack")
    /\ wout' = [wout EXCEPT ![w] = out]
    /\ UNCHANGED <<wjob, wbatch>>

\* The outcome is known and the heartbeat stops.
End(w, out) ==
    /\ Step(w, "settle")
    /\ wout' = [wout EXCEPT ![w] = out]
    /\ UNCHANGED <<wjob, wbatch>>

\* Variant: the claim is left to its TTL.
AfterSettlingAck(j) == "ack"

AfterSettling(j) == IF j \in Linkest THEN "clear" ELSE "ack"

-----------------------------------------------------------------------------
(* The consume loop and the reclaim sweep.                                 *)

\* XREADGROUP ">" COUNT 1: the oldest entry past the group's cursor.
Read(w) ==
    /\ At(w, "loop")
    /\ \E j \in Undelivered :
          /\ \A i \in Undelivered : id[j] <= id[i]
          /\ Deliver({j})
          /\ Process(w, j)
    /\ UNCHANGED <<wbatch, wout, skipped>>
    /\ UNCHANGED <<keyVars, id, trimmed, dead, s3Vars, asked, left>>

\* The first ClaimCount idle entries; those trimmed from the stream are
\* dropped from the pending list by Redis itself.
Claimable ==
    {j \in idle : Cardinality({i \in idle : id[i] < id[j]}) < ClaimCount}

\* Variant: XAUTOCLAIM ... JUSTID, which does not count a delivery.
ReclaimJustId(w) ==
    LET lost == Claimable \intersect trimmed
        got  == Claimable \ trimmed
    IN  /\ At(w, "loop")
        /\ Claimable # {}
        /\ pel' = [j \in Job |-> IF j \in lost THEN 0 ELSE pel[j]]
        /\ idle' = idle \ Claimable
        /\ wbatch' = [wbatch EXCEPT ![w] = got]
        /\ Step(w, IF got = {} THEN "loop" ELSE "next")
    /\ UNCHANGED <<wjob, wout, historyVars>>
    /\ UNCHANGED <<keyVars, id, trimmed, delivered, dead, s3Vars, asked, left>>

Reclaim(w) ==
    LET lost == Claimable \intersect trimmed
        got  == Claimable \ trimmed
    IN  /\ At(w, "loop")
        /\ Claimable # {}
        /\ pel' = [j \in Job |-> IF j \in got THEN pel[j] + 1
                                 ELSE IF j \in lost THEN 0 ELSE pel[j]]
        /\ idle' = idle \ Claimable
        /\ wbatch' = [wbatch EXCEPT ![w] = got]
        /\ Step(w, IF got = {} THEN "loop" ELSE "next")
    /\ UNCHANGED <<wjob, wout, historyVars>>
    /\ UNCHANGED <<keyVars, id, trimmed, delivered, dead, s3Vars, asked, left>>

\* The delivery count is read again, entry by entry, when its turn comes; the
\* heartbeat's first tick is immediate.
NextReclaimed(w) ==
    /\ At(w, "next")
    /\ \E j \in wbatch[w] :
          /\ \A i \in wbatch[w] : id[j] <= id[i]
          /\ wbatch' = [wbatch EXCEPT ![w] = @ \ {j}]
          /\ IF pel[j] > Cap(j)
             THEN /\ Step(w, "poison")
                  /\ wjob' = [wjob EXCEPT ![w] = j]
                  /\ UNCHANGED <<attempts, pel, idle>>
             ELSE Process(w, j) /\ Renew(j)
    /\ UNCHANGED <<wout, skipped>>
    /\ UNCHANGED <<keyVars, id, trimmed, delivered, dead, s3Vars, asked, left>>

-----------------------------------------------------------------------------
(* process_entry, up to the solve.                                         *)

LookupResult(w) ==
    /\ At(w, "lookup")
    /\ IF HashOf[wjob[w]] \in result
       THEN End(w, "republished")
       ELSE Step(w, "load") /\ UNCHANGED <<wjob, wbatch, wout>>
    /\ UNCHANGED <<historyVars, keyVars, streamVars, s3Vars, asked, left>>

\* A vanished state hash fails the job; a missing payload leaves the entry
\* pending for the sweep.
LoadJob(w) ==
    /\ At(w, "load")
    /\ LET j == wjob[w]
       IN  \/ ~Exists(j) /\ End(w, "expired")
           \/ Exists(j) /\ j \notin payload /\ Leave(w)
           \/ /\ Exists(j) /\ j \in payload
              /\ Step(w, IF j \in Linkest THEN "durable" ELSE "baseline")
              /\ UNCHANGED <<wjob, wbatch, wout>>
    /\ UNCHANGED <<historyVars, keyVars, streamVars, s3Vars, asked, left>>

-----------------------------------------------------------------------------
(* The solves.  A cancellation needs the flag; a failure with the flag set *)
(* may have been reported before the bridge copied the flag.               *)

\* A panic in the baseline phase is an error like any other.
SolveBaseline(w) ==
    /\ At(w, "baseline")
    /\ LET j == wjob[w]
       IN  \/ /\ Step(w, "modified")
              /\ UNCHANGED <<wjob, wbatch, wout>>
           \/ /\ j \in cancel
              /\ End(w, "cancelled")
           \/ /\ Outcomes \intersect {"failed", "panic"} # {}
              /\ End(w, "failed")
    /\ UNCHANGED <<attempts, skipped, keyVars, streamVars, s3Vars, asked, left>>

\* The S3 object, when there is one, stands for the solve.
LoadEstimate(w) ==
    /\ At(w, "durable")
    /\ IF HashOf[wjob[w]] \in durable
       THEN End(w, "done")
       ELSE Step(w, "estimate") /\ UNCHANGED <<wjob, wbatch, wout>>
    /\ UNCHANGED <<historyVars, keyVars, streamVars, s3Vars, asked, left>>

\* The modified run or the link estimate.  A panic here leaves the entry
\* pending; a finished estimate starts its detached S3 write at once.
Solve(w) ==
    /\ wpc[w] \in {"modified", "estimate"}
    /\ LET j == wjob[w]
       IN  \/ /\ "done" \in Outcomes
              /\ End(w, "done")
              /\ puts' = IF j \in Linkest THEN puts \union {HashOf[j]} ELSE puts
           \/ /\ j \in cancel
              /\ End(w, "cancelled") /\ UNCHANGED puts
           \/ /\ "failed" \in Outcomes
              /\ End(w, "failed") /\ UNCHANGED puts
           \/ /\ "panic" \in Outcomes
              /\ Leave(w) /\ UNCHANGED puts
    /\ UNCHANGED <<attempts, skipped, keyVars, streamVars, durable, asked, left>>

-----------------------------------------------------------------------------
(* Terminal handling: state, result cache, claim, XACK, in this order.     *)

\* Variant: any failed solve counts as a cancellation.
VerdictCancelled(out) ==
    CASE out \in {"done", "republished"} -> "done"
      [] out = "expired"                 -> "failed"
      [] OTHER                           -> "cancelled"

Verdict(out) ==
    CASE out \in {"done", "republished"} -> "done"
      [] out \in {"failed", "expired"}   -> "failed"
      [] OTHER                           -> "cancelled"

Settle(w) ==
    /\ At(w, "settle")
    /\ SetState(wjob[w], Verdict(wout[w]))
    /\ Step(w, IF wout[w] = "done" THEN "cache" ELSE AfterSettling(wjob[w]))
    /\ UNCHANGED <<wjob, wbatch, wout, historyVars>>
    /\ UNCHANGED <<payload, cancel, result, inflight, streamVars, s3Vars, asked, left>>

\* A finished simulation also starts its detached S3 write here.
StorePut(w) ==
    puts' = IF wjob[w] \in Linkest THEN puts ELSE puts \union {HashOf[wjob[w]]}

CacheResult(w) ==
    /\ At(w, "cache")
    /\ result' = result \union {HashOf[wjob[w]]}
    /\ StorePut(w)
    /\ Step(w, AfterSettling(wjob[w]))
    /\ UNCHANGED <<wjob, wbatch, wout, historyVars>>
    /\ UNCHANGED <<state, payload, cancel, inflight, streamVars, durable, asked, left>>

ClearClaim(w) ==
    /\ At(w, "clear")
    /\ ClearInflight(HashOf[wjob[w]])
    /\ Step(w, "ack")
    /\ UNCHANGED <<wjob, wbatch, wout, historyVars>>
    /\ UNCHANGED <<state, payload, cancel, result, streamVars, s3Vars, asked, left>>

Ack(w) ==
    /\ At(w, "ack")
    /\ XAck(wjob[w])
    /\ Leave(w)
    /\ UNCHANGED <<historyVars, keyVars, id, trimmed, delivered, dead, s3Vars, asked, left>>

-----------------------------------------------------------------------------
(* A poison entry: fail the job, release its claim, dead-letter, XACK.     *)

PoisonFail(w) ==
    /\ At(w, "poison")
    /\ SetState(wjob[w], "failed")
    /\ Step(w, IF wjob[w] \in Linkest THEN "release" ELSE "bury")
    /\ UNCHANGED <<wjob, wbatch, wout, historyVars>>
    /\ UNCHANGED <<payload, cancel, result, inflight, streamVars, s3Vars, asked, left>>

PoisonRelease(w) ==
    /\ At(w, "release")
    /\ ClearInflight(HashOf[wjob[w]])
    /\ Step(w, "bury")
    /\ UNCHANGED <<wjob, wbatch, wout, historyVars>>
    /\ UNCHANGED <<state, payload, cancel, result, streamVars, s3Vars, asked, left>>

DeadLetter(w) ==
    /\ At(w, "bury")
    /\ dead' = dead \union {wjob[w]}
    /\ Step(w, "ack")
    /\ UNCHANGED <<wjob, wbatch, wout, historyVars>>
    /\ UNCHANGED <<keyVars, id, trimmed, delivered, pel, idle, s3Vars, asked, left>>

-----------------------------------------------------------------------------
(* Failures.                                                               *)

\* A best-effort write fails and is only logged.
SkipWrite(w) ==
    /\ Spend("fault")
    /\ \/ /\ At(w, "cache")
          /\ StorePut(w)
          /\ Step(w, AfterSettling(wjob[w]))
          /\ UNCHANGED skipped
       \/ /\ At(w, "clear") \/ At(w, "release")
          /\ skipped' = skipped \union {wjob[w]}
          /\ Step(w, IF At(w, "clear") THEN "ack" ELSE "bury")
          /\ UNCHANGED puts
       \/ /\ At(w, "poison")
          /\ Step(w, IF wjob[w] \in Linkest THEN "release" ELSE "bury")
          /\ UNCHANGED <<skipped, puts>>
    /\ UNCHANGED <<wjob, wbatch, wout, attempts>>
    /\ UNCHANGED <<keyVars, streamVars, durable, asked>>

\* The S3 read fails: a miss.
MissEstimate(w) ==
    /\ At(w, "durable")
    /\ Spend("fault")
    /\ Step(w, "estimate")
    /\ UNCHANGED <<wjob, wbatch, wout, historyVars>>
    /\ UNCHANGED <<keyVars, streamVars, s3Vars, asked>>

\* A call whose error returns from process_entry or ends the sweep.  A
\* terminal write may have been applied all the same.
CallErrs(w) ==
    /\ wpc[w] \in {"next", "lookup", "load", "settle", "bury", "ack"}
    /\ Spend("fault")
    /\ Abandon(w)
    /\ \/ UNCHANGED state
       \/ At(w, "settle") /\ SetState(wjob[w], Verdict(wout[w]))
    /\ UNCHANGED <<historyVars, payload, cancel, result, inflight, streamVars, s3Vars, asked>>

Crash(w) ==
    /\ ~At(w, "loop")
    /\ Spend("crash")
    /\ Abandon(w)
    /\ UNCHANGED <<historyVars, keyVars, streamVars, s3Vars, asked>>

\* A later tick finds the claim gone stale.
Beat(w) ==
    /\ wpc[w] \in Beating /\ wjob[w] \in idle
    /\ Renew(wjob[w])
    /\ UNCHANGED <<workerVars, keyVars, id, trimmed, delivered, dead, s3Vars, asked, left>>

WorkerStep(w) ==
    \/ Read(w) \/ Reclaim(w) \/ NextReclaimed(w)
    \/ LookupResult(w) \/ LoadJob(w)
    \/ SolveBaseline(w) \/ LoadEstimate(w) \/ Solve(w)
    \/ Settle(w) \/ CacheResult(w) \/ ClearClaim(w) \/ Ack(w)
    \/ PoisonFail(w) \/ PoisonRelease(w) \/ DeadLetter(w)
    \/ Beat(w)

WorkerFault(w) == SkipWrite(w) \/ MissEstimate(w) \/ CallErrs(w) \/ Crash(w)
=============================================================================
