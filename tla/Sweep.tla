------------------------------- MODULE Sweep -------------------------------
(***************************************************************************)
(* The epoch sweep (worker.rs, routes.rs, cache.rs): a fire of the cron    *)
(* submits one sweep job; a worker expands it into one link estimate per   *)
(* operator; the results, the aliases that name them and, once there is    *)
(* nothing left to do, the "fully swept" marker go to S3.                  *)
(*                                                                         *)
(* wpc[w] names the next call of worker w:                                 *)
(*   idle                                                                  *)
(*   lookup, reconcile, exists                  process_entry              *)
(*   next, find                                 run_sweep, gate 2          *)
(*   claimed, stale                             gate 3                     *)
(*   create, claim, supersede, enqueue, undo, drop    a child              *)
(*   mark                                       the end of the expansion   *)
(*   durable, solve, flag                       run_link_estimate          *)
(*   persist, alias                             publish_link_estimate      *)
(*   settle, clear, ack                         terminal handling          *)
(*                                                                         *)
(* The queue is what JobQueue shows it to be: an entry is delivered at     *)
(* least once and given up after a bounded number of deliveries.  One      *)
(* epoch and one tag: an operator stands for the hash of its estimate.     *)
(***************************************************************************)
EXTENDS Integers, FiniteSets

CONSTANTS
    Operator,       \* the operators of the epoch's devices
    Solvable,       \* those with 1 to SWEEP_MAX_FOCUS_LINKS links
    Sweep, Child,   \* job ids; an id is minted again once nothing refers to it
    FocusOf,        \* the operator of a child
    Worker,
    NoJob,
    MaxDeliveries, MaxDeliveriesLinkest,
    Lists,          \* explicit lists an operator may submit
    MaxMishap       \* bound on the mishaps below, each at most once

ASSUME SweepAssumption ==
    /\ Solvable \subseteq Operator /\ IsFiniteSet(Operator)
    /\ FocusOf \in [Child -> Solvable]
    /\ Sweep \intersect Child = {} /\ NoJob \notin Sweep \union Child
    /\ Lists \subseteq SUBSET Operator
    /\ MaxDeliveries \in Nat /\ MaxDeliveriesLinkest \in Nat /\ MaxMishap \in Nat

VARIABLES
    \* Redis
    state,          \* state:{job}, "none" when the hash does not exist
    cancel,         \* jobs whose cancel:{job} exists
    plan,           \* the payload of a sweep: its operators, and whether derived
    parent,         \* the sweep whose payload the entry of a child refers to
    result,         \* operators with a result:{hash}
    inflight,       \* linkest:inflight:{hash}
    queued,         \* entries not yet delivered
    pel,            \* deliveries of a pending entry, 0 when not pending
    \* S3
    durable,        \* operators whose result object exists
    alias,          \* operators whose alias exists
    marker,         \* the marker exists
    puts,           \* detached writes of results that have not landed
    \* workers
    wpc, wjob,
    wop,            \* the operator in hand
    wchild,         \* the child being created
    wbody,          \* the payload read: "none", "plain", or with a tag to publish
    verdict,        \* the operators' buckets in the summary
    wout,           \* Outcome of the entry in hand
    mishaps         \* what has gone wrong (history)

redisVars == <<state, cancel, plan, parent, result, inflight>>
streamVars == <<queued, pel>>
s3Vars == <<durable, alias, marker, puts>>
localVars == <<wpc, wjob, wop, wchild, wbody, verdict, wout>>
vars == <<redisVars, streamVars, s3Vars, localVars, mishaps>>

Job == Sweep \union Child
Terminal == {"done", "failed", "cancelled"}

NoPlan == [listed |-> {}, derived |-> FALSE]

Bucket == {"todo", "skipped", "cached", "unpublished", "running",
           "superseded", "enqueued", "failed"}

Fresh == [op \in Operator |-> "todo"]

\* "crash": a worker dies, or leaves an entry for a retry; "fault": a call
\* fails, or its reply is lost; "lapse": a held entry is not renewed for 30 s;
\* "unsolved": a solve fails; "cancel": a DELETE; "wait": an entry waits for
\* longer than its job's state, or the payload it needs, lives.
Hazard == {"crash", "fault", "lapse", "unsolved", "cancel", "wait"}

Step == {"idle", "lookup", "reconcile", "exists", "next",
         "find", "claimed", "stale", "create", "claim", "supersede",
         "enqueue", "undo", "drop", "mark", "durable", "solve", "flag",
         "persist", "alias", "settle", "clear", "ack"}

TypeOK ==
    /\ state \in [Job -> {"none", "running"} \union Terminal]
    /\ cancel \subseteq Job
    /\ plan \in [Sweep -> [listed : SUBSET Operator, derived : BOOLEAN]]
    /\ parent \in [Child -> Sweep \union {NoJob}]
    /\ result \subseteq Solvable
    /\ inflight \in [Solvable -> Child \union {NoJob}]
    /\ queued \subseteq Job
    /\ pel \in [Job -> Nat]
    /\ durable \subseteq Solvable /\ alias \subseteq Solvable
    /\ marker \in BOOLEAN
    /\ puts \subseteq Solvable
    /\ wpc \in [Worker -> Step]
    /\ wjob \in [Worker -> Job \union {NoJob}]
    /\ \A w \in Worker : wjob[w] = NoJob <=> wpc[w] = "idle"
    /\ wop \in [Worker -> Solvable \union {NoJob}]
    /\ wchild \in [Worker -> Child \union {NoJob}]
    /\ \A w \in Worker : wchild[w] # NoJob <=>
            wpc[w] \in {"claim", "supersede", "enqueue", "undo", "drop"}
    /\ wbody \in [Worker -> {"none", "plain", "tagged"}]
    /\ verdict \in [Worker -> [Operator -> Bucket]]
    /\ wout \in [Worker -> Terminal \union {"none", "republished", "served"}]
    /\ mishaps \subseteq Hazard

Init ==
    /\ state = [j \in Job |-> "none"]
    /\ cancel = {}
    /\ plan = [s \in Sweep |-> NoPlan]
    /\ parent = [c \in Child |-> NoJob]
    /\ result = {}
    /\ inflight = [op \in Solvable |-> NoJob]
    /\ queued = {} /\ pel = [j \in Job |-> 0]
    /\ durable = {} /\ alias = {} /\ marker = FALSE /\ puts = {}
    /\ wpc = [w \in Worker |-> "idle"]
    /\ wjob = [w \in Worker |-> NoJob]
    /\ wop = [w \in Worker |-> NoJob]
    /\ wchild = [w \in Worker |-> NoJob]
    /\ wbody = [w \in Worker |-> "none"]
    /\ verdict = [w \in Worker |-> Fresh]
    /\ wout = [w \in Worker |-> "none"]
    /\ mishaps = {}

Mishap(hazard) ==
    /\ Cardinality(mishaps) < MaxMishap /\ hazard \notin mishaps
    /\ mishaps' = mishaps \union {hazard}

-----------------------------------------------------------------------------
(* Submission: link_estimate_sweep.  No other client can tell its three    *)
(* calls apart.                                                            *)

Pending == {j \in Job : pel[j] > 0}
Live == queued \union Pending
Held(j) == \E w \in Worker : wjob[w] = j

\* A job id is a UUID: an id is taken again only when nothing names it.
Unused(j) ==
    /\ state[j] = "none" /\ j \notin Live /\ ~Held(j) /\ j \notin cancel
    /\ \A op \in Solvable : inflight[op] # j
    /\ \A w \in Worker : wchild[w] # j
    /\ \A c \in Child : parent[c] = j => c \notin Live /\ ~Held(c)

\* The cron reads the marker first; an explicit list comes from an operator.
Submit(s, list, derived) ==
    /\ Unused(s)
    /\ IF derived THEN ~marker /\ list = Operator ELSE list \in Lists
    /\ plan' = [plan EXCEPT ![s] = [listed |-> list, derived |-> derived]]
    /\ \/ /\ state' = [state EXCEPT ![s] = "running"]
          /\ queued' = queued \union {s}
          /\ UNCHANGED mishaps
       \/ /\ Mishap("fault")
          /\ state' = [state EXCEPT ![s] = "failed"]
          /\ UNCHANGED queued
    /\ UNCHANGED <<cancel, parent, result, inflight, pel, s3Vars, localVars>>

Fire == \E s \in Sweep : Submit(s, Operator, TRUE)

-----------------------------------------------------------------------------
(* Deliveries.                                                             *)

Goto(w, step) == wpc' = [wpc EXCEPT ![w] = step]

Hold(w, j) ==
    /\ wjob' = [wjob EXCEPT ![w] = j]
    /\ Goto(w, IF j \in Child THEN "lookup" ELSE "exists")
    /\ wop' = [wop EXCEPT ![w] = IF j \in Child THEN FocusOf[j] ELSE NoJob]
    /\ UNCHANGED <<wchild, wbody, verdict, wout>>

\* The worker is done with the entry, which stays pending unless it was
\* acknowledged.
Leave(w) ==
    /\ Goto(w, "idle")
    /\ wjob' = [wjob EXCEPT ![w] = NoJob]
    /\ wop' = [wop EXCEPT ![w] = NoJob]
    /\ wchild' = [wchild EXCEPT ![w] = NoJob]
    /\ wbody' = [wbody EXCEPT ![w] = "none"]
    /\ verdict' = [verdict EXCEPT ![w] = Fresh]
    /\ wout' = [wout EXCEPT ![w] = "none"]

Deliver(w, j) ==
    /\ wpc[w] = "idle" /\ j \in queued
    /\ queued' = queued \ {j}
    /\ pel' = [pel EXCEPT ![j] = 1]
    /\ Hold(w, j)
    /\ UNCHANGED <<redisVars, s3Vars, mishaps>>

Cap(j) == IF j \in Child THEN MaxDeliveriesLinkest ELSE MaxDeliveries

ClearInflight(op) == inflight' = [inflight EXCEPT ![op] = NoJob]

\* XACK.  The entry's reference to its payload is gone with it, but for the copy
\* of another worker.
Ack(w, j) ==
    /\ pel' = [pel EXCEPT ![j] = 0]
    /\ parent' = IF j \in Child /\ ~\E v \in Worker \ {w} : wjob[v] = j
                 THEN [parent EXCEPT ![j] = NoJob] ELSE parent

\* An entry nobody renews is reclaimed, and given up at the cap; JobWorker has
\* the four steps of a dead-letter apart.
Reclaim(w, j) ==
    /\ wpc[w] = "idle" /\ j \in Pending
    /\ IF Held(j) THEN Mishap("lapse") ELSE UNCHANGED mishaps
    /\ IF pel[j] + 1 > Cap(j)
       THEN /\ state' = [state EXCEPT ![j] = "failed"]
            /\ IF j \in Child THEN ClearInflight(FocusOf[j]) ELSE UNCHANGED inflight
            /\ Ack(w, j)
            /\ UNCHANGED localVars
       ELSE /\ pel' = [pel EXCEPT ![j] = @ + 1]
            /\ Hold(w, j)
            /\ UNCHANGED <<state, inflight, parent>>
    /\ UNCHANGED <<cancel, plan, result, queued, s3Vars>>

-----------------------------------------------------------------------------
(* process_entry, up to the run of the job.                                *)

At(w, step) == wpc[w] = step
OfChild(w) == wjob[w] \in Child
Tagged(w) == wbody[w] = "tagged"

Unread == <<redisVars, streamVars, s3Vars, mishaps>>

\* SweepPayload::publish_tag: only a derived list may publish.
BodyOf(s) ==
    CASE plan[s] = NoPlan -> "none"
      [] plan[s].derived -> "tagged"
      [] OTHER -> "plain"

ReadBody(w, s) == wbody' = [wbody EXCEPT ![w] = BodyOf(s)]

\* A child reads the payload it shares, then the result cache: the former is
\* written once, before any child.
Lookup(w) ==
    /\ At(w, "lookup")
    /\ ReadBody(w, parent[wjob[w]])
    /\ IF wop[w] \in result
       THEN /\ wout' = [wout EXCEPT ![w] = "republished"]
            /\ Goto(w, IF wbody'[w] = "tagged" THEN "reconcile" ELSE "settle")
       ELSE Goto(w, "exists") /\ UNCHANGED wout
    /\ UNCHANGED <<Unread, wjob, wop, wchild, verdict>>

\* reconcile_cached_result: the alias is withheld from a cancelled job.
Reconcile(w) ==
    /\ At(w, "reconcile")
    /\ Goto(w, IF wjob[w] \in cancel THEN "settle" ELSE "persist")
    /\ UNCHANGED <<Unread, wjob, wop, wchild, wbody, verdict, wout>>

Outcome(w, out) ==
    /\ wout' = [wout EXCEPT ![w] = out]
    /\ Goto(w, "settle")

\* Step 4: a job whose state expired while queued is failed without a solve.
CheckExists(w) ==
    /\ At(w, "exists") /\ state[wjob[w]] = "none"
    /\ Outcome(w, "failed")
    /\ UNCHANGED <<Unread, wjob, wop, wchild, wbody, verdict>>

\* Step 5: an entry whose payload is gone is left pending.
StartChild(w) ==
    /\ At(w, "exists") /\ OfChild(w) /\ state[wjob[w]] # "none"
    /\ IF wbody[w] = "none"
       THEN Leave(w)
       ELSE Goto(w, "durable") /\ UNCHANGED <<wjob, wop, wchild, wbody, verdict, wout>>
    /\ UNCHANGED Unread

\* Gate 1 (the link counts) needs no call.
StartSweep(w) ==
    /\ At(w, "exists") /\ ~OfChild(w) /\ state[wjob[w]] # "none"
    /\ IF plan[wjob[w]] = NoPlan
       THEN Leave(w)
       ELSE /\ ReadBody(w, wjob[w])
            /\ verdict' = [verdict EXCEPT ![w] = [op \in Operator |->
                    IF op \in plan[wjob[w]].listed \intersect Solvable
                    THEN "todo" ELSE "skipped"]]
            /\ Goto(w, "next")
            /\ UNCHANGED <<wjob, wop, wchild, wout>>
    /\ UNCHANGED Unread

-----------------------------------------------------------------------------
(* run_sweep.                                                              *)

Found(w, buckets) == {op \in Operator : verdict[w][op] \in buckets}

\* Variant: the child created for the operator is kept.
FileOnly(w, bucket) ==
    /\ verdict' = [verdict EXCEPT ![w][wop[w]] = bucket]
    /\ wop' = [wop EXCEPT ![w] = NoJob]
    /\ Goto(w, "next")
    /\ UNCHANGED <<wjob, wchild, wbody, wout>>

\* The operator in hand is dealt with.
File(w, bucket) ==
    /\ verdict' = [verdict EXCEPT ![w][wop[w]] = bucket]
    /\ wop' = [wop EXCEPT ![w] = NoJob]
    /\ wchild' = [wchild EXCEPT ![w] = NoJob]
    /\ Goto(w, "next")
    /\ UNCHANGED <<wjob, wbody, wout>>

\* The cancel check before each operator.  The code takes the operators in
\* the order of their list; any order is allowed here.
NextOperator(w) ==
    /\ At(w, "next")
    /\ \E op \in Found(w, {"todo"}) :
        IF wjob[w] \in cancel
        THEN Outcome(w, "cancelled") /\ UNCHANGED wop
        ELSE wop' = [wop EXCEPT ![w] = op] /\ Goto(w, "find") /\ UNCHANGED wout
    /\ UNCHANGED <<Unread, wjob, wchild, wbody, verdict>>

\* find_cached_estimate: S3 first, then the Redis result cache, which is
\* filled after S3 (or at the same time); so the two reads are one step.
\* Variant: a result found in Redis is taken to be in S3 as well.
FindAnywhere(w) ==
    /\ At(w, "find")
    /\ Goto(w, IF wop[w] \in durable \union result THEN "alias" ELSE "claimed")
    /\ UNCHANGED <<Unread, wjob, wop, wchild, wbody, verdict, wout>>

Find(w) ==
    /\ At(w, "find")
    /\ IF wop[w] \in durable /\ ~Tagged(w)
       THEN File(w, "cached")
       ELSE /\ Goto(w, IF wop[w] \in durable THEN "alias"
                       ELSE IF wop[w] \in result THEN "persist" ELSE "claimed")
            /\ UNCHANGED <<wjob, wop, wchild, wbody, verdict, wout>>
    /\ UNCHANGED Unread

\* Variant: whoever holds the claim is taken to be at work.
CheckClaimBlind(w) ==
    /\ At(w, "claimed")
    /\ IF inflight[wop[w]] # NoJob
       THEN File(w, "running")
       ELSE Goto(w, "create") /\ UNCHANGED <<wjob, wop, wchild, wbody, verdict, wout>>
    /\ UNCHANGED Unread

\* get_inflight, then snapshot of the job it names: between the two only that
\* job's state could expire.
CheckClaim(w) ==
    /\ At(w, "claimed")
    /\ LET holder == inflight[wop[w]] IN
        IF holder # NoJob /\ state[holder] # "none"
        THEN File(w, "running")
        ELSE /\ Goto(w, IF holder = NoJob THEN "create" ELSE "stale")
             /\ UNCHANGED <<wjob, wop, wchild, wbody, verdict, wout>>
    /\ UNCHANGED Unread

ClearStale(w) ==
    /\ At(w, "stale")
    /\ ClearInflight(wop[w])
    /\ Goto(w, "create")
    /\ UNCHANGED <<state, cancel, plan, parent, result, streamVars, s3Vars,
                   wjob, wop, wchild, wbody, verdict, wout, mishaps>>

\* Bound: a child is created once one of its operator's ids is free.
Create(w) ==
    /\ At(w, "create")
    /\ LET ids == {c \in Child : FocusOf[c] = wop[w] /\ Unused(c)}
           c == CHOOSE c \in ids : TRUE
       IN  /\ ids # {}
           /\ state' = [state EXCEPT ![c] = "running"]
           /\ wchild' = [wchild EXCEPT ![w] = c]
    /\ Goto(w, "claim")
    /\ UNCHANGED <<cancel, plan, parent, result, inflight, streamVars, s3Vars, mishaps,
                   wjob, wop, wbody, verdict, wout>>

\* SET NX.
TryClaim(w) ==
    IF inflight[wop[w]] = NoJob
    THEN /\ inflight' = [inflight EXCEPT ![wop[w]] = wchild[w]]
         /\ Goto(w, "enqueue")
    ELSE Goto(w, "supersede") /\ UNCHANGED inflight

Claim(w) ==
    /\ At(w, "claim")
    /\ TryClaim(w)
    /\ UNCHANGED <<state, cancel, plan, parent, result, streamVars, s3Vars,
                   wjob, wop, wchild, wbody, verdict, wout, mishaps>>

Supersede(w) ==
    /\ At(w, "supersede")
    /\ state' = [state EXCEPT ![wchild[w]] = "failed"]
    /\ File(w, "superseded")
    /\ UNCHANGED <<cancel, plan, parent, result, inflight, streamVars, s3Vars, mishaps>>

\* enqueue_child: the entry refers to the payload of the sweep.
XAdd(w) ==
    /\ queued' = queued \union {wchild[w]}
    /\ parent' = [parent EXCEPT ![wchild[w]] = wjob[w]]

Enqueue(w) ==
    /\ At(w, "enqueue")
    /\ XAdd(w)
    /\ File(w, "enqueued")
    /\ UNCHANGED <<state, cancel, plan, result, inflight, pel, s3Vars, mishaps>>

UndoClaim(w) ==
    /\ At(w, "undo")
    /\ ClearInflight(wop[w])
    /\ Goto(w, "drop")
    /\ UNCHANGED <<state, cancel, plan, parent, result, streamVars, s3Vars,
                   wjob, wop, wchild, wbody, verdict, wout, mishaps>>

DropChild(w) ==
    /\ At(w, "drop")
    /\ state' = [state EXCEPT ![wchild[w]] = "failed"]
    /\ File(w, "failed")
    /\ UNCHANGED <<cancel, plan, parent, result, inflight, streamVars, s3Vars, mishaps>>

\* Every attempt to enqueue failed: the failures counted include those of
\* gate 2, the attempts the superseded children.
Outage(w) ==
    LET attempted == Found(w, {"superseded", "enqueued", "failed"})
    IN  /\ attempted # {} /\ Found(w, {"enqueued"}) = {}
        /\ Cardinality(Found(w, {"unpublished", "failed"})) = Cardinality(attempted)

\* Variant: a failed alias does not keep the marker back.
CompleteUnaliased(w) ==
    Tagged(w) /\ Found(w, {"enqueued", "running", "superseded", "failed"}) = {}

Complete(w) ==
    /\ Tagged(w)
    /\ Found(w, {"enqueued", "running", "superseded", "unpublished", "failed"}) = {}

\* The expansion is over: retried as a whole, or done, with the marker before
\* the verdict when nothing is left to do.
Conclude(w) ==
    /\ At(w, "next") /\ Found(w, {"todo"}) = {}
    /\ IF Outage(w)
       THEN Leave(w)
       ELSE /\ Goto(w, IF Complete(w) THEN "mark" ELSE "settle")
            /\ wout' = [wout EXCEPT ![w] = "done"]
            /\ UNCHANGED <<wjob, wop, wchild, wbody, verdict>>
    /\ UNCHANGED Unread

Mark(w) ==
    /\ At(w, "mark")
    /\ marker' = TRUE
    /\ Goto(w, "settle")
    /\ UNCHANGED <<redisVars, streamVars, durable, alias, puts,
                   wjob, wop, wchild, wbody, verdict, wout, mishaps>>

-----------------------------------------------------------------------------
(* run_link_estimate.                                                      *)

FindDurable(w) ==
    /\ At(w, "durable")
    /\ IF wop[w] \in durable
       THEN /\ wout' = [wout EXCEPT ![w] = "served"]
            /\ Goto(w, IF Tagged(w) THEN "flag" ELSE "settle")
       ELSE Goto(w, "solve") /\ UNCHANGED wout
    /\ UNCHANGED <<Unread, wjob, wop, wchild, wbody, verdict>>

Detach(w) == puts' = puts \union {wop[w]}

\* A cancel is seen between two coalitions, or not at all; a solve that fails
\* counts as a mishap, one that panics is an entry abandoned.
Solve(w) ==
    /\ At(w, "solve")
    /\ \/ /\ wout' = [wout EXCEPT ![w] = "done"]
          /\ IF Tagged(w)
             THEN Goto(w, "flag") /\ UNCHANGED puts
             ELSE Goto(w, "settle") /\ Detach(w)
          /\ UNCHANGED mishaps
       \/ /\ wjob[w] \in cancel
          /\ Outcome(w, "cancelled")
          /\ UNCHANGED <<puts, mishaps>>
       \/ /\ Mishap("unsolved")
          /\ Outcome(w, "failed")
          /\ UNCHANGED puts
    /\ UNCHANGED <<redisVars, streamVars, durable, alias, marker,
                   wjob, wop, wchild, wbody, verdict>>

\* The alias is withheld: a fresh result is stored all the same.
Withhold(w) ==
    /\ IF wout[w] = "done" THEN Detach(w) ELSE UNCHANGED puts
    /\ Goto(w, "settle")

\* should_skip_publication.
CheckFlag(w) ==
    /\ At(w, "flag")
    /\ IF wjob[w] \in cancel
       THEN Withhold(w)
       ELSE Goto(w, IF wout[w] = "served" THEN "alias" ELSE "persist") /\ UNCHANGED puts
    /\ UNCHANGED <<redisVars, streamVars, durable, alias, marker,
                   wjob, wop, wchild, wbody, verdict, wout, mishaps>>

-----------------------------------------------------------------------------
(* publish_link_estimate: the result, then the alias that names it.        *)

\* Only a sweep looks at the answer.
Published(w, bucket) ==
    IF OfChild(w)
    THEN Goto(w, "settle") /\ UNCHANGED <<wjob, wop, wchild, wbody, verdict, wout>>
    ELSE File(w, bucket)

Persist(w) ==
    /\ At(w, "persist")
    /\ durable' = durable \union {wop[w]}
    /\ IF Tagged(w)
       THEN Goto(w, "alias") /\ UNCHANGED <<wjob, wop, wchild, wbody, verdict, wout>>
       ELSE File(w, "cached")
    /\ UNCHANGED <<redisVars, streamVars, alias, marker, puts, mishaps>>

StoreAlias(w) ==
    /\ At(w, "alias")
    /\ alias' = alias \union {wop[w]}
    /\ Published(w, "cached")
    /\ UNCHANGED <<redisVars, streamVars, durable, marker, puts, mishaps>>

-----------------------------------------------------------------------------
(* Terminal handling: the verdict and the result cache, the claim, XACK.   *)

Verdict(w) == IF wout[w] \in {"republished", "served"} THEN "done" ELSE wout[w]

Settle(w) ==
    /\ At(w, "settle")
    /\ state' = [state EXCEPT ![wjob[w]] = Verdict(w)]
    /\ result' = IF OfChild(w) /\ wout[w] \in {"done", "served"}
                 THEN result \union {wop[w]} ELSE result
    /\ Goto(w, IF OfChild(w) THEN "clear" ELSE "ack")
    /\ UNCHANGED <<cancel, plan, parent, inflight, streamVars, s3Vars,
                   wjob, wop, wchild, wbody, verdict, wout, mishaps>>

ClearClaim(w) ==
    /\ At(w, "clear")
    /\ ClearInflight(wop[w])
    /\ Goto(w, "ack")
    /\ UNCHANGED <<state, cancel, plan, parent, result, streamVars, s3Vars,
                   wjob, wop, wchild, wbody, verdict, wout, mishaps>>

Acknowledge(w) ==
    /\ At(w, "ack")
    /\ Ack(w, wjob[w])
    /\ Leave(w)
    /\ UNCHANGED <<state, cancel, plan, result, inflight, queued, s3Vars, mishaps>>

WorkerStep(w) ==
    \/ Lookup(w) \/ Reconcile(w)
    \/ CheckExists(w) \/ StartChild(w) \/ StartSweep(w)
    \/ NextOperator(w) \/ Find(w)
    \/ CheckClaim(w) \/ ClearStale(w)
    \/ Create(w) \/ Claim(w) \/ Supersede(w) \/ Enqueue(w)
    \/ UndoClaim(w) \/ DropChild(w)
    \/ Conclude(w) \/ Mark(w)
    \/ FindDurable(w) \/ Solve(w) \/ CheckFlag(w)
    \/ Persist(w) \/ StoreAlias(w)
    \/ Settle(w) \/ ClearClaim(w) \/ Acknowledge(w)

-----------------------------------------------------------------------------
(* What goes wrong.                                                        *)

\* A crash, a panic, or an error the code passes up: the entry stays pending.
Abandon(w) ==
    /\ Mishap("crash")
    /\ wjob[w] # NoJob
    /\ Leave(w)
    /\ UNCHANGED <<redisVars, streamVars, s3Vars>>

\* An outage that failed an enqueue may last until the operator is dealt with.
Fault(w) ==
    IF wpc[w] \in {"undo", "drop"} THEN UNCHANGED mishaps ELSE Mishap("fault")

\* Errors after which the code goes on with its next step.
NextOnError == {<<"find", "persist">>, <<"find", "claimed">>,
    <<"claimed", "create">>, <<"claimed", "stale">>, <<"stale", "create">>,
    <<"claim", "enqueue">>, <<"enqueue", "undo">>, <<"undo", "drop">>,
    <<"mark", "settle">>, <<"durable", "solve">>, <<"clear", "ack">>}

CallFails(w) ==
    /\ Fault(w)
    /\ \E onError \in NextOnError :
          /\ At(w, onError[1]) /\ Goto(w, onError[2])
          /\ onError = <<"claimed", "stale">> => inflight[wop[w]] # NoJob
          /\ onError = <<"find", "persist">> => wop[w] \in result
    /\ UNCHANGED <<redisVars, streamVars, s3Vars, wjob, wop, wchild, wbody, verdict, wout>>

\* Errors that decide the bucket of the operator in hand.
Unfiled(w) ==
    /\ Fault(w)
    /\ \/ At(w, "create") /\ File(w, "failed")
       \/ At(w, "supersede") /\ File(w, "superseded")
       \/ At(w, "drop") /\ File(w, "failed")
       \/ wpc[w] \in {"persist", "alias"} /\ Published(w, "unpublished")
    /\ UNCHANGED <<redisVars, streamVars, s3Vars>>

FlagUnread(w) ==
    /\ At(w, "flag") /\ Mishap("fault")
    /\ Withhold(w)
    /\ UNCHANGED <<redisVars, streamVars, durable, alias, marker,
                   wjob, wop, wchild, wbody, verdict, wout>>

\* The write was carried out, and the worker is told it was not.
ReplyLost(w) ==
    /\ Mishap("fault")
    /\ \/ /\ At(w, "claim") /\ Goto(w, "enqueue")
          /\ inflight[wop[w]] = NoJob
          /\ inflight' = [inflight EXCEPT ![wop[w]] = wchild[w]]
          /\ UNCHANGED <<queued, parent, durable, alias, marker,
                         wjob, wop, wchild, wbody, verdict, wout>>
       \/ /\ At(w, "enqueue") /\ Goto(w, "undo")
          /\ XAdd(w)
          /\ UNCHANGED <<inflight, durable, alias, marker,
                         wjob, wop, wchild, wbody, verdict, wout>>
       \/ /\ At(w, "persist") /\ Published(w, "unpublished")
          /\ durable' = durable \union {wop[w]}
          /\ UNCHANGED <<queued, parent, inflight, alias, marker>>
       \/ /\ At(w, "alias") /\ Published(w, "unpublished")
          /\ alias' = alias \union {wop[w]}
          /\ UNCHANGED <<queued, parent, inflight, durable, marker>>
       \/ /\ At(w, "mark") /\ Goto(w, "settle")
          /\ marker' = TRUE
          /\ UNCHANGED <<queued, parent, inflight, durable, alias,
                         wjob, wop, wchild, wbody, verdict, wout>>
    /\ UNCHANGED <<state, cancel, plan, result, pel, puts>>

\* result_cache_set fails after set_done.
ResultNotCached(w) ==
    /\ At(w, "settle") /\ wout[w] \in {"done", "served"} /\ OfChild(w)
    /\ Mishap("fault")
    /\ state' = [state EXCEPT ![wjob[w]] = Verdict(w)]
    /\ Goto(w, "clear")
    /\ UNCHANGED <<cancel, plan, parent, result, inflight, streamVars, s3Vars,
                   wjob, wop, wchild, wbody, verdict, wout>>

PutLands ==
    /\ \E op \in puts : durable' = durable \union {op} /\ puts' = puts \ {op}
    /\ UNCHANGED <<redisVars, streamVars, alias, marker, localVars, mishaps>>

PutLost ==
    /\ Mishap("fault")
    /\ \E op \in puts : puts' = puts \ {op}
    /\ UNCHANGED <<redisVars, streamVars, durable, alias, marker, localVars>>

\* DELETE /jobs/{id}.
RequestCancel(j) ==
    /\ Mishap("cancel")
    /\ state[j] # "none"
    /\ cancel' = cancel \union {j}
    /\ UNCHANGED <<state, plan, parent, result, inflight, streamVars, s3Vars, localVars>>

-----------------------------------------------------------------------------
(* Time.                                                                   *)

Named(j) == Held(j) \/ \E w \in Worker : wchild[w] = j

Serves(s) == \E c \in Live : c \in Child /\ parent[c] = s

\* A verdict is kept for a day, the state of a job nobody works on for half an
\* hour; entries are taken up sooner than that.  The payload of a sweep goes
\* with its verdict: both last a day.
StateExpires(j) ==
    /\ state[j] # "none" /\ j \notin Live /\ ~Named(j) /\ ~Serves(j)
    /\ state' = [state EXCEPT ![j] = "none"]
    /\ plan' = IF j \in Sweep THEN [plan EXCEPT ![j] = NoPlan] ELSE plan
    /\ UNCHANGED <<cancel, parent, result, inflight, streamVars, s3Vars, localVars, mishaps>>

\* An entry waits for longer than its job's state lives.
WaitsTooLong(j) ==
    /\ Mishap("wait")
    /\ state[j] = "running" /\ j \in Live /\ ~Held(j)
    /\ state' = [state EXCEPT ![j] = "none"]
    /\ UNCHANGED <<cancel, plan, parent, result, inflight, streamVars, s3Vars, localVars>>

\* A sweep's payload goes before its entry or its children are taken up.
PayloadExpires(s) ==
    /\ Mishap("wait")
    /\ plan[s] # NoPlan
    /\ plan' = [plan EXCEPT ![s] = NoPlan]
    /\ UNCHANGED <<state, cancel, parent, result, inflight, streamVars, s3Vars, localVars>>

CancelExpires(j) ==
    /\ j \in cancel
    /\ cancel' = cancel \ {j}
    /\ UNCHANGED <<state, plan, parent, result, inflight, streamVars, s3Vars, localVars, mishaps>>

\* An hour: a detached write ends sooner.
ResultExpires(op) ==
    /\ op \in result \ puts
    /\ result' = result \ {op}
    /\ UNCHANGED <<state, cancel, plan, parent, inflight, streamVars, s3Vars, localVars, mishaps>>

\* A day: the job that claims has ended, or never began.
InflightExpires(op) ==
    /\ inflight[op] # NoJob
    /\ inflight[op] \notin Live /\ ~Named(inflight[op])
    /\ ClearInflight(op)
    /\ UNCHANGED <<state, cancel, plan, parent, result, streamVars, s3Vars, localVars, mishaps>>

Next ==
    \/ \E s \in Sweep, list \in SUBSET Operator, derived \in BOOLEAN :
            Submit(s, list, derived)
    \/ \E w \in Worker, j \in Job : Deliver(w, j) \/ Reclaim(w, j)
    \/ \E w \in Worker :
            \/ WorkerStep(w)
            \/ Abandon(w) \/ CallFails(w) \/ Unfiled(w) \/ FlagUnread(w)
            \/ ReplyLost(w) \/ ResultNotCached(w)
    \/ PutLands \/ PutLost
    \/ \E j \in Job :
            RequestCancel(j) \/ StateExpires(j) \/ WaitsTooLong(j) \/ CancelExpires(j)
    \/ \E s \in Sweep : PayloadExpires(s)
    \/ \E op \in Solvable : ResultExpires(op) \/ InflightExpires(op)

Spec == Init /\ [][Next]_vars

\* Calls end (each has a timeout); the stream is first in, first out; dead
\* workers' entries are reclaimed; keys expire; the cron keeps firing.
Fairness ==
    /\ \A w \in Worker : WF_vars(WorkerStep(w))
    /\ \A j \in Job : SF_vars(\E w \in Worker : Deliver(w, j))
    /\ \A j \in Job : SF_vars(~Held(j) /\ \E w \in Worker : Reclaim(w, j))
    /\ \A j \in Job : WF_vars(StateExpires(j)) /\ WF_vars(CancelExpires(j))
    /\ WF_vars(PutLands)
    /\ WF_vars(Fire)

FairSpec == Spec /\ Fairness

-----------------------------------------------------------------------------
(* Properties.                                                             *)

\* An alias never dangles: it is written after the result it names
\* (worker.rs:1222-1240, cache.rs:505-533).
AliasesResolve == alias \subseteq durable

\* The marker stands for a finished epoch: with it the cron stops sweeping, so
\* whatever was not published by then never will be (worker.rs:805-814).
MarkerMeansComplete == marker => Solvable \subseteq alias

\* With the cron firing, the epoch ends up swept, whatever is lost on the way.
Swept == <>marker
=============================================================================
