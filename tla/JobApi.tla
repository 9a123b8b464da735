------------------------------- MODULE JobApi -------------------------------
(***************************************************************************)
(* The submission handlers of the api role (routes.rs): simulate_start and *)
(* link_estimate_start.  One step per call to Redis or S3; every call may  *)
(* fail, and the handler's future is dropped at any of them when the       *)
(* client disconnects or the process dies.                                 *)
(*                                                                         *)
(* api[j] names the next call of the handler that submits job j:           *)
(*   new        not submitted                                              *)
(*   check, clear        the attach path (link estimates only)             *)
(*   create, lookup, serve                                                 *)
(*   claim, lost, verify, tidy   the claim path (link estimates only)      *)
(*   store, add          payload String, then XADD                         *)
(*   undo, fail          the enqueue-error path                            *)
(* and how it ended: accepted (202 with its own id), attached (202 with    *)
(* another's id), error (500), gone (dropped).                             *)
(***************************************************************************)
EXTENDS JobStore

VARIABLES
    api,            \* the next call of each submission
    seen            \* the other job a submission read from the claim

apiVars == <<api, seen>>

Ended == {"accepted", "attached", "error", "gone"}

ApiPc ==
    {"new", "check", "clear", "create", "lookup", "serve", "claim", "lost",
     "verify", "tidy", "store", "add", "undo", "fail"} \union Ended

ApiTypeOK ==
    /\ api \in [Job -> ApiPc]
    /\ seen \in [Job -> Job \union {NoJob}]

ApiInit ==
    /\ api = [j \in Job |-> "new"]
    /\ seen = [j \in Job |-> NoJob]

Goto(j, pc) == api' = [api EXCEPT ![j] = pc]

\* A handler that is between two calls.
InHandler(j) == api[j] \notin Ended \union {"new"}

-----------------------------------------------------------------------------
(* The attach path: an existing claim is joined if its job still exists,   *)
(* and cleared as stale if not.                                            *)

PeekClaim(j) ==
    /\ api[j] = "new" /\ j \in Linkest
    /\ seen' = [seen EXCEPT ![j] = inflight[HashOf[j]]]
    /\ Goto(j, IF Claimed(HashOf[j]) THEN "check" ELSE "create")
    /\ UNCHANGED <<keyVars, streamVars, s3Vars, asked, left>>

CheckClaim(j) ==
    /\ api[j] = "check"
    /\ Goto(j, IF Exists(seen[j]) THEN "attached" ELSE "clear")
    /\ UNCHANGED <<seen, keyVars, streamVars, s3Vars, asked, left>>

ClearStale(j) ==
    /\ api[j] = "clear"
    /\ ClearInflight(HashOf[j])
    /\ Goto(j, "create")
    /\ UNCHANGED <<seen, state, payload, cancel, result, streamVars, s3Vars, asked, left>>

-----------------------------------------------------------------------------
Create(j) ==
    /\ api[j] = "create" \/ (api[j] = "new" /\ j \notin Linkest)
    /\ SetState(j, "running")
    /\ Goto(j, "lookup")
    /\ UNCHANGED <<seen, payload, cancel, result, inflight, streamVars, s3Vars, asked, left>>

AfterMiss(j) == IF j \in Linkest THEN "claim" ELSE "store"

LookupDurable(j) ==
    /\ api[j] = "lookup"
    /\ Goto(j, IF HashOf[j] \in durable THEN "serve" ELSE AfterMiss(j))
    /\ UNCHANGED <<seen, keyVars, streamVars, s3Vars, asked, left>>

ServeDurable(j) ==
    /\ api[j] = "serve"
    /\ SetState(j, "done")
    /\ Goto(j, "accepted")
    /\ UNCHANGED <<seen, payload, cancel, result, inflight, streamVars, s3Vars, asked, left>>

-----------------------------------------------------------------------------
(* The claim path: SET NX; a loser attaches to the winner if it can still  *)
(* see it, and otherwise goes on WITHOUT a claim.                          *)

Claim(j) ==
    /\ api[j] = "claim"
    /\ ClaimInflight(j)
    /\ Goto(j, IF Claimed(HashOf[j]) THEN "lost" ELSE "store")
    /\ UNCHANGED <<seen, state, payload, cancel, result, streamVars, s3Vars, asked, left>>

FindWinner(j) ==
    /\ api[j] = "lost"
    /\ seen' = [seen EXCEPT ![j] = inflight[HashOf[j]]]
    /\ Goto(j, IF inflight[HashOf[j]] \notin {NoJob, j} THEN "verify" ELSE "store")
    /\ UNCHANGED <<keyVars, streamVars, s3Vars, asked, left>>

VerifyWinner(j) ==
    /\ api[j] = "verify"
    /\ Goto(j, IF Exists(seen[j]) THEN "tidy" ELSE "store")
    /\ UNCHANGED <<seen, keyVars, streamVars, s3Vars, asked, left>>

Tidy(j) ==
    /\ api[j] = "tidy"
    /\ SetState(j, "failed")
    /\ Goto(j, "attached")
    /\ UNCHANGED <<seen, payload, cancel, result, inflight, streamVars, s3Vars, asked, left>>

-----------------------------------------------------------------------------
StorePayload(j) ==
    /\ api[j] = "store"
    /\ payload' = payload \union {j}
    /\ Goto(j, "add")
    /\ UNCHANGED <<seen, state, cancel, result, inflight, streamVars, s3Vars, asked, left>>

Enqueue(j) ==
    /\ api[j] = "add"
    /\ XAdd(j)
    /\ Goto(j, "accepted")
    /\ UNCHANGED <<seen, keyVars, delivered, pel, idle, dead, s3Vars, asked, left>>

\* The error path removes the claim on the hash, own or not, then fails the job.
UndoClaim(j) ==
    /\ api[j] = "undo"
    /\ ClearInflight(HashOf[j])
    /\ Goto(j, "fail")
    /\ UNCHANGED <<seen, state, payload, cancel, result, streamVars, s3Vars, asked, left>>

FailEnqueue(j) ==
    /\ api[j] = "fail"
    /\ SetState(j, "failed")
    /\ Goto(j, "error")
    /\ UNCHANGED <<seen, payload, cancel, result, inflight, streamVars, s3Vars, asked, left>>

-----------------------------------------------------------------------------
(* A call that fails.  A claim snapshot that cannot be read counts as a    *)
(* vanished job; an unreadable S3 object counts as a miss; a claim that    *)
(* cannot be set is done without.                                          *)

OnError(j) ==
    CASE api[j] = "new"    -> "create"
      [] api[j] = "check"  -> "clear"
      [] api[j] = "clear"  -> "create"
      [] api[j] = "lookup" -> AfterMiss(j)
      [] api[j] \in {"claim", "lost", "verify"} -> "store"
      [] api[j] = "tidy"   -> "attached"
      [] api[j] \in {"store", "add"} -> IF j \in Linkest THEN "undo" ELSE "fail"
      [] api[j] = "undo"   -> "fail"
      [] OTHER             -> "error"

CallFails(j) ==
    /\ InHandler(j) \/ (api[j] = "new" /\ j \in Linkest)
    /\ Spend("fault")
    /\ Goto(j, OnError(j))
    /\ UNCHANGED <<seen, keyVars, streamVars, s3Vars, asked>>

\* A claim or an entry that Redis did write, whose reply is lost.
ReplyLost(j) ==
    /\ Spend("fault")
    /\ Goto(j, OnError(j))
    /\ \/ /\ api[j] = "claim"
          /\ ClaimInflight(j)
          /\ UNCHANGED streamVars
       \/ /\ api[j] = "add"
          /\ XAdd(j)
          /\ UNCHANGED <<inflight, delivered, pel, idle, dead>>
    /\ UNCHANGED <<seen, state, payload, cancel, result, s3Vars, asked>>

HandlerDropped(j) ==
    /\ InHandler(j)
    /\ Spend("fault")
    /\ Goto(j, "gone")
    /\ UNCHANGED <<seen, keyVars, streamVars, s3Vars, asked>>

ApiStep(j) ==
    \/ PeekClaim(j) \/ CheckClaim(j) \/ ClearStale(j)
    \/ Create(j) \/ LookupDurable(j) \/ ServeDurable(j)
    \/ Claim(j) \/ FindWinner(j) \/ VerifyWinner(j) \/ Tidy(j)
    \/ StorePayload(j) \/ Enqueue(j) \/ UndoClaim(j) \/ FailEnqueue(j)

ApiFault(j) == CallFails(j) \/ ReplyLost(j) \/ HandlerDropped(j)
=============================================================================
