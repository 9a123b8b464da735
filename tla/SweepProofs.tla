---------------------------- MODULE SweepProofs ----------------------------
(***************************************************************************)
(* What a sweep publishes, for any operators, workers, job ids and         *)
(* mishaps: types, no alias dangles, and the marker stands for a finished  *)
(* epoch.                                                                  *)
(*                                                                         *)
(* The argument: a worker comes to write an alias with its result in S3    *)
(* (Backed); under a tag, "cached" means that the alias is there and       *)
(* "skipped" that there is nothing to solve (Summary), the latter because  *)
(* only a list of every operator carries a tag (Derived); so an expansion  *)
(* with nothing but those two has nothing left to publish (Finished).      *)
(*                                                                         *)
(* For the types (TInv), what a worker has in hand at each step: an entry  *)
(* unless it is idle, an operator from gate 2 or the delivery of a child   *)
(* on, a child from its creation until its operator is filed (Carries);    *)
(* whoever settles has an outcome (Decided).                               *)
(***************************************************************************)
EXTENDS Sweep, TLAPS

\* The types the steps rely on.
Typed ==
    /\ plan \in [Sweep -> [listed : SUBSET Operator, derived : BOOLEAN]]
    /\ wpc \in [Worker -> Step]
    /\ wjob \in [Worker -> Job \union {NoJob}]
    /\ wop \in [Worker -> Operator \union {NoJob}]
    /\ wbody \in [Worker -> {"none", "plain", "tagged"}]
    /\ verdict \in [Worker -> [Operator -> Bucket]]
    /\ wout \in [Worker -> Terminal \union {"none", "republished", "served"}]

Derived == \A s \in Sweep : plan[s].derived => plan[s].listed = Operator

Begun(w) ==
    /\ wpc[w] # "idle" => wjob[w] \in Job
    /\ wpc[w] \in {"idle", "lookup", "exists"} => verdict[w] = Fresh

Backed(w) ==
    wpc[w] = "alias" \/ (wpc[w] = "flag" /\ wout[w] = "served") => wop[w] \in durable

Summary(w) ==
    Tagged(w) => \A op \in Operator : /\ verdict[w][op] = "cached" => op \in alias
                                      /\ verdict[w][op] = "skipped" => op \notin Solvable

Finished(w) == wpc[w] = "mark" => Solvable \subseteq alias

Knows(w) == Begun(w) /\ Backed(w) /\ Summary(w) /\ Finished(w)

IInv ==
    /\ Typed /\ Derived
    /\ \A w \in Worker : Knows(w)
    /\ AliasesResolve /\ MarkerMeansComplete

LEMMA InitIInv == Init => IInv
  <1> SUFFICES ASSUME Init  PROVE IInv
    OBVIOUS
  <1>1. /\ Fresh \in [Operator -> Bucket] /\ \A op \in Operator : Fresh[op] = "todo"
        /\ NoPlan \in [listed : SUBSET Operator, derived : BOOLEAN] /\ ~NoPlan.derived
    BY DEF Fresh, Bucket, NoPlan
  <1>2. Typed /\ Derived
    BY <1>1 DEF Init, Typed, Derived, Step, Terminal
  <1>3. \A w \in Worker : Knows(w)
    BY <1>1 DEF Init, Knows, Begun, Backed, Summary, Finished, Tagged
  <1> QED
    BY <1>2, <1>3 DEF Init, IInv, AliasesResolve, MarkerMeansComplete

-----------------------------------------------------------------------------
(* Steps that move one worker.                                             *)

\* The local state of a worker may change, S3 may grow, plans stay.
Moves(w) ==
    /\ UNCHANGED plan
    /\ wpc' = [wpc EXCEPT ![w] = wpc'[w]] /\ wpc'[w] \in Step
    /\ wjob' = [wjob EXCEPT ![w] = wjob'[w]] /\ wjob'[w] \in Job \union {NoJob}
    /\ wop' = [wop EXCEPT ![w] = wop'[w]] /\ wop'[w] \in Operator \union {NoJob}
    /\ wbody' = [wbody EXCEPT ![w] = wbody'[w]] /\ wbody'[w] \in {"none", "plain", "tagged"}
    /\ verdict' = [verdict EXCEPT ![w] = verdict'[w]] /\ verdict'[w] \in [Operator -> Bucket]
    /\ wout' = [wout EXCEPT ![w] = wout'[w]]
    /\ wout'[w] \in Terminal \union {"none", "republished", "served"}

\* What one worker knows is no other's business.
LEMMA MovesOne ==
  ASSUME IInv, NEW w \in Worker, Moves(w), Knows(w)',
         durable \subseteq durable', alias \subseteq alias',
         AliasesResolve', MarkerMeansComplete'
  PROVE  IInv'
  <1>2. Typed' /\ Derived'
    BY DEF IInv, Typed, Derived, Moves
  <1>3. ASSUME NEW v \in Worker, v # w
        PROVE  /\ wpc'[v] = wpc[v] /\ wjob'[v] = wjob[v] /\ wop'[v] = wop[v]
               /\ wbody'[v] = wbody[v] /\ verdict'[v] = verdict[v] /\ wout'[v] = wout[v]
    BY <1>3 DEF IInv, Typed, Moves
  <1>4. ASSUME NEW v \in Worker, v # w  PROVE Knows(v)'
    BY <1>3, <1>4 DEF IInv, Knows, Begun, Backed, Summary, Finished, Tagged
  <1> QED
    BY <1>2, <1>4 DEF IInv

LEMMA Own ==
  ASSUME Typed, NEW w \in Worker
  PROVE  /\ wpc[w] \in Step /\ wjob[w] \in Job \union {NoJob}
         /\ wop[w] \in Operator \union {NoJob} /\ wbody[w] \in {"none", "plain", "tagged"}
         /\ verdict[w] \in [Operator -> Bucket]
         /\ wout[w] \in Terminal \union {"none", "republished", "served"}
  BY DEF Typed

LEMMA FreshFacts ==
  Fresh \in [Operator -> Bucket] /\ \A op \in Operator : Fresh[op] = "todo"
  BY DEF Fresh, Bucket

LEMMA Bodies == ASSUME NEW s  PROVE BodyOf(s) \in {"none", "plain", "tagged"}
  BY DEF BodyOf

\* The worker goes to a step whose promises hold.
LEMMA Goes ==
  ASSUME IInv, NEW w \in Worker, Moves(w), wpc[w] # "idle",
         wpc'[w] \notin {"idle", "lookup", "exists"}, Backed(w)', Finished(w)',
         UNCHANGED <<wjob, wbody, verdict, alias, marker>>,
         durable \subseteq durable'
  PROVE  IInv'
  <1>1. Knows(w)'
    BY DEF IInv, Knows, Begun, Summary, Tagged
  <1> QED
    BY <1>1, MovesOne DEF IInv, AliasesResolve, MarkerMeansComplete

LEMMA Leaves ==
  ASSUME IInv, NEW w \in Worker, Leave(w), UNCHANGED <<plan, alias, durable, marker>>
  PROVE  IInv'
  <1>1. Moves(w)
    BY FreshFacts DEF Moves, Leave, Goto, Step, Terminal, IInv, Typed
  <1>2. /\ wpc'[w] = "idle" /\ verdict'[w] = Fresh /\ wbody'[w] = "none"
    BY DEF Leave, Goto, IInv, Typed
  <1>3. Knows(w)'
    BY <1>2, FreshFacts DEF Knows, Begun, Backed, Summary, Finished, Tagged
  <1> QED
    BY <1>1, <1>3, MovesOne DEF IInv, AliasesResolve, MarkerMeansComplete

\* Under a tag, only what has its alias is filed as cached.
LEMMA Files ==
  ASSUME IInv, NEW w \in Worker, NEW bucket \in Bucket \ {"skipped"}, File(w, bucket),
         wpc[w] # "idle",
         bucket = "cached" /\ Tagged(w) => wop[w] \in alias',
         UNCHANGED <<plan, marker>>,
         durable \subseteq durable', alias \subseteq alias', AliasesResolve'
  PROVE  IInv'
  <1> DEFINE filed == [verdict[w] EXCEPT ![wop[w]] = bucket]
  <1>1. filed \in [Operator -> Bucket] /\ verdict' = [verdict EXCEPT ![w] = filed]
    BY Own DEF File, IInv
  <1>2. \A op \in Operator : filed[op] = IF op = wop[w] THEN bucket ELSE verdict[w][op]
    BY Own DEF IInv
  <1> HIDE DEF filed
  <1>3. Moves(w)
    BY <1>1, Own DEF Moves, File, Goto, IInv, Step, Typed
  <1>4. /\ wpc'[w] = "next" /\ wjob'[w] = wjob[w]
        /\ wbody'[w] = wbody[w] /\ verdict'[w] = filed
    BY <1>1 DEF File, Goto, IInv, Typed
  <1>5. Knows(w)'
    <2>1. Begun(w)' /\ Backed(w)' /\ Finished(w)'
      BY <1>4 DEF IInv, Knows, Begun, Backed, Finished
    <2>2. Summary(w)'
      BY <1>2, <1>4 DEF IInv, Knows, Summary, Tagged
    <2> QED
      BY <2>1, <2>2 DEF Knows
  <1> QED
    BY <1>3, <1>5, MovesOne DEF IInv, MarkerMeansComplete

-----------------------------------------------------------------------------
(* Deliveries and the start of an entry.                                   *)

LEMMA Holds ==
  ASSUME IInv, NEW w \in Worker, NEW j \in Job, wpc[w] = "idle", Hold(w, j),
         UNCHANGED <<plan, alias, durable, marker>>
  PROVE  IInv'
  <1>1. j \in Child => FocusOf[j] \in Operator
    BY SweepAssumption
  <1>2. Moves(w)
    BY <1>1, Own DEF Moves, Hold, Goto, IInv, Typed, Step
  <1>3. wpc'[w] \in {"lookup", "exists"} /\ wjob'[w] = j /\ UNCHANGED <<wbody, verdict>>
    BY DEF Hold, Goto, IInv, Typed
  <1>4. Knows(w)'
    BY <1>3 DEF IInv, Knows, Begun, Backed, Summary, Finished, Tagged
  <1> QED
    BY <1>2, <1>4, MovesOne DEF IInv, AliasesResolve, MarkerMeansComplete

LEMMA Deliveries ==
  ASSUME IInv, NEW w \in Worker, NEW j \in Job, Deliver(w, j) \/ Reclaim(w, j)
  PROVE  IInv'
  <1>1. CASE Deliver(w, j)
    BY <1>1, Holds DEF Deliver, redisVars, s3Vars
  <1>2. CASE Reclaim(w, j) /\ Hold(w, j)
    BY <1>2, Holds DEF Reclaim, s3Vars
  <1>3. CASE Reclaim(w, j) /\ UNCHANGED localVars
    BY <1>3 DEF Reclaim, s3Vars, localVars, IInv, Typed, Derived, Knows, Begun, Backed,
       Summary, Finished, Tagged, AliasesResolve, MarkerMeansComplete
  <1> QED
    BY <1>1, <1>2, <1>3 DEF Reclaim

LEMMA Looks ==
  ASSUME IInv, NEW w \in Worker, Lookup(w)
  PROVE  IInv'
  <1>1. BodyOf(parent[wjob[w]]) \in {"none", "plain", "tagged"}
    BY Bodies
  <1>2. /\ wpc[w] = "lookup" /\ verdict' = verdict /\ wjob' = wjob /\ wop' = wop
        /\ wbody' = [wbody EXCEPT ![w] = BodyOf(parent[wjob[w]])]
        /\ wpc'[w] \in {"reconcile", "settle", "exists"} /\ wpc' = [wpc EXCEPT ![w] = wpc'[w]]
        /\ wout' = wout \/ wout' = [wout EXCEPT ![w] = "republished"]
        /\ UNCHANGED <<plan, alias, durable, marker>>
    BY DEF Lookup, At, ReadBody, Goto, Unread, redisVars, s3Vars, IInv, Typed
  <1>3. Moves(w)
    BY <1>1, <1>2 DEF Moves, IInv, Typed, Step
  <1>4. verdict'[w] = Fresh
    BY <1>2 DEF IInv, Knows, Begun
  <1>5. Knows(w)'
    BY <1>2, <1>4, FreshFacts DEF IInv, Knows, Begun, Backed, Summary, Finished, Tagged
  <1> QED
    BY <1>2, <1>3, <1>5, MovesOne DEF IInv, AliasesResolve, MarkerMeansComplete

\* The gate of the link counts; under a tag it lets every solvable operator by.
LEMMA StartsSweep ==
  ASSUME IInv, NEW w \in Worker, StartSweep(w)
  PROVE  IInv'
  <1>1. CASE plan[wjob[w]] = NoPlan
    BY <1>1, Leaves DEF StartSweep, Unread, redisVars, s3Vars
  <1>2. CASE plan[wjob[w]] # NoPlan
    <2> DEFINE s == wjob[w]
               gate == [op \in Operator |-> IF op \in plan[s].listed \intersect Solvable
                                            THEN "todo" ELSE "skipped"]
    <2>1. /\ wpc[w] = "exists" /\ wpc' = [wpc EXCEPT ![w] = "next"]
          /\ wbody' = [wbody EXCEPT ![w] = BodyOf(s)]
          /\ verdict' = [verdict EXCEPT ![w] = gate]
          /\ UNCHANGED <<wjob, wop, wout, plan, alias, durable, marker>>
      BY <1>2 DEF StartSweep, At, ReadBody, Goto, Unread, redisVars, s3Vars
    <2>2. gate \in [Operator -> Bucket]
      BY DEF Bucket
    <2>3. s \in Sweep
      BY <2>1 DEF StartSweep, OfChild, Job, IInv, Knows, Begun
    <2>4. Moves(w)
      BY <2>1, <2>2, Bodies DEF Moves, IInv, Typed, Step
    <2>5. wbody'[w] = BodyOf(s) /\ verdict'[w] = gate /\ wpc'[w] = "next"
      BY <2>1 DEF IInv, Typed
    <2>6. BodyOf(s) = "tagged" => plan[s].listed = Operator
      BY <1>2, <2>3 DEF BodyOf, IInv, Derived, Typed
    <2>7. Summary(w)'
      BY <2>5, <2>6, SweepAssumption DEF Summary, Tagged
    <2>8. Knows(w)'
      BY <2>1, <2>5, <2>7 DEF IInv, Knows, Begun, Backed, Finished
    <2> QED
      BY <2>1, <2>4, <2>8, MovesOne DEF IInv, AliasesResolve, MarkerMeansComplete
  <1> QED
    BY <1>1, <1>2

-----------------------------------------------------------------------------
(* The expansion.                                                          *)

LEMMA Expands ==
  ASSUME IInv, NEW w \in Worker,
         \/ Reconcile(w) \/ CheckExists(w) \/ NextOperator(w) \/ ClearStale(w) \/ Create(w)
         \/ Claim(w) \/ UndoClaim(w) \/ CallFails(w)
  PROVE  IInv'
  <1> USE DEF At, Goto, Outcome, Unread, redisVars, s3Vars
  <1>1. /\ wpc[w] # "idle" /\ wpc' = [wpc EXCEPT ![w] = wpc'[w]]
        /\ wpc'[w] \in Step \ {"idle", "lookup", "exists", "alias", "flag", "mark"}
    BY DEF IInv, Typed, Step, Reconcile, CheckExists, NextOperator, ClearStale, Create, Claim,
       TryClaim, UndoClaim, CallFails, NextOnError
  <1>2. UNCHANGED <<plan, wjob, wbody, verdict, alias, durable, marker>>
    BY DEF Reconcile, CheckExists, NextOperator, ClearStale, Create, Claim, UndoClaim, CallFails
  <1>3. /\ wop' = [wop EXCEPT ![w] = wop'[w]] /\ wop'[w] \in Operator \union {NoJob}
        /\ wout' = [wout EXCEPT ![w] = wout'[w]]
        /\ wout'[w] \in Terminal \union {"none", "republished", "served"}
    BY DEF IInv, Typed, Terminal, Found, Reconcile, CheckExists, NextOperator, ClearStale,
       Create, Claim, UndoClaim, CallFails
  <1>4. Moves(w)
    BY <1>1, <1>2, <1>3 DEF Moves, IInv, Typed
  <1>5. Backed(w)' /\ Finished(w)'
    BY <1>1 DEF Backed, Finished
  <1> QED
    BY <1>1, <1>2, <1>4, <1>5, Goes

LEMMA Finds ==
  ASSUME IInv, NEW w \in Worker, Find(w) \/ CheckClaim(w)
  PROVE  IInv'
  <1>1. UNCHANGED <<plan, alias, durable, marker>> /\ wpc[w] \in {"find", "claimed"}
    BY DEF Find, CheckClaim, At, Unread, redisVars, s3Vars
  <1>2. CASE \/ File(w, "cached") /\ ~Tagged(w)
             \/ File(w, "running")
    BY <1>1, <1>2, Files DEF Bucket, IInv, AliasesResolve
  <1>3. CASE /\ UNCHANGED <<wjob, wop, wchild, wbody, verdict, wout>>
             /\ \E step \in {"alias", "persist", "claimed", "create", "stale"} :
                    Goto(w, step) /\ (step = "alias" => wop[w] \in durable)
    <2>1. Moves(w)
      BY <1>1, <1>3 DEF Moves, Goto, IInv, Typed, Step
    <2>2. Backed(w)' /\ Finished(w)' /\ wpc'[w] \notin {"idle", "lookup", "exists"}
      BY <1>1, <1>3 DEF Goto, Backed, Finished, IInv, Typed
    <2> QED
      BY <1>1, <1>3, <2>1, <2>2, Goes
  <1> QED
    BY <1>2, <1>3 DEF Find, CheckClaim

\* Only a sweep looks at the answer of publish_link_estimate.
LEMMA Publishes ==
  ASSUME IInv, NEW w \in Worker, NEW bucket \in {"cached", "unpublished"},
         Published(w, bucket), wpc[w] # "idle",
         bucket = "cached" /\ Tagged(w) => wop[w] \in alias',
         UNCHANGED <<plan, marker>>,
         durable \subseteq durable', alias \subseteq alias', AliasesResolve'
  PROVE  IInv'
  <1>1. CASE File(w, bucket)
    BY <1>1, Files DEF Bucket
  <1>2. CASE Goto(w, "settle") /\ UNCHANGED <<wjob, wop, wchild, wbody, verdict, wout>>
    <2>1. Moves(w) /\ wpc'[w] = "settle"
      BY <1>2 DEF Moves, Goto, IInv, Typed, Step
    <2>2. Knows(w)'
      BY <1>2, <2>1 DEF IInv, Knows, Begun, Backed, Summary, Finished, Tagged
    <2> QED
      BY <2>1, <2>2, MovesOne DEF IInv, MarkerMeansComplete
  <1> QED
    BY <1>1, <1>2 DEF Published

LEMMA Filings ==
  ASSUME IInv, NEW w \in Worker,
         Supersede(w) \/ Enqueue(w) \/ DropChild(w) \/ Unfiled(w)
  PROVE  IInv'
  <1>1. UNCHANGED <<plan, alias, durable, marker>> /\ wpc[w] # "idle"
    BY DEF Supersede, Enqueue, DropChild, Unfiled, At, redisVars, s3Vars
  <1>2. \/ \E bucket \in {"superseded", "enqueued", "failed"} : File(w, bucket)
        \/ Published(w, "unpublished")
    BY DEF Supersede, Enqueue, DropChild, Unfiled
  <1> QED
    BY <1>1, <1>2, Files, Publishes DEF Bucket, IInv, AliasesResolve

\* Under a tag, an expansion is complete when every operator has its alias or
\* nothing to solve.
LEMMA Concludes ==
  ASSUME IInv, NEW w \in Worker, Conclude(w)
  PROVE  IInv'
  <1>1. CASE Leave(w)
    BY <1>1, Leaves DEF Conclude, Unread, redisVars, s3Vars
  <1>2. CASE ~Leave(w)
    <2>1. /\ wpc[w] = "next" /\ wpc' = [wpc EXCEPT ![w] = IF Complete(w) THEN "mark" ELSE "settle"]
          /\ wout' = [wout EXCEPT ![w] = "done"] /\ Found(w, {"todo"}) = {}
          /\ UNCHANGED <<wjob, wop, wbody, verdict, plan, alias, durable, marker>>
      BY <1>2 DEF Conclude, At, Goto, Unread, redisVars, s3Vars
    <2>2. Complete(w) => Solvable \subseteq alias
      <3> SUFFICES ASSUME Complete(w), NEW op \in Solvable  PROVE op \in alias
        OBVIOUS
      <3>1. op \in Operator
        BY SweepAssumption
      <3>2. verdict[w][op] \in {"skipped", "cached"}
        BY <2>1, <3>1, Own DEF Complete, Found, Bucket, IInv
      <3> QED
        BY <3>1, <3>2 DEF Complete, IInv, Knows, Summary
    <2>3. Moves(w)
      BY <2>1 DEF Moves, IInv, Typed, Step, Terminal
    <2>4. /\ Backed(w)' /\ Finished(w)' /\ wpc'[w] \in {"mark", "settle"}
      BY <2>1, <2>2 DEF Backed, Finished, IInv, Typed
    <2> QED
      BY <2>1, <2>3, <2>4, Goes
  <1> QED
    BY <1>1, <1>2

LEMMA Marks ==
  ASSUME IInv, NEW w \in Worker, wpc[w] = "mark", marker' = TRUE, Goto(w, "settle"),
         UNCHANGED <<plan, durable, alias, wjob, wop, wbody, verdict, wout>>
  PROVE  IInv'
  <1>1. Moves(w) /\ wpc'[w] = "settle"
    BY DEF Moves, Goto, IInv, Typed, Step
  <1>2. Knows(w)'
    BY <1>1 DEF IInv, Knows, Begun, Backed, Summary, Finished, Tagged
  <1>3. MarkerMeansComplete'
    BY DEF IInv, Knows, Finished, MarkerMeansComplete
  <1> QED
    BY <1>1, <1>2, <1>3, MovesOne DEF IInv, AliasesResolve

-----------------------------------------------------------------------------
(* The solve of a child, its publication and its end.                      *)

LEMMA Solves ==
  ASSUME IInv, NEW w \in Worker,
         \/ FindDurable(w) \/ Solve(w) \/ CheckFlag(w) \/ FlagUnread(w)
         \/ Settle(w) \/ ResultNotCached(w) \/ ClearClaim(w)
  PROVE  IInv'
  <1> USE DEF At, Goto, Outcome, Withhold, Unread, redisVars, s3Vars
  <1>1. /\ wpc[w] # "idle" /\ wpc' = [wpc EXCEPT ![w] = wpc'[w]]
        /\ wpc'[w] \in Step \ {"idle", "lookup", "exists", "mark"}
    BY DEF IInv, Typed, Step, FindDurable, Solve, CheckFlag, FlagUnread, Settle,
       ResultNotCached, ClearClaim
  <1>2. UNCHANGED <<plan, wjob, wop, wbody, verdict, alias, durable, marker>>
    BY DEF FindDurable, Solve, CheckFlag, FlagUnread, Settle, ResultNotCached, ClearClaim
  <1>3. /\ wout' = [wout EXCEPT ![w] = wout'[w]]
        /\ wout'[w] \in Terminal \union {"none", "republished", "served"}
    BY DEF IInv, Typed, Terminal, FindDurable, Solve, CheckFlag, FlagUnread, Settle,
       ResultNotCached, ClearClaim
  <1>4. Backed(w)'
    BY DEF IInv, Typed, Knows, Backed, FindDurable, Solve, CheckFlag, FlagUnread, Settle,
       ResultNotCached, ClearClaim
  <1>5. Moves(w) /\ Finished(w)'
    BY <1>1, <1>2, <1>3 DEF Moves, Finished, IInv, Typed
  <1> QED
    BY <1>1, <1>2, <1>4, <1>5, Goes

LEMMA Persists ==
  ASSUME IInv, NEW w \in Worker, Persist(w) \/ StoreAlias(w)
  PROVE  IInv'
  <1>1. CASE StoreAlias(w)
    <2>1. wop[w] \in durable
      BY <1>1 DEF StoreAlias, At, IInv, Knows, Backed
    <2> QED
      BY <1>1, <2>1, Publishes DEF StoreAlias, At, redisVars, IInv, AliasesResolve
  <1>2. CASE Persist(w) /\ ~Tagged(w)
    BY <1>2, Files DEF Persist, At, redisVars, IInv, AliasesResolve, Bucket
  <1>3. CASE Persist(w) /\ Tagged(w)
    <2>1. /\ wpc[w] = "persist" /\ wpc' = [wpc EXCEPT ![w] = "alias"]
          /\ durable' = durable \union {wop[w]}
          /\ UNCHANGED <<wjob, wop, wbody, verdict, wout, plan, alias, marker>>
      BY <1>3 DEF Persist, At, Goto, redisVars
    <2>2. Moves(w) /\ Backed(w)' /\ Finished(w)' /\ wpc'[w] = "alias"
      BY <2>1 DEF Moves, Backed, Finished, IInv, Typed, Step
    <2> QED
      BY <2>1, <2>2, Goes
  <1> QED
    BY <1>1, <1>2, <1>3

LEMMA Departs ==
  ASSUME IInv, NEW w \in Worker, StartChild(w) \/ Acknowledge(w) \/ Abandon(w)
  PROVE  IInv'
  <1>1. UNCHANGED <<plan, alias, durable, marker>>
    BY DEF StartChild, Acknowledge, Abandon, Unread, redisVars, s3Vars
  <1>2. CASE Leave(w)
    BY <1>1, <1>2, Leaves
  <1>3. CASE StartChild(w) /\ ~Leave(w)
    <2>1. /\ wpc[w] = "exists" /\ wpc' = [wpc EXCEPT ![w] = "durable"]
          /\ UNCHANGED <<wjob, wop, wbody, verdict, wout>>
      BY <1>3 DEF StartChild, At, Goto
    <2>2. Moves(w) /\ Backed(w)' /\ Finished(w)' /\ wpc'[w] = "durable"
      BY <1>1, <2>1 DEF Moves, Backed, Finished, IInv, Typed, Step
    <2> QED
      BY <1>1, <2>1, <2>2, Goes
  <1> QED
    BY <1>2, <1>3 DEF Acknowledge, Abandon

\* The write was carried out all the same.
LEMMA LosesReply ==
  ASSUME IInv, NEW w \in Worker, ReplyLost(w)
  PROVE  IInv'
  <1>1. plan' = plan
    BY DEF ReplyLost
  <1>2. CASE (At(w, "claim") \/ At(w, "enqueue"))
    <2>1. /\ wpc[w] \in {"claim", "enqueue"}
          /\ \E step \in {"enqueue", "undo"} : wpc' = [wpc EXCEPT ![w] = step]
          /\ UNCHANGED <<wjob, wop, wbody, verdict, wout, alias, durable, marker>>
      BY <1>2 DEF ReplyLost, At, Goto
    <2>2. Moves(w) /\ Backed(w)' /\ Finished(w)' /\ wpc'[w] \in {"enqueue", "undo"}
      BY <1>1, <2>1 DEF Moves, Backed, Finished, IInv, Typed, Step
    <2> QED
      BY <2>1, <2>2, Goes
  <1>3. CASE At(w, "persist")
    BY <1>1, <1>3, Publishes DEF ReplyLost, At, IInv, AliasesResolve
  <1>4. CASE At(w, "alias")
    <2>1. wop[w] \in durable
      BY <1>4 DEF At, IInv, Knows, Backed
    <2> QED
      BY <1>1, <1>4, <2>1, Publishes DEF ReplyLost, At, IInv, AliasesResolve
  <1>5. CASE At(w, "mark")
    BY <1>1, <1>5, Marks DEF ReplyLost, At
  <1> QED
    BY <1>2, <1>3, <1>4, <1>5 DEF ReplyLost

-----------------------------------------------------------------------------
(* Steps of no worker.                                                     *)

LEMMA NobodyMoves ==
  ASSUME IInv, UNCHANGED <<localVars, alias, marker>>, durable \subseteq durable',
         Derived', plan' \in [Sweep -> [listed : SUBSET Operator, derived : BOOLEAN]]
  PROVE  IInv'
  BY DEF localVars, IInv, Typed, Knows, Begun, Backed, Summary, Finished, Tagged,
     AliasesResolve, MarkerMeansComplete

LEMMA Submissions ==
  ASSUME IInv, NEW s \in Sweep, NEW list \in SUBSET Operator, NEW derived \in BOOLEAN,
         Submit(s, list, derived)
  PROVE  IInv'
  <1>1. /\ plan' = [plan EXCEPT ![s] = [listed |-> list, derived |-> derived]]
        /\ derived => list = Operator
        /\ UNCHANGED <<localVars, alias, marker, durable>>
    BY DEF Submit, s3Vars
  <1>2. Derived' /\ plan' \in [Sweep -> [listed : SUBSET Operator, derived : BOOLEAN]]
    BY <1>1 DEF IInv, Typed, Derived
  <1> QED
    BY <1>1, <1>2, NobodyMoves

LEMMA Elapses ==
  ASSUME IInv,
         \/ PutLands \/ PutLost
         \/ \E j \in Job :
              RequestCancel(j) \/ StateExpires(j) \/ WaitsTooLong(j) \/ CancelExpires(j)
         \/ \E s \in Sweep : PayloadExpires(s)
         \/ \E op \in Solvable : ResultExpires(op) \/ InflightExpires(op)
  PROVE  IInv'
  <1>1. UNCHANGED <<localVars, alias, marker>> /\ durable \subseteq durable'
    BY DEF redisVars, s3Vars, PutLands, PutLost, RequestCancel, StateExpires, WaitsTooLong,
       CancelExpires, PayloadExpires, ResultExpires, InflightExpires
  <1>2. plan' = plan \/ \E s \in Sweep : plan' = [plan EXCEPT ![s] = NoPlan]
    <2>1. ASSUME NEW j \in Job, StateExpires(j)
          PROVE  plan' = plan \/ \E s \in Sweep : plan' = [plan EXCEPT ![s] = NoPlan]
      BY <2>1 DEF StateExpires
    <2>2. ASSUME NEW s \in Sweep, PayloadExpires(s)
          PROVE  plan' = [plan EXCEPT ![s] = NoPlan]
      BY <2>2 DEF PayloadExpires
    <2>3. CASE \/ PutLands \/ PutLost
               \/ \E j \in Job : RequestCancel(j) \/ WaitsTooLong(j) \/ CancelExpires(j)
               \/ \E op \in Solvable : ResultExpires(op) \/ InflightExpires(op)
      BY <2>3 DEF redisVars, PutLands, PutLost, RequestCancel, WaitsTooLong, CancelExpires,
         ResultExpires, InflightExpires
    <2> QED
      BY <2>1, <2>2, <2>3
  <1>3. Derived' /\ plan' \in [Sweep -> [listed : SUBSET Operator, derived : BOOLEAN]]
    <2>1. NoPlan \in [listed : SUBSET Operator, derived : BOOLEAN] /\ ~NoPlan.derived
      BY DEF NoPlan
    <2>2. CASE plan' = plan
      BY <2>2 DEF IInv, Typed, Derived
    <2>3. ASSUME NEW s \in Sweep, plan' = [plan EXCEPT ![s] = NoPlan]
          PROVE  Derived' /\ plan' \in [Sweep -> [listed : SUBSET Operator, derived : BOOLEAN]]
      <3>1. \A r \in Sweep : plan'[r] = IF r = s THEN NoPlan ELSE plan[r]
        BY <2>3 DEF IInv, Typed
      <3> QED
        BY <2>1, <2>3, <3>1 DEF IInv, Typed, Derived
    <2> QED
      BY <1>2, <2>2, <2>3
  <1> QED
    BY <1>1, <1>3, NobodyMoves

LEMMA NextIInv == IInv /\ [Next]_vars => IInv'
  <1> SUFFICES ASSUME IInv, [Next]_vars  PROVE IInv'
    OBVIOUS
  <1>1. ASSUME NEW w \in Worker, WorkerStep(w)  PROVE IInv'
    <2>1. CASE Mark(w)
      BY <2>1, Marks DEF Mark, At, redisVars
    <2> QED
      BY <1>1, <2>1, Looks, StartsSweep, Expands, Finds, Filings, Concludes, Solves, Persists,
         Departs DEF WorkerStep
  <1>2. ASSUME NEW w \in Worker,
               \/ Abandon(w) \/ CallFails(w) \/ Unfiled(w) \/ FlagUnread(w)
               \/ ReplyLost(w) \/ ResultNotCached(w)
        PROVE  IInv'
    BY <1>2, Departs, Expands, Filings, Solves, LosesReply
  <1>3. CASE UNCHANGED vars
    BY <1>3, NobodyMoves DEF vars, redisVars, s3Vars, IInv, Typed, Derived
  <1> QED
    BY <1>1, <1>2, <1>3, Submissions, Deliveries, Elapses DEF Next

LEMMA Invariance == Spec => []IInv
  BY InitIInv, NextIInv, PTL DEF Spec

\* An alias never names a result that is not in S3: publish_link_estimate stores
\* the result first, and a retry or a late reply changes nothing of that.
THEOREM AliasesCorrect == Spec => []AliasesResolve
  <1>1. IInv => AliasesResolve
    BY DEF IInv
  <1> QED
    BY <1>1, Invariance, PTL

\* Once the marker stops the cron, every estimate of the epoch has its alias,
\* whatever sweeps, children and DELETEs ran side by side.
THEOREM MarkerCorrect == Spec => []MarkerMeansComplete
  <1>1. IInv => MarkerMeansComplete
    BY DEF IInv
  <1> QED
    BY <1>1, Invariance, PTL

-----------------------------------------------------------------------------
(* Types: what a worker has in hand at each of its steps.                  *)

ChildSteps == {"lookup", "reconcile", "durable", "solve", "flag", "clear"}
MintedSteps == {"claim", "supersede", "enqueue", "undo", "drop"}
SweepSteps == {"next", "find", "claimed", "stale", "create", "mark"} \union MintedSteps
OperatorSteps == (ChildSteps \union SweepSteps \union {"persist", "alias"}) \ {"next", "mark"}

\* Redis and S3.
Stores ==
    /\ state \in [Job -> {"none", "running"} \union Terminal]
    /\ cancel \subseteq Job
    /\ plan \in [Sweep -> [listed : SUBSET Operator, derived : BOOLEAN]]
    /\ parent \in [Child -> Sweep \union {NoJob}]
    /\ result \subseteq Solvable
    /\ inflight \in [Solvable -> Child \union {NoJob}]
    /\ queued \subseteq Job
    /\ pel \in [Job -> Nat]
    /\ durable \subseteq Solvable /\ alias \subseteq Solvable
    /\ marker \in BOOLEAN
    /\ puts \subseteq Solvable
    /\ mishaps \subseteq Hazard

Locals ==
    /\ wpc \in [Worker -> Step]
    /\ wjob \in [Worker -> Job \union {NoJob}]
    /\ wop \in [Worker -> Solvable \union {NoJob}]
    /\ wchild \in [Worker -> Child \union {NoJob}]
    /\ wbody \in [Worker -> {"none", "plain", "tagged"}]
    /\ verdict \in [Worker -> [Operator -> Bucket]]
    /\ wout \in [Worker -> Terminal \union {"none", "republished", "served"}]

\* The entry, the operator and the child that the worker's step speaks of.
Carries(w) ==
    /\ wjob[w] = NoJob <=> wpc[w] = "idle"
    /\ wchild[w] # NoJob <=> wpc[w] \in MintedSteps
    /\ wpc[w] \in ChildSteps => OfChild(w)
    /\ wpc[w] \in SweepSteps => ~OfChild(w)
    /\ wpc[w] \in OperatorSteps => wop[w] \in Solvable
    /\ wpc[w] \in {"exists", "settle"} /\ OfChild(w) => wop[w] \in Solvable

\* A child publishes under a tag only, and settles with an outcome; a sweep
\* takes up solvable operators only.
Decided(w) ==
    /\ OfChild(w) /\ wpc[w] \in {"reconcile", "flag", "persist", "alias"} =>
            Tagged(w) /\ wout[w] # "none"
    /\ wpc[w] \in {"mark", "settle"} => wout[w] # "none"
    /\ wpc[w] \in SweepSteps \union {"persist", "alias"} /\ ~OfChild(w) =>
            \A op \in Operator : verdict[w][op] = "todo" => op \in Solvable

Kept == Locals /\ \A w \in Worker : Carries(w) /\ Decided(w)

TInv == Stores /\ Kept

LEMMA InitTypes == Init => TInv
  <1> SUFFICES ASSUME Init  PROVE TInv
    OBVIOUS
  <1>1. /\ Fresh \in [Operator -> Bucket]
        /\ NoPlan \in [listed : SUBSET Operator, derived : BOOLEAN]
    BY FreshFacts DEF NoPlan
  <1>2. Stores
    BY <1>1 DEF Init, Stores, Terminal
  <1>3. Locals
    BY <1>1 DEF Init, Locals, Step
  <1>4. \A w \in Worker : Carries(w) /\ Decided(w)
    BY SweepAssumption
    DEF Init, Carries, Decided, OfChild, ChildSteps, SweepSteps, MintedSteps, OperatorSteps
  <1> QED
    BY <1>2, <1>3, <1>4 DEF TInv, Kept

\* The local state of one worker changes.
Turns(w) ==
    /\ wpc' = [wpc EXCEPT ![w] = wpc'[w]] /\ wpc'[w] \in Step
    /\ wjob' = [wjob EXCEPT ![w] = wjob'[w]] /\ wjob'[w] \in Job \union {NoJob}
    /\ wop' = [wop EXCEPT ![w] = wop'[w]] /\ wop'[w] \in Solvable \union {NoJob}
    /\ wchild' = [wchild EXCEPT ![w] = wchild'[w]] /\ wchild'[w] \in Child \union {NoJob}
    /\ wbody' = [wbody EXCEPT ![w] = wbody'[w]] /\ wbody'[w] \in {"none", "plain", "tagged"}
    /\ verdict' = [verdict EXCEPT ![w] = verdict'[w]] /\ verdict'[w] \in [Operator -> Bucket]
    /\ wout' = [wout EXCEPT ![w] = wout'[w]]
    /\ wout'[w] \in Terminal \union {"none", "republished", "served"}

LEMMA OneTurns ==
  ASSUME Kept, NEW w \in Worker, Turns(w), Carries(w)', Decided(w)'
  PROVE  Kept'
  <1>1. Locals'
    BY DEF Kept, Locals, Turns
  <1>2. ASSUME NEW v \in Worker, v # w
        PROVE  /\ wpc'[v] = wpc[v] /\ wjob'[v] = wjob[v] /\ wop'[v] = wop[v]
               /\ wchild'[v] = wchild[v] /\ wbody'[v] = wbody[v] /\ verdict'[v] = verdict[v]
               /\ wout'[v] = wout[v]
    BY <1>2 DEF Kept, Locals, Turns
  <1>3. ASSUME NEW v \in Worker, v # w  PROVE Carries(v)' /\ Decided(v)'
    BY <1>2, <1>3 DEF Kept, Carries, Decided, OfChild, Tagged
  <1> QED
    BY <1>1, <1>3 DEF Kept

LEMMA Mine ==
  ASSUME Kept, NEW w \in Worker
  PROVE  /\ wpc[w] \in Step /\ wjob[w] \in Job \union {NoJob}
         /\ wop[w] \in Solvable \union {NoJob} /\ wchild[w] \in Child \union {NoJob}
         /\ wbody[w] \in {"none", "plain", "tagged"}
         /\ verdict[w] \in [Operator -> Bucket]
         /\ wout[w] \in Terminal \union {"none", "republished", "served"}
         /\ Carries(w) /\ Decided(w)
  BY DEF Kept, Locals

LEMMA LeaveTyped == ASSUME Kept, NEW w \in Worker, Leave(w)  PROVE Kept'
  <1>1. /\ wpc'[w] = "idle" /\ wjob'[w] = NoJob /\ wop'[w] = NoJob /\ wchild'[w] = NoJob
        /\ wbody'[w] = "none" /\ verdict'[w] = Fresh /\ wout'[w] = "none"
    BY DEF Leave, Goto, Kept, Locals
  <1>2. Turns(w)
    BY <1>1, FreshFacts DEF Turns, Leave, Goto, Step
  <1>3. Carries(w)' /\ Decided(w)'
    BY <1>1, SweepAssumption
    DEF Carries, Decided, OfChild, ChildSteps, SweepSteps, MintedSteps, OperatorSteps
  <1> QED
    BY <1>2, <1>3, OneTurns

LEMMA HoldTyped ==
  ASSUME Kept, NEW w \in Worker, NEW j \in Job, wpc[w] = "idle", Hold(w, j)  PROVE Kept'
  <1>0. /\ j \in Child => FocusOf[j] \in Solvable
        /\ wchild[w] = NoJob /\ j # NoJob
    BY Mine, SweepAssumption DEF Carries, Job, MintedSteps
  <1>1. /\ wpc'[w] = (IF j \in Child THEN "lookup" ELSE "exists") /\ wjob'[w] = j
        /\ wop'[w] = (IF j \in Child THEN FocusOf[j] ELSE NoJob)
        /\ UNCHANGED <<wchild, wbody, verdict, wout>>
    BY DEF Hold, Goto, Kept, Locals
  <1>2. Turns(w)
    BY <1>0, <1>1, Mine DEF Turns, Hold, Goto, Step, Kept, Locals
  <1>3. Carries(w)' /\ Decided(w)'
    BY <1>0, <1>1
    DEF Carries, Decided, OfChild, ChildSteps, SweepSteps, MintedSteps, OperatorSteps
  <1> QED
    BY <1>2, <1>3, OneTurns

LEMMA FileTyped ==
  ASSUME Kept, NEW w \in Worker, NEW bucket \in Bucket \ {"todo"}, File(w, bucket),
         wpc[w] \in SweepSteps \union {"persist", "alias"}, ~OfChild(w)
  PROVE  Kept'
  <1> DEFINE filed == [verdict[w] EXCEPT ![wop[w]] = bucket]
  <1>0. wpc[w] # "idle" /\ wjob[w] # NoJob
    BY Mine DEF Carries, SweepSteps, MintedSteps
  <1>1. filed \in [Operator -> Bucket] /\ verdict' = [verdict EXCEPT ![w] = filed]
    BY Mine DEF File
  <1>2. \A op \in Operator : filed[op] = "todo" => op \in Solvable
    BY Mine DEF Decided
  <1> HIDE DEF filed
  <1>3. /\ wpc'[w] = "next" /\ wop'[w] = NoJob /\ wchild'[w] = NoJob /\ verdict'[w] = filed
        /\ UNCHANGED <<wjob, wbody, wout>>
    BY <1>1 DEF File, Goto, Kept, Locals
  <1>4. Turns(w)
    BY <1>1, <1>3, Mine DEF Turns, File, Goto, Step, Kept, Locals
  <1>5. Carries(w)' /\ Decided(w)'
    BY <1>0, <1>2, <1>3
    DEF Carries, Decided, OfChild, ChildSteps, SweepSteps, MintedSteps, OperatorSteps
  <1> QED
    BY <1>4, <1>5, OneTurns

\* Only the step and the outcome change.
LEMMA PassTyped ==
  ASSUME Kept, NEW w \in Worker, NEW to \in Step \ {"idle"}, Goto(w, to),
         UNCHANGED <<wjob, wop, wchild, wbody, verdict>>,
         NEW out \in Terminal \union {"none", "republished", "served"},
         wout' = [wout EXCEPT ![w] = out],
         wpc[w] # "idle", wpc[w] \in MintedSteps <=> to \in MintedSteps,
         to \in ChildSteps => OfChild(w),
         to \in SweepSteps => ~OfChild(w),
         to \in OperatorSteps => wop[w] \in Solvable,
         to \in {"exists", "settle"} /\ OfChild(w) => wop[w] \in Solvable,
         OfChild(w) /\ to \in {"reconcile", "flag", "persist", "alias"} =>
            Tagged(w) /\ out # "none",
         to \in {"mark", "settle"} => out # "none",
         to \in SweepSteps \union {"persist", "alias"} /\ ~OfChild(w) =>
            \A op \in Operator : verdict[w][op] = "todo" => op \in Solvable
  PROVE  Kept'
  <1>1. wpc'[w] = to /\ wout'[w] = out
    BY DEF Goto, Kept, Locals
  <1>2. Turns(w)
    BY <1>1, Mine DEF Turns, Goto, Kept, Locals
  <1>3. Carries(w)' /\ Decided(w)'
    BY <1>1, Mine DEF Carries, Decided, OfChild, Tagged
  <1> QED
    BY <1>2, <1>3, OneTurns


LEMMA LookupTyped == ASSUME Kept, NEW w \in Worker, Lookup(w)  PROVE Kept'
  <1>0. wpc[w] = "lookup" /\ OfChild(w) /\ wop[w] \in Solvable /\ wjob[w] # NoJob
        /\ wchild[w] = NoJob
    BY Mine DEF Lookup, At, Carries, ChildSteps, SweepSteps, MintedSteps, OperatorSteps
  <1> DEFINE body == BodyOf(parent[wjob[w]])
  <1>1. body \in {"none", "plain", "tagged"}
    BY Bodies
  <1> HIDE DEF body
  <1>2. /\ wbody' = [wbody EXCEPT ![w] = body] /\ wbody'[w] = body
        /\ UNCHANGED <<wjob, wop, wchild, verdict>>
        /\ \/ /\ wout' = [wout EXCEPT ![w] = "republished"]
              /\ Goto(w, IF body = "tagged" THEN "reconcile" ELSE "settle")
           \/ Goto(w, "exists") /\ UNCHANGED wout
    BY DEF Lookup, ReadBody, Kept, Locals, body
  <1>3. /\ wpc' = [wpc EXCEPT ![w] = wpc'[w]] /\ wout' = [wout EXCEPT ![w] = wout'[w]]
        /\ wpc'[w] \in {"reconcile", "settle", "exists"}
        /\ wout'[w] \in Terminal \union {"none", "republished", "served"}
        /\ wpc'[w] = "reconcile" => body = "tagged"
        /\ wpc'[w] # "exists" => wout'[w] = "republished"
    BY <1>2, Mine DEF Goto, Kept, Locals
  <1>4. Turns(w)
    BY <1>1, <1>2, <1>3, Mine DEF Turns, Step, Kept, Locals
  <1>5. Carries(w)' /\ Decided(w)'
    BY <1>0, <1>2, <1>3
    DEF Carries, Decided, OfChild, Tagged, ChildSteps, SweepSteps, MintedSteps, OperatorSteps
  <1> QED
    BY <1>4, <1>5, OneTurns

LEMMA StartSweepTyped == ASSUME Kept, NEW w \in Worker, StartSweep(w)  PROVE Kept'
  <1>1. CASE plan[wjob[w]] = NoPlan
    BY <1>1, LeaveTyped DEF StartSweep
  <1>2. CASE plan[wjob[w]] # NoPlan
    <2> DEFINE gate == [op \in Operator |->
                           IF op \in plan[wjob[w]].listed \intersect Solvable
                           THEN "todo" ELSE "skipped"]
               body == BodyOf(wjob[w])
    <2>1. gate \in [Operator -> Bucket] /\ \A op \in Operator : gate[op] = "todo" => op \in Solvable
      BY DEF Bucket
    <2>2. body \in {"none", "plain", "tagged"}
      BY Bodies
    <2>3. /\ wpc[w] = "exists" /\ ~OfChild(w) /\ wpc' = [wpc EXCEPT ![w] = "next"]
          /\ wbody' = [wbody EXCEPT ![w] = body] /\ verdict' = [verdict EXCEPT ![w] = gate]
          /\ UNCHANGED <<wjob, wop, wchild, wout>>
      BY <1>2 DEF StartSweep, At, ReadBody, Goto
    <2> HIDE DEF gate, body
    <2>4. wpc'[w] = "next" /\ wbody'[w] = body /\ verdict'[w] = gate
      BY <2>3 DEF Kept, Locals
    <2>5. Turns(w)
      BY <2>1, <2>2, <2>3, <2>4, Mine DEF Turns, Step, Kept, Locals
    <2>6. Carries(w)' /\ Decided(w)'
      BY <2>1, <2>3, <2>4, Mine
      DEF Carries, Decided, OfChild, ChildSteps, SweepSteps, MintedSteps, OperatorSteps
    <2> QED
      BY <2>5, <2>6, OneTurns
  <1> QED
    BY <1>1, <1>2

LEMMA NextTyped == ASSUME Kept, NEW w \in Worker, NextOperator(w)  PROVE Kept'
  <1>0. wpc[w] = "next" /\ ~OfChild(w) /\ wjob[w] # NoJob /\ wchild[w] = NoJob
    BY Mine DEF NextOperator, At, Carries, SweepSteps, MintedSteps
  <1>1. PICK op \in Operator :
           /\ verdict[w][op] = "todo"
           /\ \/ Outcome(w, "cancelled") /\ UNCHANGED wop
              \/ wop' = [wop EXCEPT ![w] = op] /\ Goto(w, "find") /\ UNCHANGED wout
    BY DEF NextOperator, Found
  <1>2. op \in Solvable /\ UNCHANGED <<wjob, wchild, wbody, verdict>>
    BY <1>0, <1>1, Mine DEF NextOperator, Decided, SweepSteps
  <1>3. CASE Outcome(w, "cancelled") /\ UNCHANGED wop
    BY <1>0, <1>2, <1>3, PassTyped
    DEF Outcome, Step, Terminal, MintedSteps, ChildSteps, SweepSteps, OperatorSteps
  <1>4. CASE wop' = [wop EXCEPT ![w] = op] /\ Goto(w, "find") /\ UNCHANGED wout
    <2>1. wop'[w] = op /\ wpc'[w] = "find"
      BY <1>4 DEF Goto, Kept, Locals
    <2>2. Turns(w)
      BY <1>2, <1>4, <2>1, Mine DEF Turns, Goto, Step, Kept, Locals
    <2>3. Carries(w)' /\ Decided(w)'
      BY <1>0, <1>2, <1>4, <2>1, Mine
      DEF Carries, Decided, OfChild, ChildSteps, SweepSteps, MintedSteps, OperatorSteps
    <2> QED
      BY <2>2, <2>3, OneTurns
  <1> QED
    BY <1>1, <1>3, <1>4

LEMMA CreateTyped ==
  ASSUME Kept, NEW w \in Worker, Create(w)
  PROVE  Kept' /\ \E c \in Child : state' = [state EXCEPT ![c] = "running"]
  <1>1. PICK c \in Child : /\ wchild' = [wchild EXCEPT ![w] = c]
                           /\ state' = [state EXCEPT ![c] = "running"]
    <2> DEFINE ids == {c \in Child : FocusOf[c] = wop[w] /\ Unused(c)}
    <2>1. ids # {} /\ wchild' = [wchild EXCEPT ![w] = CHOOSE c \in ids : TRUE]
          /\ state' = [state EXCEPT ![CHOOSE c \in ids : TRUE] = "running"]
      BY DEF Create
    <2>2. (CHOOSE c \in ids : TRUE) \in ids
      BY <2>1
    <2> QED
      BY <2>1, <2>2
  <1>2. /\ wpc[w] = "create" /\ wpc' = [wpc EXCEPT ![w] = "claim"]
        /\ UNCHANGED <<wjob, wop, wbody, verdict, wout>>
    BY DEF Create, At, Goto
  <1>3. wpc'[w] = "claim" /\ wchild'[w] = c /\ c # NoJob
    BY <1>1, <1>2, SweepAssumption DEF Kept, Locals
  <1>4. Turns(w)
    BY <1>1, <1>2, <1>3, Mine DEF Turns, Step, Kept, Locals
  <1>5. Carries(w)' /\ Decided(w)'
    BY <1>2, <1>3, Mine
    DEF Carries, Decided, OfChild, ChildSteps, SweepSteps, MintedSteps, OperatorSteps
  <1> QED
    BY <1>1, <1>4, <1>5, OneTurns

\* The steps that set the outcome, or none.
LEMMA StayTyped ==
  ASSUME Kept, NEW w \in Worker, NEW to \in Step \ {"idle"}, Goto(w, to),
         UNCHANGED <<wjob, wop, wchild, wbody, verdict, wout>>, wpc[w] # "idle",
         wpc[w] \in MintedSteps <=> to \in MintedSteps,
         to \in ChildSteps => OfChild(w),
         to \in SweepSteps => ~OfChild(w),
         to \in OperatorSteps \union {"exists"} => wop[w] \in Solvable,
         to = "settle" /\ OfChild(w) => wop[w] \in Solvable,
         OfChild(w) /\ to \in {"reconcile", "flag", "persist", "alias"} =>
            Tagged(w) /\ wout[w] # "none",
         to \in {"mark", "settle"} => wout[w] # "none",
         to \in SweepSteps \union {"persist", "alias"} /\ ~OfChild(w) =>
            \A op \in Operator : verdict[w][op] = "todo" => op \in Solvable
  PROVE  Kept'
  <1>1. wout' = [wout EXCEPT ![w] = wout[w]]
    BY DEF Kept, Locals
  <1> QED
    BY <1>1, Mine, PassTyped

LEMMA SweepPassesTyped ==
  ASSUME Kept, NEW w \in Worker,
         \/ /\ Find(w) /\ ~File(w, "cached")
         \/ /\ CheckClaim(w) /\ ~File(w, "running")
         \/ ClearStale(w) \/ Claim(w) \/ UndoClaim(w) \/ Mark(w)
  PROVE  Kept'
  <1>1. UNCHANGED <<wjob, wop, wchild, wbody, verdict, wout>> /\ ~OfChild(w) /\ wpc[w] # "idle"
    BY Mine
    DEF Find, CheckClaim, ClearStale, Claim, UndoClaim, Mark, At, Carries, SweepSteps, MintedSteps
  <1>2. wpc[w] # "mark" => wop[w] \in Solvable
    BY Mine
    DEF Find, CheckClaim, ClearStale, Claim, UndoClaim, Mark, At, Carries, SweepSteps, MintedSteps,
        OperatorSteps
  <1>3. wpc[w] = "mark" => wout[w] # "none"
    BY Mine DEF Decided
  <1>4. \A op \in Operator : verdict[w][op] = "todo" => op \in Solvable
    BY <1>1, Mine
    DEF Find, CheckClaim, ClearStale, Claim, UndoClaim, Mark, At, Decided, SweepSteps, MintedSteps
  <1>5. PICK to \in Step \ {"idle"} :
            /\ Goto(w, to) /\ to \notin ChildSteps /\ to \notin {"exists", "mark"}
            /\ wpc[w] \in MintedSteps <=> to \in MintedSteps
            /\ to = "settle" <=> wpc[w] = "mark"
    BY DEF Find, CheckClaim, ClearStale, Claim, TryClaim, UndoClaim, Mark, At, Step, ChildSteps,
       MintedSteps
  <1>6. /\ to \in OperatorSteps \union {"exists"} => wop[w] \in Solvable
        /\ to \in {"mark", "settle"} => wout[w] # "none"
    BY <1>2, <1>3, <1>5 DEF OperatorSteps, SweepSteps, MintedSteps
  <1> QED
    BY <1>1, <1>4, <1>5, <1>6, StayTyped

\* The steps of a child's delivery that only move on; a solve sets its outcome.
LEMMA ChildPassesTyped ==
  ASSUME Kept, NEW w \in Worker,
         \/ Reconcile(w) \/ FindDurable(w) \/ Solve(w) \/ CheckFlag(w) \/ FlagUnread(w)
         \/ ClearClaim(w)
  PROVE  Kept' /\ wop[w] \in Solvable
  <1>1. /\ UNCHANGED <<wjob, wop, wchild, wbody, verdict>> /\ wpc[w] # "idle"
        /\ OfChild(w) /\ wop[w] \in Solvable /\ wpc[w] \notin MintedSteps
        /\ wpc[w] \in {"reconcile", "flag"} => Tagged(w) /\ wout[w] # "none"
    BY Mine
    DEF Reconcile, FindDurable, Solve, CheckFlag, FlagUnread, ClearClaim, At, Carries, Decided,
        ChildSteps, SweepSteps, MintedSteps, OperatorSteps
  <1>2. PICK to \in Step \ {"idle"},
             out \in Terminal \union {"none", "republished", "served"} :
            /\ Goto(w, to) /\ wout' = [wout EXCEPT ![w] = out]
            /\ to \notin SweepSteps /\ to # "exists"
            /\ to \in {"settle", "reconcile", "flag", "persist", "alias"} => out # "none"
            /\ to \in {"reconcile", "flag", "persist", "alias"} => Tagged(w)
    <2>1. wout' = wout => wout' = [wout EXCEPT ![w] = wout[w]]
      BY DEF Kept, Locals
    <2>2. CASE Reconcile(w) \/ CheckFlag(w) \/ FlagUnread(w) \/ ClearClaim(w)
      <3>1. UNCHANGED wout /\ wpc[w] \in {"reconcile", "flag", "clear"}
        BY <2>2 DEF Reconcile, CheckFlag, FlagUnread, ClearClaim, At
      <3>2. \E to \in Step \ {"idle"} :
                /\ Goto(w, to) /\ to \in {"settle", "persist", "alias", "ack"}
                /\ to # "ack" => wpc[w] # "clear"
        BY <2>2
        DEF Reconcile, CheckFlag, FlagUnread, ClearClaim, At, Withhold, Step
      <3> QED
        BY <1>1, <2>1, <3>1, <3>2, Mine DEF SweepSteps, MintedSteps
    <2>3. CASE FindDurable(w) \/ Solve(w)
      <3>1. \E to \in {"settle", "flag", "solve"} :
                /\ Goto(w, to)
                /\ \/ to = "solve" /\ UNCHANGED wout
                   \/ \E out \in {"served", "done", "cancelled", "failed"} :
                        wout' = [wout EXCEPT ![w] = out]
                /\ to = "flag" => Tagged(w)
        BY <2>3 DEF FindDurable, Solve, Outcome
      <3> QED
        BY <2>1, <3>1, Mine DEF Step, Terminal, SweepSteps, MintedSteps
    <2> QED
      BY <2>2, <2>3
  <1>3. /\ wpc[w] \in MintedSteps <=> to \in MintedSteps
        /\ to \in {"mark", "settle"} => out # "none"
    BY <1>1, <1>2 DEF SweepSteps
  <1> QED
    BY <1>1, <1>2, <1>3, PassTyped

\* The steps of both kinds of delivery.
LEMMA SettlesTyped ==
  ASSUME Kept, NEW w \in Worker,
         CheckExists(w) \/ StartChild(w) \/ Settle(w) \/ ResultNotCached(w)
  PROVE  Kept'
  <1>1. wpc[w] \in {"exists", "settle"} /\ wpc[w] # "idle" /\ wpc[w] \notin MintedSteps
        /\ (OfChild(w) => wop[w] \in Solvable)
    BY Mine DEF CheckExists, StartChild, Settle, ResultNotCached, At, Carries, MintedSteps
  <1>2. CASE Leave(w)
    BY <1>2, LeaveTyped
  <1>3. CASE CheckExists(w)
    BY <1>1, <1>3, PassTyped
    DEF CheckExists, Outcome, Step, Terminal, MintedSteps, ChildSteps, SweepSteps, OperatorSteps
  <1>4. CASE StartChild(w) /\ ~Leave(w)
    BY <1>1, <1>4, StayTyped
    DEF StartChild, Step, MintedSteps, ChildSteps, SweepSteps, OperatorSteps
  <1>5. CASE Settle(w) \/ ResultNotCached(w)
    <2>1. PICK to \in {"clear", "ack"} : Goto(w, to) /\ (to = "clear" => OfChild(w))
      BY <1>5 DEF Settle, ResultNotCached
    <2>2. UNCHANGED <<wjob, wop, wchild, wbody, verdict, wout>>
      BY <1>5 DEF Settle, ResultNotCached
    <2> QED
      BY <1>1, <2>1, <2>2, StayTyped
      DEF Step, MintedSteps, ChildSteps, SweepSteps, OperatorSteps
  <1> QED
    BY <1>2, <1>3, <1>4, <1>5

LEMMA ConcludeTyped == ASSUME Kept, NEW w \in Worker, Conclude(w)  PROVE Kept'
  <1>1. wpc[w] = "next" /\ ~OfChild(w) /\ wpc[w] # "idle" /\ wpc[w] \notin MintedSteps
        /\ \A op \in Operator : verdict[w][op] = "todo" => op \in Solvable
    BY Mine DEF Conclude, At, Carries, Decided, SweepSteps, MintedSteps
  <1>2. CASE Outage(w)
    BY <1>2, LeaveTyped DEF Conclude
  <1>3. CASE ~Outage(w)
    <2>1. PICK to \in {"mark", "settle"} :
              /\ Goto(w, to) /\ wout' = [wout EXCEPT ![w] = "done"]
              /\ UNCHANGED <<wjob, wop, wchild, wbody, verdict>>
      BY <1>3 DEF Conclude
    <2> QED
      BY <1>1, <2>1, PassTyped
      DEF Step, Terminal, MintedSteps, ChildSteps, SweepSteps, OperatorSteps
  <1> QED
    BY <1>2, <1>3

\* publish_link_estimate is a sweep's or a child's.
LEMMA PublishedTyped ==
  ASSUME Kept, NEW w \in Worker, NEW bucket \in {"cached", "unpublished"},
         Published(w, bucket), wpc[w] \in {"persist", "alias"}
  PROVE  Kept'
  <1>1. CASE OfChild(w)
    <2>1. wop[w] \in Solvable /\ wout[w] # "none" /\ wpc[w] # "idle" /\ wpc[w] \notin MintedSteps
      BY <1>1, Mine DEF Carries, Decided, OperatorSteps, MintedSteps
    <2> QED
      BY <1>1, <2>1, StayTyped
      DEF Published, Step, MintedSteps, ChildSteps, SweepSteps, OperatorSteps
  <1>2. CASE ~OfChild(w)
    BY <1>2, FileTyped DEF Published, Bucket
  <1> QED
    BY <1>1, <1>2

LEMMA PersistsTyped ==
  ASSUME Kept, NEW w \in Worker, Persist(w) \/ StoreAlias(w)
  PROVE  Kept' /\ wop[w] \in Solvable
  <1>1. wpc[w] \in {"persist", "alias"} /\ wop[w] \in Solvable /\ wpc[w] # "idle"
        /\ wpc[w] \notin MintedSteps
    BY Mine DEF Persist, StoreAlias, At, Carries, OperatorSteps, MintedSteps
  <1>2. CASE StoreAlias(w)
    BY <1>1, <1>2, PublishedTyped DEF StoreAlias
  <1>3. CASE Persist(w) /\ ~Tagged(w)
    <2>1. ~OfChild(w)
      BY <1>3, Mine DEF Decided, Persist, At
    <2> QED
      BY <1>1, <1>3, <2>1, FileTyped DEF Persist, Bucket
  <1>4. CASE Persist(w) /\ Tagged(w)
    <2>1. /\ OfChild(w) => wout[w] # "none"
          /\ ~OfChild(w) => \A op \in Operator : verdict[w][op] = "todo" => op \in Solvable
      BY <1>4, Mine DEF Decided, Persist, At
    <2> QED
      BY <1>1, <1>4, <2>1, StayTyped
      DEF Persist, Step, MintedSteps, ChildSteps, SweepSteps, OperatorSteps
  <1> QED
    BY <1>1, <1>2, <1>3, <1>4

\* An operator dealt with.
LEMMA FiledTyped ==
  ASSUME Kept, NEW w \in Worker,
         \/ Find(w) /\ File(w, "cached")
         \/ CheckClaim(w) /\ File(w, "running")
         \/ Supersede(w) \/ Enqueue(w) \/ DropChild(w)
  PROVE  Kept'
  <1>1. wpc[w] \in SweepSteps /\ ~OfChild(w)
    BY Mine
    DEF Find, CheckClaim, Supersede, Enqueue, DropChild, At, Carries, SweepSteps, MintedSteps
  <1> QED
    BY <1>1, FileTyped DEF Supersede, Enqueue, DropChild, Bucket

LEMMA ErrorsTyped ==
  ASSUME Kept, NEW w \in Worker, CallFails(w) \/ Unfiled(w)
  PROVE  Kept'
  <1>1. CASE Unfiled(w)
    <2>1. CASE wpc[w] \in {"persist", "alias"}
      BY <1>1, <2>1, PublishedTyped DEF Unfiled, At
    <2>2. CASE wpc[w] \notin {"persist", "alias"}
      <3>1. wpc[w] \in SweepSteps /\ ~OfChild(w)
        BY <1>1, <2>2, Mine DEF Unfiled, At, Carries, SweepSteps, MintedSteps
      <3> QED
        BY <1>1, <2>2, <3>1, FileTyped DEF Unfiled, Bucket
    <2> QED
      BY <2>1, <2>2
  <1>2. CASE CallFails(w)
    <2>1. PICK onError \in NextOnError : wpc[w] = onError[1] /\ Goto(w, onError[2])
      BY <1>2 DEF CallFails, At
    <2>2. UNCHANGED <<wjob, wop, wchild, wbody, verdict, wout>>
      BY <1>2 DEF CallFails
    <2>3. CASE OfChild(w)
      <3>1. wpc[w] \notin SweepSteps /\ (wpc[w] \in ChildSteps => wop[w] \in Solvable)
        BY <2>3, Mine DEF Carries, OperatorSteps, ChildSteps
      <3>2. onError \in {<<"durable", "solve">>, <<"clear", "ack">>}
        BY <2>1, <3>1 DEF NextOnError, SweepSteps, MintedSteps
      <3>3. \/ wpc[w] = "durable" /\ Goto(w, "solve")
            \/ wpc[w] = "clear" /\ Goto(w, "ack")
        BY <2>1, <3>2
      <3> QED
        BY <2>2, <2>3, <3>1, <3>3, StayTyped
        DEF Step, MintedSteps, ChildSteps, SweepSteps, OperatorSteps
    <2>4. CASE ~OfChild(w)
      <3>1. wpc[w] \notin ChildSteps
        BY <2>4, Mine DEF Carries
      <3>2. onError \in NextOnError \ {<<"durable", "solve">>, <<"clear", "ack">>}
        BY <2>1, <3>1 DEF NextOnError, ChildSteps
      <3>3. onError[1] \in SweepSteps
        BY <3>2 DEF NextOnError, SweepSteps, MintedSteps
      <3>7. wpc[w] \in SweepSteps
        BY <2>1, <3>3
      <3>4. /\ \A op \in Operator : verdict[w][op] = "todo" => op \in Solvable
            /\ wpc[w] = "mark" => wout[w] # "none"
            /\ wpc[w] \notin {"next", "mark"} => wop[w] \in Solvable
            /\ wpc[w] # "idle"
        BY <2>4, <3>7, Mine DEF Decided, Carries, OperatorSteps, SweepSteps, MintedSteps
      <3>5. PICK to \in Step \ {"idle"} :
                /\ Goto(w, to) /\ to \notin ChildSteps /\ to \notin {"exists", "mark"}
                /\ wpc[w] \in MintedSteps <=> to \in MintedSteps
                /\ to = "settle" <=> wpc[w] = "mark"
                /\ wpc[w] # "next"
        BY <2>1, <3>2 DEF NextOnError, Step, ChildSteps, MintedSteps
      <3>6. to \in OperatorSteps \union {"exists"} => wop[w] \in Solvable
        BY <3>4, <3>5 DEF OperatorSteps, SweepSteps, MintedSteps
      <3> QED
        BY <2>2, <2>4, <3>4, <3>5, <3>6, StayTyped
    <2> QED
      BY <2>3, <2>4
  <1> QED
    BY <1>1, <1>2

\* A write carried out whose reply is lost.
LEMMA RepliesTyped ==
  ASSUME Kept, NEW w \in Worker, ReplyLost(w)
  PROVE  /\ Kept'
         /\ wop[w] \in Solvable \/ wpc[w] = "mark"
         /\ wpc[w] = "claim" => wchild[w] \in Child
         /\ wpc[w] = "enqueue" => wchild[w] \in Child /\ wjob[w] \in Sweep
  <1>0. /\ wpc[w] \in {"claim", "enqueue", "persist", "alias", "mark"}
        /\ wpc[w] # "mark" => wop[w] \in Solvable
        /\ wpc[w] \in {"claim", "enqueue", "mark"} => ~OfChild(w)
        /\ wpc[w] \in {"claim", "enqueue"} => wchild[w] \in Child /\ wjob[w] \in Job
    BY Mine
    DEF ReplyLost, At, Carries, SweepSteps, OperatorSteps, MintedSteps
  <1>1. ASSUME wpc[w] \in {"persist", "alias"}  PROVE Kept'
    <2>1. Published(w, "unpublished")
      BY <1>1 DEF ReplyLost, At
    <2> QED
      BY <1>1, <2>1, PublishedTyped
  <1>2. ASSUME wpc[w] \in {"claim", "enqueue", "mark"}  PROVE Kept'
    <2>1. PICK to \in {"enqueue", "undo", "settle"} :
              /\ Goto(w, to) /\ UNCHANGED <<wjob, wop, wchild, wbody, verdict, wout>>
              /\ to = "settle" <=> wpc[w] = "mark"
      BY <1>2 DEF ReplyLost, At
    <2>2. /\ wpc[w] = "mark" => wout[w] # "none"
          /\ \A op \in Operator : verdict[w][op] = "todo" => op \in Solvable
      BY <1>0, <1>2, Mine DEF Decided, SweepSteps, MintedSteps
    <2>3. to \in MintedSteps <=> wpc[w] \in MintedSteps
      BY <1>2, <2>1 DEF ReplyLost, At, MintedSteps
    <2> QED
      BY <1>0, <1>2, <2>1, <2>2, <2>3, StayTyped
      DEF Step, MintedSteps, ChildSteps, SweepSteps, OperatorSteps
  <1> QED
    BY <1>0, <1>1, <1>2 DEF OfChild, Job

LEMMA WorksTyped == ASSUME Kept, NEW w \in Worker, WorkerStep(w)  PROVE Kept'
  <1>1. ASSUME Find(w)  PROVE Kept'
    BY <1>1, SweepPassesTyped, FiledTyped
  <1>2. ASSUME CheckClaim(w)  PROVE Kept'
    BY <1>2, SweepPassesTyped, FiledTyped
  <1>3. ASSUME Acknowledge(w)  PROVE Kept'
    BY <1>3, LeaveTyped DEF Acknowledge
  <1> QED
    BY <1>1, <1>2, <1>3, LookupTyped, StartSweepTyped, NextTyped, CreateTyped,
       SweepPassesTyped, ChildPassesTyped, SettlesTyped,
       ConcludeTyped, PersistsTyped, FiledTyped
    DEF WorkerStep

LEMMA LocalsTyped == TInv /\ [Next]_vars => Kept'
  <1> SUFFICES ASSUME Kept, [Next]_vars  PROVE Kept'
    BY DEF TInv
  <1>1. ASSUME UNCHANGED localVars  PROVE Kept'
    BY <1>1 DEF localVars, Kept, Locals, Carries, Decided, OfChild, Tagged
  <1>2. ASSUME NEW w \in Worker, NEW j \in Job, Deliver(w, j) \/ Reclaim(w, j)  PROVE Kept'
    BY <1>1, <1>2, HoldTyped DEF Deliver, Reclaim
  <1>3. ASSUME NEW w \in Worker,
               \/ WorkerStep(w) \/ Abandon(w) \/ CallFails(w) \/ Unfiled(w) \/ FlagUnread(w)
               \/ ReplyLost(w) \/ ResultNotCached(w)
        PROVE  Kept'
    BY <1>3, WorksTyped, LeaveTyped, ErrorsTyped, ChildPassesTyped, RepliesTyped, SettlesTyped
    DEF Abandon
  <1>4. CASE \/ \E s \in Sweep, list \in SUBSET Operator, derived \in BOOLEAN :
                    Submit(s, list, derived)
             \/ PutLands \/ PutLost
             \/ \E j \in Job :
                    RequestCancel(j) \/ StateExpires(j) \/ WaitsTooLong(j) \/ CancelExpires(j)
             \/ \E s \in Sweep : PayloadExpires(s)
             \/ \E op \in Solvable : ResultExpires(op) \/ InflightExpires(op)
             \/ UNCHANGED vars
    BY <1>1, <1>4
    DEF Submit, PutLands, PutLost, RequestCancel, StateExpires, WaitsTooLong, CancelExpires,
        PayloadExpires, ResultExpires, InflightExpires, vars, localVars
  <1> QED
    BY <1>2, <1>3, <1>4 DEF Next

-----------------------------------------------------------------------------
(* Types: Redis and S3.                                                    *)

\* A verdict, a claim or an XACK leaves the types alone.
LEMMA VerdictTyped ==
  ASSUME Stores, NEW j \in Job, NEW value \in {"none", "running"} \union Terminal,
         state' = [state EXCEPT ![j] = value]
  PROVE  state' \in [Job -> {"none", "running"} \union Terminal]
  BY DEF Stores

LEMMA ClaimsTyped ==
  ASSUME Stores, NEW op \in Solvable, NEW c \in Child \union {NoJob},
         inflight' = [inflight EXCEPT ![op] = c]
  PROVE  inflight' \in [Solvable -> Child \union {NoJob}]
  BY DEF Stores

LEMMA AckTyped ==
  ASSUME Stores, NEW w, NEW j \in Job, Ack(w, j)
  PROVE  pel' \in [Job -> Nat] /\ parent' \in [Child -> Sweep \union {NoJob}]
  BY DEF Stores, Ack

LEMMA XAddTyped ==
  ASSUME Stores, NEW w, XAdd(w), wchild[w] \in Child, wjob[w] \in Sweep
  PROVE  queued' \subseteq Job /\ parent' \in [Child -> Sweep \union {NoJob}]
  BY DEF Stores, XAdd, Job

LEMMA MishapsTyped ==
  ASSUME Stores,
         \/ UNCHANGED mishaps
         \/ \E hazard \in Hazard : mishaps' = mishaps \union {hazard}
  PROVE  mishaps' \subseteq Hazard
  BY DEF Stores

LEMMA DeliveredTyped ==
  ASSUME TInv, NEW w \in Worker, NEW j \in Job, Deliver(w, j) \/ Reclaim(w, j)
  PROVE  Stores'
  <1> USE DEF TInv
  <1>1. CASE Deliver(w, j)
    BY <1>1 DEF Deliver, redisVars, s3Vars, Stores
  <1>2. CASE Reclaim(w, j)
    <2>1. mishaps' \subseteq Hazard
      BY <1>2, MishapsTyped DEF Reclaim, Mishap, Hazard
    <2>2. CASE pel[j] + 1 > Cap(j)
      <3>1. state' \in [Job -> {"none", "running"} \union Terminal]
        BY <1>2, <2>2 DEF Reclaim, Stores, Terminal
      <3>2. inflight' \in [Solvable -> Child \union {NoJob}]
        BY <1>2, <2>2, SweepAssumption DEF Reclaim, ClearInflight, Stores
      <3> QED
        BY <1>2, <2>1, <2>2, <3>1, <3>2, AckTyped DEF Reclaim, Stores, s3Vars
    <2>3. CASE ~(pel[j] + 1 > Cap(j))
      <3>1. pel' \in [Job -> Nat]
        BY <1>2, <2>3 DEF Reclaim, Stores
      <3> QED
        BY <1>2, <2>1, <2>3, <3>1 DEF Reclaim, Stores, s3Vars
    <2> QED
      BY <2>2, <2>3
  <1> QED
    BY <1>1, <1>2

\* The steps that write neither Redis nor S3.
LEMMA ReadsTyped ==
  ASSUME TInv, NEW w \in Worker,
         \/ Lookup(w) \/ Reconcile(w) \/ CheckExists(w) \/ StartChild(w) \/ StartSweep(w)
         \/ NextOperator(w) \/ Find(w) \/ CheckClaim(w) \/ Conclude(w) \/ FindDurable(w)
         \/ Abandon(w) \/ CallFails(w) \/ Unfiled(w)
  PROVE  Stores'
  <1>1. UNCHANGED <<redisVars, streamVars, s3Vars>>
    BY DEF Lookup, Reconcile, CheckExists, StartChild, StartSweep, NextOperator, Find, CheckClaim,
       Conclude, FindDurable, Abandon, CallFails, Unfiled, Unread
  <1>2. mishaps' \subseteq Hazard
    BY MishapsTyped
    DEF Lookup, Reconcile, CheckExists, StartChild, StartSweep, NextOperator, Find, CheckClaim,
        Conclude, FindDurable, Abandon, CallFails, Unfiled, Unread, Fault, Mishap, Hazard, TInv
  <1> QED
    BY <1>1, <1>2 DEF TInv, Stores, redisVars, streamVars, s3Vars

LEMMA SweepsTyped ==
  ASSUME TInv, NEW w \in Worker,
         \/ ClearStale(w) \/ Create(w) \/ Claim(w) \/ Supersede(w) \/ Enqueue(w) \/ UndoClaim(w)
         \/ DropChild(w) \/ Mark(w)
  PROVE  Stores'
  <1>0. /\ wpc[w] \in OperatorSteps => wop[w] \in Solvable
        /\ wpc[w] \in MintedSteps => wchild[w] \in Child
        /\ wpc[w] \in MintedSteps => wjob[w] \in Sweep
    BY Mine, SweepAssumption DEF TInv, Carries, SweepSteps, MintedSteps, OfChild, Job
  <1> USE DEF TInv, At, streamVars, s3Vars, redisVars
  <1>1. CASE ClearStale(w) \/ UndoClaim(w)
    <2>1. wop[w] \in Solvable /\ ClearInflight(wop[w])
      BY <1>0, <1>1 DEF ClearStale, UndoClaim, OperatorSteps, SweepSteps, MintedSteps
    <2> QED
      BY <1>1, <2>1, ClaimsTyped DEF ClearStale, UndoClaim, ClearInflight, Stores
  <1>2. CASE Create(w)
    <2>1. state' \in [Job -> {"none", "running"} \union Terminal]
      BY <1>2, CreateTyped, VerdictTyped DEF Job
    <2> QED
      BY <1>2, <2>1 DEF Create, Stores
  <1>3. CASE Claim(w)
    <2>1. wop[w] \in Solvable /\ wchild[w] \in Child
      BY <1>0, <1>3 DEF Claim, OperatorSteps, SweepSteps, MintedSteps
    <2>2. inflight' \in [Solvable -> Child \union {NoJob}]
      BY <1>3, <2>1 DEF Claim, TryClaim, Stores
    <2> QED
      BY <1>3, <2>2 DEF Claim, Stores
  <1>4. CASE Supersede(w) \/ DropChild(w)
    <2>1. wchild[w] \in Job
      BY <1>0, <1>4 DEF Supersede, DropChild, MintedSteps, Job
    <2>2. state' \in [Job -> {"none", "running"} \union Terminal]
      BY <1>4, <2>1, VerdictTyped DEF Supersede, DropChild, Terminal
    <2> QED
      BY <1>4, <2>2 DEF Supersede, DropChild, Stores
  <1>5. CASE Enqueue(w)
    <2>1. wchild[w] \in Child /\ wjob[w] \in Sweep
      BY <1>0, <1>5 DEF Enqueue, MintedSteps
    <2> QED
      BY <1>5, <2>1, XAddTyped DEF Enqueue, Stores
  <1>6. CASE Mark(w)
    BY <1>6 DEF Mark, Stores
  <1> QED
    BY <1>1, <1>2, <1>3, <1>4, <1>5, <1>6

LEMMA ChildrenTyped ==
  ASSUME TInv, NEW w \in Worker,
         \/ Solve(w) \/ CheckFlag(w) \/ FlagUnread(w) \/ Persist(w) \/ StoreAlias(w)
         \/ Settle(w) \/ ResultNotCached(w) \/ ClearClaim(w) \/ Acknowledge(w)
  PROVE  Stores'
  <1> USE DEF TInv, At, streamVars, s3Vars, redisVars
  <1>1. CASE Solve(w) \/ CheckFlag(w) \/ FlagUnread(w)
    <2>1. wop[w] \in Solvable
      BY <1>1, ChildPassesTyped
    <2>2. mishaps' \subseteq Hazard
      BY <1>1, MishapsTyped DEF Solve, CheckFlag, FlagUnread, Mishap, Hazard
    <2> QED
      BY <1>1, <2>1, <2>2 DEF Solve, CheckFlag, FlagUnread, Withhold, Detach, Stores
  <1>2. CASE Persist(w) \/ StoreAlias(w)
    BY <1>2, PersistsTyped DEF Persist, StoreAlias, Stores
  <1>3. CASE Settle(w) \/ ResultNotCached(w)
    <2>1. /\ wpc[w] = "settle" /\ wjob[w] \in Job
          /\ wout[w] \in Terminal \union {"republished", "served"}
          /\ OfChild(w) => wop[w] \in Solvable
      BY <1>3, Mine DEF Settle, ResultNotCached, Carries, Decided
    <2>2. Verdict(w) \in Terminal
      BY <2>1 DEF Verdict, Terminal
    <2>3. state' \in [Job -> {"none", "running"} \union Terminal]
      BY <1>3, <2>1, <2>2, VerdictTyped DEF Settle, ResultNotCached
    <2>4. UNCHANGED mishaps \/ mishaps' = mishaps \union {"fault"}
      BY <1>3 DEF Settle, ResultNotCached, Mishap
    <2> QED
      BY <1>3, <2>1, <2>3, <2>4 DEF Settle, ResultNotCached, Stores, Hazard
  <1>4. CASE ClearClaim(w)
    <2>1. wop[w] \in Solvable
      BY <1>4, ChildPassesTyped
    <2> QED
      BY <1>4, <2>1, ClaimsTyped DEF ClearClaim, ClearInflight, Stores
  <1>5. CASE Acknowledge(w)
    <2>1. wjob[w] \in Job
      BY <1>5, Mine DEF Acknowledge, Carries
    <2> QED
      BY <1>5, <2>1, AckTyped DEF Acknowledge, Stores
  <1> QED
    BY <1>1, <1>2, <1>3, <1>4, <1>5

LEMMA LostTyped == ASSUME TInv, NEW w \in Worker, ReplyLost(w)  PROVE Stores'
  <1>1. /\ wop[w] \in Solvable \/ wpc[w] = "mark"
        /\ wpc[w] = "claim" => wchild[w] \in Child
        /\ wpc[w] = "enqueue" => wchild[w] \in Child /\ wjob[w] \in Sweep
    BY RepliesTyped DEF TInv
  <1>2. /\ UNCHANGED <<state, cancel, plan, result, pel, puts>>
        /\ mishaps' = mishaps \union {"fault"}
    BY DEF ReplyLost, Mishap
  <1>3. CASE At(w, "enqueue")
    <2>1. XAdd(w) /\ UNCHANGED <<inflight, durable, alias, marker>>
      BY <1>3 DEF ReplyLost, At
    <2> QED
      BY <1>1, <1>2, <1>3, <2>1, XAddTyped DEF TInv, Stores, Hazard, At
  <1>4. CASE At(w, "claim")
    BY <1>1, <1>2, <1>4, ClaimsTyped DEF ReplyLost, TInv, Stores, Hazard, At
  <1>5. CASE ~At(w, "enqueue") /\ ~At(w, "claim")
    <2>1. UNCHANGED <<queued, parent, inflight>>
      BY <1>5 DEF ReplyLost
    <2>2. \/ wpc[w] = "persist" /\ durable' = durable \union {wop[w]} /\ UNCHANGED <<alias, marker>>
          \/ wpc[w] = "alias" /\ alias' = alias \union {wop[w]} /\ UNCHANGED <<durable, marker>>
          \/ marker' = TRUE /\ UNCHANGED <<alias, durable>>
      BY <1>5, Zenon DEF ReplyLost, At
    <2> QED
      BY <1>1, <1>2, <2>1, <2>2 DEF TInv, Stores, Hazard
  <1> QED
    BY <1>3, <1>4, <1>5

LEMMA OthersTyped ==
  ASSUME TInv,
         \/ \E s \in Sweep, list \in SUBSET Operator, derived \in BOOLEAN :
                Submit(s, list, derived)
         \/ PutLands \/ PutLost
         \/ \E j \in Job :
                RequestCancel(j) \/ StateExpires(j) \/ WaitsTooLong(j) \/ CancelExpires(j)
         \/ \E s \in Sweep : PayloadExpires(s)
         \/ \E op \in Solvable : ResultExpires(op) \/ InflightExpires(op)
  PROVE  Stores'
  <1> USE DEF TInv, Stores, redisVars, streamVars, s3Vars
  <1>0. NoPlan \in [listed : SUBSET Operator, derived : BOOLEAN]
    BY DEF NoPlan
  <1>1. ASSUME NEW s \in Sweep, NEW list \in SUBSET Operator, NEW derived \in BOOLEAN,
               Submit(s, list, derived)
        PROVE  Stores'
    <2>1. [listed |-> list, derived |-> derived] \in [listed : SUBSET Operator, derived : BOOLEAN]
      OBVIOUS
    <2>2. plan' \in [Sweep -> [listed : SUBSET Operator, derived : BOOLEAN]]
      BY <1>1, <2>1 DEF Submit
    <2>3. state' \in [Job -> {"none", "running"} \union Terminal] /\ queued' \subseteq Job
      BY <1>1 DEF Submit, Terminal, Job
    <2>4. mishaps' \subseteq Hazard
      BY <1>1, MishapsTyped DEF Submit, Mishap, Hazard
    <2> QED
      BY <1>1, <2>2, <2>3, <2>4 DEF Submit
  <1>2. CASE PutLands \/ PutLost
    BY <1>2 DEF PutLands, PutLost, Mishap, Hazard
  <1>3. ASSUME NEW j \in Job,
               RequestCancel(j) \/ StateExpires(j) \/ WaitsTooLong(j) \/ CancelExpires(j)
        PROVE  Stores'
    <2>1. state' \in [Job -> {"none", "running"} \union Terminal]
      BY <1>3 DEF RequestCancel, StateExpires, WaitsTooLong, CancelExpires
    <2>2. plan' \in [Sweep -> [listed : SUBSET Operator, derived : BOOLEAN]]
      BY <1>0, <1>3 DEF RequestCancel, StateExpires, WaitsTooLong, CancelExpires
    <2>3. mishaps' \subseteq Hazard
      BY <1>3, MishapsTyped
      DEF RequestCancel, StateExpires, WaitsTooLong, CancelExpires, Mishap, Hazard
    <2> QED
      BY <1>3, <2>1, <2>2, <2>3 DEF RequestCancel, StateExpires, WaitsTooLong, CancelExpires
  <1>4. ASSUME NEW s \in Sweep, PayloadExpires(s)  PROVE Stores'
    BY <1>0, <1>4 DEF PayloadExpires, Mishap, Hazard
  <1>5. ASSUME NEW op \in Solvable, ResultExpires(op) \/ InflightExpires(op)  PROVE Stores'
    BY <1>5, ClaimsTyped DEF ResultExpires, InflightExpires, ClearInflight
  <1> QED
    BY <1>1, <1>2, <1>3, <1>4, <1>5

LEMMA StoresTyped == TInv /\ [Next]_vars => Stores'
  <1> SUFFICES ASSUME TInv, [Next]_vars  PROVE Stores'
    OBVIOUS
  <1>1. CASE UNCHANGED vars
    BY <1>1 DEF vars, redisVars, streamVars, s3Vars, TInv, Stores
  <1> QED
    BY <1>1, DeliveredTyped, ReadsTyped, SweepsTyped, ChildrenTyped, LostTyped, OthersTyped
    DEF Next, WorkerStep

\* Every key, entry and worker keeps its type; a worker has an entry unless it
\* is idle, and a new child only from creating it to filing its operator.
THEOREM TypeCorrect == Spec => []TypeOK
  <1>1. TInv => TypeOK
    BY DEF TInv, Kept, Stores, Locals, Carries, MintedSteps, TypeOK
  <1>2. TInv /\ [Next]_vars => TInv'
    BY LocalsTyped, StoresTyped DEF TInv
  <1> QED
    BY <1>1, <1>2, InitTypes, PTL DEF Spec
=============================================================================
