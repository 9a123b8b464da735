--------------------------- MODULE JobQueueProofs ---------------------------
(***************************************************************************)
(* Safety of the job queue for any jobs, workers and budgets.              *)
(*                                                                         *)
(* IInv adds to the types: who is handling which entry (Ownership), what   *)
(* each stage of a handler or a worker has already done (Stages), and      *)
(* where a verdict may stand (Verdicts).  Each step of a handler, a worker *)
(* or the clock keeps it; the theorems that follow read their property     *)
(* off.  The second half counts the deliveries of an entry (Counted) and   *)
(* follows it where no mishap puts it into two hands (Alone, Deduped); the *)
(* end shows that every step is one of the abstract queue's (Refines).     *)
(***************************************************************************)
EXTENDS JobQueue, FiniteSetTheorems, TLAPS

LEMMA InitType == Init => TypeOK
  BY JobAssumption, HashAssumption, BudgetAssumption
  DEF Init, StoreInit, ApiInit, WorkerInit, TypeOK, StoreTypeOK, ApiTypeOK,
      WorkerTypeOK, JobState, Terminal, ApiPc, Ended, WorkerPc, Beating, Solving, Out

LEMMA SpendType ==
  ASSUME left \in [Hazard -> Nat], NEW k \in Hazard, Spend(k)
  PROVE  left' \in [Hazard -> Nat]
  BY DEF Spend

LEMMA AddedFinite ==
  ASSUME StoreTypeOK
  PROVE  Cardinality(Added) \in Nat
  <1>1. IsFiniteSet(Added)
    BY JobAssumption, FS_Subset DEF Added
  <1> QED
    BY <1>1, FS_CardinalityType

LEMMA XAddType ==
  ASSUME StoreTypeOK, NEW j \in Job, XAdd(j)
  PROVE  id' \in [Job -> Nat] /\ trimmed' \subseteq Job
  <1>1. Cardinality(Added) + 1 \in Nat
    BY AddedFinite
  <1>2. (Added \ trimmed) \union {j} \subseteq Job
    BY DEF Added
  <1> QED
    BY <1>1, <1>2 DEF XAdd, StoreTypeOK

LEMMA ApiType ==
  ASSUME TypeOK, NEW j \in Job, ApiStep(j), UNCHANGED workerVars
  PROVE  TypeOK'
  <1> USE DEF TypeOK, StoreTypeOK, ApiTypeOK, keyVars, streamVars, s3Vars, Goto
  <1>0. WorkerTypeOK'
    BY DEF WorkerTypeOK, workerVars, localVars, historyVars
  <1>1. CASE PeekClaim(j)
    BY <1>0, <1>1, HashAssumption DEF PeekClaim, ApiPc, Ended
  <1>2. CASE CheckClaim(j)
    BY <1>0, <1>2 DEF CheckClaim, ApiPc, Ended
  <1>3. CASE ClearStale(j)
    BY <1>0, <1>3 DEF ClearStale, ClearInflight, ApiPc, Ended
  <1>4. CASE Create(j)
    BY <1>0, <1>4 DEF Create, SetState, JobState, ApiPc, Ended
  <1>5. CASE LookupDurable(j)
    BY <1>0, <1>5 DEF LookupDurable, AfterMiss, ApiPc, Ended
  <1>6. CASE ServeDurable(j)
    BY <1>0, <1>6 DEF ServeDurable, SetState, JobState, Terminal, ApiPc, Ended
  <1>7. CASE Claim(j)
    BY <1>0, <1>7, HashAssumption DEF Claim, ClaimInflight, ApiPc, Ended
  <1>8. CASE FindWinner(j)
    BY <1>0, <1>8, HashAssumption DEF FindWinner, ApiPc, Ended
  <1>9. CASE VerifyWinner(j)
    BY <1>0, <1>9 DEF VerifyWinner, ApiPc, Ended
  <1>10. CASE Tidy(j)
    BY <1>0, <1>10 DEF Tidy, SetState, JobState, Terminal, ApiPc, Ended
  <1>11. CASE StorePayload(j)
    BY <1>0, <1>11 DEF StorePayload, ApiPc, Ended
  <1>12. CASE Enqueue(j)
    BY <1>0, <1>12, XAddType DEF Enqueue, ApiPc, Ended
  <1>13. CASE UndoClaim(j)
    BY <1>0, <1>13 DEF UndoClaim, ClearInflight, ApiPc, Ended
  <1>14. CASE FailEnqueue(j)
    BY <1>0, <1>14 DEF FailEnqueue, SetState, JobState, Terminal, ApiPc, Ended
  <1> QED
    BY <1>1, <1>2, <1>3, <1>4, <1>5, <1>6, <1>7, <1>8, <1>9, <1>10, <1>11,
       <1>12, <1>13, <1>14 DEF ApiStep

LEMMA ApiFaultType ==
  ASSUME TypeOK, NEW j \in Job, ApiFault(j), UNCHANGED workerVars
  PROVE  TypeOK'
  <1> USE DEF TypeOK, StoreTypeOK, ApiTypeOK, keyVars, streamVars, s3Vars, Goto
  <1>0. WorkerTypeOK'
    BY DEF WorkerTypeOK, workerVars, localVars, historyVars
  <1>1. OnError(j) \in ApiPc
    BY DEF OnError, AfterMiss, ApiPc, Ended
  <1>2. left' \in [Hazard -> Nat]
    BY SpendType, BudgetAssumption DEF ApiFault, CallFails, ReplyLost, HandlerDropped
  <1>3. CASE CallFails(j)
    BY <1>0, <1>1, <1>2, <1>3 DEF CallFails, Goto
  <1>4. CASE ReplyLost(j)
    <2>1. CASE UNCHANGED streamVars /\ ClaimInflight(j)
      BY <1>0, <1>1, <1>2, <1>4, <2>1, HashAssumption DEF ReplyLost, ClaimInflight
    <2>2. CASE XAdd(j) /\ UNCHANGED <<inflight, delivered, pel, idle, dead>>
      BY <1>0, <1>1, <1>2, <1>4, <2>2, XAddType DEF ReplyLost
    <2> QED
      BY <1>4, <2>1, <2>2 DEF ReplyLost
  <1>5. CASE HandlerDropped(j)
    BY <1>0, <1>2, <1>5 DEF HandlerDropped, ApiPc, Ended
  <1> QED
    BY <1>3, <1>4, <1>5 DEF ApiFault

LEMMA WorkerType ==
  ASSUME TypeOK, NEW w \in Worker, WorkerStep(w), UNCHANGED apiVars
  PROVE  TypeOK'
  <1> USE DEF TypeOK, StoreTypeOK, WorkerTypeOK, keyVars, streamVars, s3Vars,
              historyVars, At, Step, Leave, End
  <1>0. ApiTypeOK'
    BY DEF ApiTypeOK, apiVars
  <1> DEFINE Pcs == {"lookup", "load", "durable", "baseline", "modified",
                     "estimate", "loop", "next", "settle", "cache", "clear",
                     "ack", "poison", "release", "bury"}
  <1>a. WorkerPc = Pcs
    BY DEF WorkerPc, Beating, Solving
  <1> HIDE DEF Pcs
  <1>1. CASE Read(w)
    <2>1. PICK j \in Job : Deliver({j}) /\ Process(w, j)
      BY <1>1 DEF Read, Undelivered, Added
    <2>2. StoreTypeOK'
      BY <1>1, <2>1 DEF Read, Deliver
    <2>3. WorkerTypeOK'
      BY <1>1, <2>1, <1>a, JobAssumption DEF Read, Process, Pcs
    <2> QED
      BY <1>0, <2>2, <2>3
  <1>2. CASE Reclaim(w)
    BY <1>0, <1>2, <1>a DEF Reclaim, Claimable, Pcs
  <1>3. CASE NextReclaimed(w)
    BY <1>0, <1>3, <1>a, JobAssumption DEF NextReclaimed, Process, Renew, Pcs
  <1>4. CASE LookupResult(w)
    BY <1>0, <1>4, <1>a DEF LookupResult, Out, Pcs
  <1>5. CASE LoadJob(w)
    BY <1>0, <1>5, <1>a DEF LoadJob, Out, Pcs
  <1>6. CASE SolveBaseline(w)
    BY <1>0, <1>6, <1>a DEF SolveBaseline, Out, Pcs
  <1>7. CASE LoadEstimate(w)
    BY <1>0, <1>7, <1>a DEF LoadEstimate, Out, Pcs
  <1>8. CASE Solve(w)
    BY <1>0, <1>8, <1>a, HashAssumption DEF Solve, Out, Pcs
  <1>9. CASE Settle(w)
    BY <1>0, <1>9, <1>a DEF Settle, SetState, Verdict, AfterSettling, JobState, Terminal, Pcs
  <1>10. CASE CacheResult(w)
    BY <1>0, <1>10, <1>a, HashAssumption DEF CacheResult, StorePut, AfterSettling, Pcs
  <1>11. CASE ClearClaim(w)
    BY <1>0, <1>11, <1>a DEF ClearClaim, ClearInflight, Pcs
  <1>12. CASE Ack(w)
    BY <1>0, <1>12, <1>a DEF Ack, XAck, Out, Pcs
  <1>13. CASE PoisonFail(w)
    BY <1>0, <1>13, <1>a DEF PoisonFail, SetState, JobState, Terminal, Pcs
  <1>14. CASE PoisonRelease(w)
    BY <1>0, <1>14, <1>a DEF PoisonRelease, ClearInflight, Pcs
  <1>15. CASE DeadLetter(w)
    BY <1>0, <1>15, <1>a DEF DeadLetter, Pcs
  <1>16. CASE Beat(w)
    BY <1>0, <1>16 DEF Beat, Renew, workerVars, localVars
  <1> QED
    BY <1>1, <1>2, <1>3, <1>4, <1>5, <1>6, <1>7, <1>8, <1>9, <1>10, <1>11,
       <1>12, <1>13, <1>14, <1>15, <1>16 DEF WorkerStep

LEMMA WorkerFaultType ==
  ASSUME TypeOK, NEW w \in Worker, WorkerFault(w), UNCHANGED apiVars
  PROVE  TypeOK'
  <1> USE DEF TypeOK, StoreTypeOK, WorkerTypeOK, keyVars, streamVars, s3Vars,
              historyVars, At, Step, Abandon
  <1>0. ApiTypeOK'
    BY DEF ApiTypeOK, apiVars
  <1>1. left' \in [Hazard -> Nat]
    BY SpendType, BudgetAssumption DEF WorkerFault, SkipWrite, MissEstimate, CallErrs, Crash
  <1> DEFINE Pcs == {"lookup", "load", "durable", "baseline", "modified",
                     "estimate", "loop", "next", "settle", "cache", "clear",
                     "ack", "poison", "release", "bury"}
  <1>a. WorkerPc = Pcs
    BY DEF WorkerPc, Beating, Solving
  <1> HIDE DEF Pcs
  <1>2. CASE SkipWrite(w)
    BY <1>0, <1>1, <1>2, <1>a, HashAssumption DEF SkipWrite, StorePut, AfterSettling, Pcs
  <1>3. CASE MissEstimate(w)
    BY <1>0, <1>1, <1>3, <1>a DEF MissEstimate, Pcs
  <1>4. CASE CallErrs(w)
    <2>1. state' \in [Job -> JobState]
      <3>1. Verdict(wout[w]) \in JobState
        BY DEF Verdict, JobState, Terminal
      <3> QED
        BY <1>4, <3>1 DEF CallErrs, SetState
    <2> QED
      BY <1>0, <1>1, <1>4, <1>a, <2>1 DEF CallErrs, Out, Pcs
  <1>5. CASE Crash(w)
    BY <1>0, <1>1, <1>5, <1>a DEF Crash, Out, Pcs
  <1> QED
    BY <1>2, <1>3, <1>4, <1>5 DEF WorkerFault

LEMMA TimeType ==
  ASSUME TypeOK, Time
  PROVE  TypeOK'
  <1> USE DEF TypeOK, StoreTypeOK, keyVars, streamVars, s3Vars
  <1>0. UNCHANGED <<apiVars, workerVars>> => ApiTypeOK' /\ WorkerTypeOK'
    BY DEF ApiTypeOK, WorkerTypeOK, apiVars, workerVars, localVars, historyVars
  <1>1. ASSUME NEW j \in Job, GoIdle(j)  PROVE TypeOK'
    BY <1>0, <1>1, BudgetAssumption DEF GoIdle, Pending
  <1>2. ASSUME NEW j \in Job, StateExpires(j) \/ RetentionEnds(j)  PROVE TypeOK'
    BY <1>0, <1>2 DEF StateExpires, RetentionEnds, Spend, SetState, JobState
  <1>3. ASSUME NEW j \in Job, PayloadExpires(j) \/ CancelExpires(j)  PROVE TypeOK'
    BY <1>0, <1>3 DEF PayloadExpires, CancelExpires, Spend
  <1>4. ASSUME NEW h \in Hash, ResultExpires(h) \/ InflightExpires(h)  PROVE TypeOK'
    BY <1>0, <1>4 DEF ResultExpires, InflightExpires, ClearInflight, Spend
  <1> QED
    BY <1>1, <1>2, <1>3, <1>4 DEF Time

LEMMA EnvironmentType ==
  ASSUME TypeOK, UNCHANGED <<apiVars, workerVars>>,
         PutLands \/ PutLost \/ (\E j \in Job : RequestCancel(j))
  PROVE  TypeOK'
  <1> USE DEF TypeOK, StoreTypeOK, keyVars, streamVars, s3Vars
  <1>0. ApiTypeOK' /\ WorkerTypeOK'
    BY DEF ApiTypeOK, WorkerTypeOK, apiVars, workerVars, localVars, historyVars
  <1>1. CASE PutLands
    BY <1>0, <1>1 DEF PutLands
  <1>2. CASE PutLost
    BY <1>0, <1>2, SpendType, BudgetAssumption DEF PutLost
  <1>3. ASSUME NEW j \in Job, RequestCancel(j)  PROVE TypeOK'
    <2>1. left' \in [Hazard -> Nat]
      BY <1>3, SpendType, BudgetAssumption DEF RequestCancel
    <2> QED
      BY <1>0, <1>3, <2>1 DEF RequestCancel
  <1> QED
    BY <1>1, <1>2, <1>3

LEMMA NextType == TypeOK /\ [Next]_vars => TypeOK'
  <1> SUFFICES ASSUME TypeOK, [Next]_vars  PROVE TypeOK'
    OBVIOUS
  <1>1. CASE UNCHANGED vars
    BY <1>1 DEF vars, TypeOK, StoreTypeOK, ApiTypeOK, WorkerTypeOK, keyVars,
                streamVars, s3Vars, apiVars, workerVars, localVars, historyVars
  <1>2. CASE Next
    BY <1>2, ApiType, ApiFaultType, WorkerType, WorkerFaultType, TimeType,
       EnvironmentType DEF Next, Cancel
  <1> QED
    BY <1>1, <1>2

\* Every variable of the queue keeps its type, whatever the numbers of jobs,
\* workers, hashes and mishaps.
THEOREM TypeCorrect == Spec => []TypeOK
  BY InitType, NextType, PTL DEF Spec

-----------------------------------------------------------------------------
(* The inductive invariant behind the three safety properties.             *)

Settled(j) == state[j] = "running" => j \in dead \union trimmed
Released(j) == inflight[HashOf[j]] = j => j \in skipped \union trimmed
Requested(j) == \E s \in JobState : <<j, s>> \in asked

\* Whatever a worker or the pending list holds was delivered, hence added,
\* and the submission that added it never creates or claims again.
Ownership ==
    /\ delivered \subseteq Added
    /\ Pending \subseteq delivered /\ idle \subseteq delivered
    /\ \A w \in Worker : /\ wjob[w] # NoJob => wjob[w] \in delivered
                         /\ wbatch[w] \subseteq delivered
    /\ \A j \in Added : api[j] \in {"accepted", "undo", "fail", "error", "gone"}

\* What each stage of the terminal handling has already achieved.
Finishing(w) == wpc[w] \in {"cache", "clear", "ack"}
Releasing(w) == wpc[w] \in {"bury", "ack"} /\ wjob[w] \in Linkest

Stages ==
    \A w \in Worker : /\ Finishing(w) => Settled(wjob[w])
                      /\ Releasing(w) => Released(wjob[w])

\* Where a verdict of cancelled can come from.
Sourced(w) ==
    /\ wpc[w] \in {"loop", "next"} => wout[w] = "none"
    /\ wpc[w] = "settle" => wout[w] # "none"
    /\ wout[w] = "cancelled" => Requested(wjob[w])

Verdicts ==
    /\ \A w \in Worker : Sourced(w)
    /\ \A j \in cancel : Requested(j)

IInv ==
    /\ TypeOK /\ Ownership /\ Stages /\ Verdicts
    /\ SettledWhenAcked /\ ClaimReleased /\ CancelledOnlyOnRequest

LEMMA InitIInv == Init => IInv
  <1> SUFFICES ASSUME Init  PROVE IInv
    OBVIOUS
  <1>1. TypeOK
    BY InitType
  <1> QED
    BY <1>1, JobAssumption
    DEF Init, StoreInit, ApiInit, WorkerInit, IInv, Ownership, Stages, Finishing,
        Releasing, Verdicts, Sourced, SettledWhenAcked, ClaimReleased, CancelledOnlyOnRequest, Acked, Pending, Added

\* A group of steps at a time: which of them touch the stream, the state
\* hashes, the claims and the requests, and how.

LEMMA OnlyAddsAdd ==
  ASSUME Next
  PROVE  \/ id' = id /\ trimmed' = trimmed
         \/ \E j \in Job : Enqueue(j) \/ (ReplyLost(j) /\ api[j] = "add")
  <1> USE DEF streamVars
  <1>1. ASSUME NEW j \in Job, ApiStep(j), ~Enqueue(j)
        PROVE  id' = id /\ trimmed' = trimmed
    BY <1>1 DEF ApiStep, PeekClaim, CheckClaim, ClearStale, Create, LookupDurable,
       ServeDurable, Claim, FindWinner, VerifyWinner, Tidy, StorePayload, UndoClaim, FailEnqueue
  <1>2. ASSUME NEW j \in Job, ApiFault(j), ~(ReplyLost(j) /\ api[j] = "add")
        PROVE  id' = id /\ trimmed' = trimmed
    BY <1>2 DEF ApiFault, CallFails, ReplyLost, HandlerDropped
  <1>3. ASSUME NEW w \in Worker, WorkerStep(w) \/ WorkerFault(w)
        PROVE  id' = id /\ trimmed' = trimmed
    BY <1>3 DEF WorkerStep, WorkerFault, Read, Reclaim, NextReclaimed, LookupResult,
       LoadJob, SolveBaseline, LoadEstimate, Solve, Settle, CacheResult, ClearClaim, Ack,
       PoisonFail, PoisonRelease, DeadLetter, Beat, SkipWrite, MissEstimate, CallErrs, Crash
  <1>4. ASSUME Time \/ PutLands \/ PutLost \/ (\E j \in Job : Cancel(j))
        PROVE  id' = id /\ trimmed' = trimmed
    BY <1>4 DEF Time, GoIdle, StateExpires, RetentionEnds, PayloadExpires, CancelExpires,
       ResultExpires, InflightExpires, PutLands, PutLost, Cancel, RequestCancel
  <1> QED
    BY <1>1, <1>2, <1>3, <1>4 DEF Next

LEMMA AddedOnlyGrows ==
  ASSUME TypeOK, Next
  PROVE  /\ Added \subseteq Added'
         /\ \A j \in Added' \ Added : api[j] = "add" /\ api'[j] \in {"accepted", "undo", "fail"}
  <1> USE DEF TypeOK, StoreTypeOK, ApiTypeOK, streamVars
  <1>0. ASSUME NEW j \in Job, XAdd(j), api[j] = "add",
               api' = [api EXCEPT ![j] = "accepted"] \/ api' = [api EXCEPT ![j] = OnError(j)]
        PROVE  /\ Added \subseteq Added'
               /\ \A i \in Added' \ Added : api[i] = "add" /\ api'[i] \in {"accepted", "undo", "fail"}
    <2>1. Cardinality(Added) + 1 > 0 /\ Cardinality(Added) + 1 \in Nat
      BY AddedFinite
    <2>2. id' = [id EXCEPT ![j] = Cardinality(Added) + 1]
      BY <1>0 DEF XAdd
    <2>3. \A i \in Job : id'[i] > 0 <=> i = j \/ id[i] > 0
      BY <2>1, <2>2
    <2>4. Added' = Added \union {j}
      BY <2>3 DEF Added
    <2>5. api'[j] \in {"accepted", "undo", "fail"}
      BY <1>0 DEF OnError
    <2> QED
      BY <1>0, <2>4, <2>5
  <1>1. ASSUME NEW j \in Job, Enqueue(j) \/ (ReplyLost(j) /\ api[j] = "add")
        PROVE  /\ Added \subseteq Added'
               /\ \A i \in Added' \ Added : api[i] = "add" /\ api'[i] \in {"accepted", "undo", "fail"}
    BY <1>0, <1>1 DEF Enqueue, ReplyLost, Goto
  <1>2. ASSUME id' = id
        PROVE  Added' = Added
    BY <1>2 DEF Added
  <1> QED
    BY <1>1, <1>2, OnlyAddsAdd

LEMMA HistoryOnlyGrows ==
  ASSUME Next
  PROVE  /\ dead \subseteq dead' /\ trimmed \subseteq trimmed'
         /\ skipped \subseteq skipped' /\ asked \subseteq asked'
  <1> USE DEF streamVars, workerVars, historyVars
  <1>1. ASSUME NEW j \in Job, ApiStep(j) \/ ApiFault(j), UNCHANGED workerVars
        PROVE  dead' = dead /\ trimmed \subseteq trimmed' /\ skipped' = skipped /\ asked' = asked
    BY <1>1 DEF ApiStep, PeekClaim, CheckClaim, ClearStale, Create, LookupDurable,
       ServeDurable, Claim, FindWinner, VerifyWinner, Tidy, StorePayload, Enqueue,
       UndoClaim, FailEnqueue, ApiFault, CallFails, ReplyLost, HandlerDropped, XAdd
  <1>2. ASSUME NEW w \in Worker, WorkerStep(w) \/ WorkerFault(w)
        PROVE  dead \subseteq dead' /\ trimmed' = trimmed /\ skipped \subseteq skipped' /\ asked' = asked
    BY <1>2 DEF WorkerStep, WorkerFault, Read, Reclaim, NextReclaimed, LookupResult,
       LoadJob, SolveBaseline, LoadEstimate, Solve, Settle, CacheResult, ClearClaim, Ack,
       PoisonFail, PoisonRelease, DeadLetter, Beat, SkipWrite, MissEstimate, CallErrs, Crash
  <1>3. ASSUME Time
        PROVE  dead' = dead /\ trimmed' = trimmed /\ skipped' = skipped /\ asked' = asked
    BY <1>3 DEF Time, GoIdle, StateExpires, RetentionEnds, PayloadExpires, CancelExpires,
       ResultExpires, InflightExpires
  <1>4. ASSUME PutLands \/ PutLost, UNCHANGED workerVars
        PROVE  dead' = dead /\ trimmed' = trimmed /\ skipped' = skipped /\ asked' = asked
    BY <1>4 DEF PutLands, PutLost
  <1>5. ASSUME NEW j \in Job, Cancel(j)
        PROVE  dead' = dead /\ trimmed' = trimmed /\ skipped' = skipped /\ asked \subseteq asked'
    BY <1>5 DEF Cancel, RequestCancel
  <1> QED
    BY <1>1, <1>2, <1>3, <1>4, <1>5 DEF Next

\* A job in the stream never starts to read as running again, and never
\* claims its hash again.
LEMMA NoRestart ==
  ASSUME TypeOK, Ownership, Next, NEW j \in Added
  PROVE  /\ state'[j] = "running" => state[j] = "running"
         /\ inflight'[HashOf[j]] = j => inflight[HashOf[j]] = j
  <1> USE HashAssumption, JobAssumption DEF TypeOK, StoreTypeOK, keyVars
  <1>0. j \in Job /\ api[j] \in {"accepted", "undo", "fail", "error", "gone"}
    BY DEF Ownership, Added
  <1>1. ASSUME NEW i \in Job, ApiStep(i)
        PROVE  /\ state'[j] = "running" => state[j] = "running"
               /\ inflight'[HashOf[j]] = j => inflight[HashOf[j]] = j
    <2>1. CASE Create(i)
      BY <1>0, <2>1 DEF Create, SetState
    <2>2. CASE ServeDurable(i) \/ Tidy(i) \/ FailEnqueue(i)
      BY <1>0, <2>2 DEF ServeDurable, Tidy, FailEnqueue, SetState
    <2>3. CASE Claim(i)
      BY <1>0, <2>3 DEF Claim, ClaimInflight
    <2>4. CASE ClearStale(i) \/ UndoClaim(i)
      BY <1>0, <2>4 DEF ClearStale, UndoClaim, ClearInflight
    <2>5. CASE \/ PeekClaim(i) \/ CheckClaim(i) \/ LookupDurable(i) \/ FindWinner(i)
               \/ VerifyWinner(i) \/ StorePayload(i) \/ Enqueue(i)
      BY <2>5 DEF PeekClaim, CheckClaim, LookupDurable, FindWinner, VerifyWinner,
                  StorePayload, Enqueue
    <2> QED
      BY <1>1, <2>1, <2>2, <2>3, <2>4, <2>5 DEF ApiStep
  <1>2. ASSUME NEW i \in Job, ApiFault(i)
        PROVE  /\ state'[j] = "running" => state[j] = "running"
               /\ inflight'[HashOf[j]] = j => inflight[HashOf[j]] = j
    <2>1. CASE ReplyLost(i)
      BY <1>0, <2>1 DEF ReplyLost, ClaimInflight
    <2>2. CASE CallFails(i) \/ HandlerDropped(i)
      BY <2>2 DEF CallFails, HandlerDropped
    <2> QED
      BY <1>2, <2>1, <2>2 DEF ApiFault
  <1>3. ASSUME NEW w \in Worker, WorkerStep(w) \/ WorkerFault(w)
        PROVE  /\ state'[j] = "running" => state[j] = "running"
               /\ inflight'[HashOf[j]] = j => inflight[HashOf[j]] = j
    <2>0. \A out \in Out : Verdict(out) # "running"
      BY DEF Verdict
    <2>1. CASE Settle(w) \/ PoisonFail(w) \/ CallErrs(w)
      <3>1. wout[w] \in Out
        BY DEF WorkerTypeOK
      <3> QED
        BY <1>0, <2>0, <2>1, <3>1 DEF Settle, PoisonFail, CallErrs, SetState
    <2>2. CASE ClearClaim(w) \/ PoisonRelease(w)
      BY <1>0, <2>2 DEF ClearClaim, PoisonRelease, ClearInflight
    <2>3. CASE ~(Settle(w) \/ PoisonFail(w) \/ CallErrs(w) \/ ClearClaim(w) \/ PoisonRelease(w))
      BY <1>3, <2>3 DEF WorkerStep, WorkerFault, Read, Reclaim, NextReclaimed,
         LookupResult, LoadJob, SolveBaseline, LoadEstimate, Solve, CacheResult, Ack,
         DeadLetter, Beat, SkipWrite, MissEstimate, Crash
    <2> QED
      BY <2>1, <2>2, <2>3
  <1>4. ASSUME Time \/ PutLands \/ PutLost \/ (\E i \in Job : Cancel(i))
        PROVE  /\ state'[j] = "running" => state[j] = "running"
               /\ inflight'[HashOf[j]] = j => inflight[HashOf[j]] = j
    BY <1>0, <1>4 DEF Time, GoIdle, StateExpires, RetentionEnds, PayloadExpires,
       CancelExpires, ResultExpires, InflightExpires, PutLands, PutLost, Cancel,
       RequestCancel, SetState, ClearInflight
  <1> QED
    BY <1>1, <1>2, <1>3, <1>4 DEF Next

LEMMA SettledStable ==
  ASSUME TypeOK, Ownership, Next, NEW j \in Added
  PROVE  /\ Settled(j) => Settled(j)'
         /\ Released(j) => Released(j)'
  BY NoRestart, HistoryOnlyGrows DEF Settled, Released

LEMMA RequestedStable ==
  ASSUME Next, NEW j, Requested(j)
  PROVE  Requested(j)'
  BY HistoryOnlyGrows DEF Requested

LEMMA OwnershipApi ==
  ASSUME TypeOK, Ownership, Next, NEW i \in Job, ApiStep(i) \/ ApiFault(i),
         UNCHANGED workerVars
  PROVE  Ownership'
  <1> USE DEF streamVars, Goto, TypeOK, ApiTypeOK
  <1>1. UNCHANGED <<delivered, pel, idle>>
    BY DEF ApiStep, PeekClaim, CheckClaim, ClearStale, Create, LookupDurable,
       ServeDurable, Claim, FindWinner, VerifyWinner, Tidy, StorePayload, Enqueue,
       UndoClaim, FailEnqueue, ApiFault, CallFails, ReplyLost, HandlerDropped
  <1>2. \A j \in Added : api'[j] \in {"accepted", "undo", "fail", "error", "gone"}
    <2> SUFFICES ASSUME NEW j \in Added
                 PROVE  api'[j] \in {"accepted", "undo", "fail", "error", "gone"}
      OBVIOUS
    <2>1. j \in Job /\ api[j] \in {"accepted", "undo", "fail", "error", "gone"}
      BY DEF Ownership, Added
    <2>2. CASE ApiStep(i)
      BY <2>1, <2>2 DEF ApiStep, PeekClaim, CheckClaim, ClearStale, Create,
         LookupDurable, ServeDurable, Claim, FindWinner, VerifyWinner, Tidy,
         StorePayload, Enqueue, UndoClaim, FailEnqueue
    <2>3. CASE ApiFault(i)
      <3>1. i = j /\ InHandler(i) => OnError(i) \in {"undo", "fail", "error"}
        BY <2>1 DEF OnError, InHandler, Ended
      <3> QED
        BY <2>1, <2>3, <3>1 DEF ApiFault, CallFails, ReplyLost, HandlerDropped, InHandler, Ended
    <2> QED
      BY <2>2, <2>3
  <1>3. Pending' = Pending
    BY <1>1 DEF Pending
  <1> QED
    BY <1>1, <1>2, <1>3, AddedOnlyGrows DEF Ownership, workerVars, localVars

LEMMA OwnershipWorker ==
  ASSUME TypeOK, Ownership, Next, NEW w \in Worker, WorkerStep(w) \/ WorkerFault(w),
         UNCHANGED apiVars
  PROVE  Ownership'
  <1> USE DEF TypeOK, StoreTypeOK, WorkerTypeOK, streamVars, At, Step, Leave, End, Abandon
  <1>1. Added' = Added
    BY DEF Added, WorkerStep, WorkerFault, Read, Reclaim, NextReclaimed, LookupResult,
       LoadJob, SolveBaseline, LoadEstimate, Solve, Settle, CacheResult, ClearClaim, Ack,
       PoisonFail, PoisonRelease, DeadLetter, Beat, SkipWrite, MissEstimate, CallErrs, Crash
  <1>2. CASE Read(w)
    <2>1. PICK j \in Undelivered : Deliver({j}) /\ Process(w, j)
      BY <1>2 DEF Read
    <2>2. delivered' = delivered \union {j} /\ idle' \subseteq idle /\ j \in Added
      BY <2>1 DEF Deliver, Undelivered
    <2>3. Pending' \subseteq Pending \union {j}
      BY <2>1 DEF Deliver, Pending
    <2>4. \A v \in Worker : wjob'[v] \in {wjob[v], j} /\ wbatch' = wbatch
      BY <1>2, <2>1 DEF Read, Process
    <2> QED
      BY <1>1, <2>2, <2>3, <2>4 DEF Ownership, apiVars
  <1>3. CASE Reclaim(w)
    <2>1. delivered' = delivered /\ idle' \subseteq idle /\ wjob' = wjob
      BY <1>3 DEF Reclaim
    <2>2. Pending' \subseteq Pending \union idle
      BY <1>3 DEF Reclaim, Pending, Claimable
    <2>3. \A v \in Worker : wbatch'[v] \subseteq wbatch[v] \union idle
      BY <1>3 DEF Reclaim, Claimable
    <2> QED
      BY <1>1, <2>1, <2>2, <2>3 DEF Ownership, apiVars
  <1>4. CASE NextReclaimed(w)
    <2>1. delivered' = delivered /\ idle' \subseteq idle
      BY <1>4 DEF NextReclaimed, Renew
    <2>2. Pending' \subseteq Pending
      BY <1>4 DEF NextReclaimed, Renew, Pending
    <2>3. \A v \in Worker : /\ wbatch'[v] \subseteq wbatch[v]
                            /\ wjob'[v] \in {wjob[v]} \union wbatch[v]
      BY <1>4 DEF NextReclaimed, Process
    <2> QED
      BY <1>1, <2>1, <2>2, <2>3 DEF Ownership, apiVars
  <1>5. CASE Ack(w) \/ Beat(w)
    <2>1. delivered' = delivered /\ idle' \subseteq idle
      BY <1>5 DEF Ack, XAck, Beat, Renew
    <2>2. Pending' \subseteq Pending
      BY <1>5 DEF Ack, XAck, Beat, Renew, Pending
    <2>3. \A v \in Worker : wbatch'[v] = wbatch[v] /\ wjob'[v] \in {wjob[v], NoJob}
      BY <1>5 DEF Ack, Beat, workerVars, localVars
    <2> QED
      BY <1>1, <2>1, <2>2, <2>3 DEF Ownership, apiVars
  <1>6. CASE ~(Read(w) \/ Reclaim(w) \/ NextReclaimed(w) \/ Ack(w) \/ Beat(w))
    <2>1. UNCHANGED <<delivered, idle, pel>>
      BY <1>6 DEF WorkerStep, WorkerFault, LookupResult, LoadJob, SolveBaseline,
         LoadEstimate, Solve, Settle, CacheResult, ClearClaim, PoisonFail, PoisonRelease,
         DeadLetter, SkipWrite, MissEstimate, CallErrs, Crash
    <2>2. \A v \in Worker : wbatch'[v] \in {wbatch[v], {}} /\ wjob'[v] \in {wjob[v], NoJob}
      BY <1>6 DEF WorkerStep, WorkerFault, LookupResult, LoadJob, SolveBaseline,
         LoadEstimate, Solve, Settle, CacheResult, ClearClaim, PoisonFail, PoisonRelease,
         DeadLetter, SkipWrite, MissEstimate, CallErrs, Crash
    <2>3. Pending' = Pending
      BY <2>1 DEF Pending
    <2> QED
      BY <1>1, <2>1, <2>2, <2>3 DEF Ownership, apiVars
  <1> QED
    BY <1>2, <1>3, <1>4, <1>5, <1>6

LEMMA OwnershipOther ==
  ASSUME TypeOK, Ownership, UNCHANGED <<apiVars, workerVars>>,
         Time \/ PutLands \/ PutLost \/ (\E j \in Job : Cancel(j))
  PROVE  Ownership'
  <1> USE DEF streamVars
  <1>1. UNCHANGED <<id, delivered, pel>>
    BY DEF Time, GoIdle, StateExpires, RetentionEnds, PayloadExpires, CancelExpires,
       ResultExpires, InflightExpires, PutLands, PutLost, Cancel, RequestCancel
  <1>2. idle' \subseteq idle \union Pending
    BY DEF Time, GoIdle, StateExpires, RetentionEnds, PayloadExpires, CancelExpires,
       ResultExpires, InflightExpires, PutLands, PutLost, Cancel, RequestCancel
  <1>3. Added' = Added /\ Pending' = Pending
    BY <1>1 DEF Added, Pending
  <1> QED
    BY <1>1, <1>2, <1>3 DEF Ownership, apiVars, workerVars, localVars

LEMMA TimeFrame ==
  ASSUME Time
  PROVE  UNCHANGED <<apiVars, workerVars>>
  BY DEF Time, GoIdle, StateExpires, RetentionEnds, PayloadExpires, CancelExpires,
     ResultExpires, InflightExpires

LEMMA OwnershipNext ==
  ASSUME TypeOK, Ownership, Next
  PROVE  Ownership'
  BY OwnershipApi, OwnershipWorker, OwnershipOther, TimeFrame DEF Next, Cancel

-----------------------------------------------------------------------------
(* Stages.                                                                 *)

LEMMA OtherWorkers ==
  ASSUME WorkerTypeOK, NEW w \in Worker, WorkerStep(w) \/ WorkerFault(w),
         NEW v \in Worker, v # w
  PROVE  wpc'[v] = wpc[v] /\ wjob'[v] = wjob[v] /\ wout'[v] = wout[v]
  <1> USE DEF WorkerTypeOK, Step, End, Leave, Abandon, Process, workerVars, localVars
  <1>1. CASE Read(w) \/ Reclaim(w) \/ NextReclaimed(w)
    BY <1>1 DEF Read, Reclaim, NextReclaimed
  <1>2. CASE LookupResult(w) \/ LoadJob(w) \/ LoadEstimate(w)
    BY <1>2 DEF LookupResult, LoadJob, LoadEstimate
  <1>3. CASE SolveBaseline(w) \/ Solve(w)
    BY <1>3 DEF SolveBaseline, Solve
  <1>4. CASE \/ Settle(w) \/ CacheResult(w) \/ ClearClaim(w) \/ Ack(w) \/ Beat(w)
             \/ PoisonFail(w) \/ PoisonRelease(w) \/ DeadLetter(w)
    BY <1>4 DEF Settle, CacheResult, ClearClaim, Ack, Beat, PoisonFail, PoisonRelease, DeadLetter
  <1>5. CASE WorkerFault(w)
    BY <1>5 DEF WorkerFault, SkipWrite, MissEstimate, CallErrs, Crash
  <1> QED
    BY <1>1, <1>2, <1>3, <1>4, <1>5 DEF WorkerStep

LEMMA StagesOwn ==
  ASSUME TypeOK, Ownership, Stages, Next, NEW w \in Worker, WorkerStep(w) \/ WorkerFault(w)
  PROVE  /\ Finishing(w)' => Settled(wjob[w])'
         /\ Releasing(w)' => Released(wjob[w])'
  <1> USE DEF TypeOK, StoreTypeOK, WorkerTypeOK, Finishing, Releasing, At, Step
  <1>0. ASSUME wjob[w] # NoJob, wjob'[w] = wjob[w]
        PROVE  /\ Settled(wjob[w]) => Settled(wjob[w])'
               /\ Released(wjob[w]) => Released(wjob[w])'
    <2>1. wjob[w] \in Added
      BY <1>0 DEF Ownership
    <2>2. \A j \in Added : /\ Settled(j) => Settled(j)'
                           /\ Released(j) => Released(j)'
      BY SettledStable
    <2> QED
      BY <1>0, <2>1, <2>2 DEF Settled, Released
  <1>1. CASE Settle(w)
    <2>1. wjob'[w] = wjob[w] /\ wjob[w] \in Job
      BY <1>1, JobAssumption DEF Settle
    <2>2. \A out \in Out : Verdict(out) # "running"
      BY DEF Verdict
    <2>3. Settled(wjob[w])'
      BY <1>1, <2>1, <2>2 DEF Settle, SetState, Settled
    <2> QED
      BY <1>1, <2>1, <2>3 DEF Settle, AfterSettling
  <1>2. CASE CacheResult(w) \/ (SkipWrite(w) /\ At(w, "cache"))
    <2>1. wjob'[w] = wjob[w] /\ wjob[w] # NoJob /\ Settled(wjob[w])
      BY <1>2 DEF CacheResult, SkipWrite, Stages, Settled
    <2> QED
      BY <1>0, <1>2, <2>1 DEF CacheResult, SkipWrite, AfterSettling
  <1>3. CASE ClearClaim(w) \/ PoisonRelease(w)
    <2>1. wjob'[w] = wjob[w] /\ wjob[w] # NoJob
      BY <1>3 DEF ClearClaim, PoisonRelease
    <2>2. Released(wjob[w])'
      BY <1>0, <1>3, <2>1, JobAssumption, HashAssumption
      DEF ClearClaim, PoisonRelease, ClearInflight, Released
    <2> QED
      BY <1>0, <1>3, <2>1, <2>2 DEF ClearClaim, PoisonRelease, Stages
  <1>4. CASE SkipWrite(w) /\ ~At(w, "cache")
    <2>1. wjob'[w] = wjob[w] /\ wjob[w] # NoJob
      BY <1>4 DEF SkipWrite
    <2>2. wpc[w] \in {"clear", "release"} => Released(wjob[w])'
      BY <1>4, <2>1 DEF SkipWrite, Released
    <2> QED
      BY <1>0, <1>4, <2>1, <2>2 DEF SkipWrite, Stages
  <1>5. CASE PoisonFail(w)
    BY <1>5 DEF PoisonFail
  <1>6. CASE DeadLetter(w)
    <2>1. wjob'[w] = wjob[w] /\ wjob[w] # NoJob
      BY <1>6 DEF DeadLetter
    <2>2. Settled(wjob[w])'
      BY <1>6, <2>1 DEF DeadLetter, Settled
    <2> QED
      BY <1>0, <1>6, <2>1, <2>2 DEF DeadLetter, Stages
  <1>7. CASE \/ Read(w) \/ Reclaim(w) \/ NextReclaimed(w) \/ LookupResult(w)
             \/ LoadJob(w) \/ LoadEstimate(w) \/ Ack(w)
    BY <1>7 DEF Read, Reclaim, NextReclaimed, LookupResult, LoadJob, LoadEstimate, Ack,
       Process, Leave, End
  <1>8. CASE \/ SolveBaseline(w) \/ Solve(w) \/ MissEstimate(w) \/ CallErrs(w) \/ Crash(w)
    BY <1>8 DEF SolveBaseline, Solve, MissEstimate, CallErrs, Crash, Leave, Abandon, End
  <1>9. CASE Beat(w)
    BY <1>9 DEF Beat, Beating, Solving, workerVars, localVars
  <1> QED
    BY <1>1, <1>2, <1>3, <1>4, <1>5, <1>6, <1>7, <1>8, <1>9 DEF WorkerStep, WorkerFault

LEMMA StagesIdle ==
  ASSUME TypeOK, Ownership, Stages, Next, NEW v \in Worker,
         wpc'[v] = wpc[v], wjob'[v] = wjob[v]
  PROVE  /\ Finishing(v)' => Settled(wjob[v])'
         /\ Releasing(v)' => Released(wjob[v])'
  <1> SUFFICES ASSUME Finishing(v) \/ Releasing(v)
               PROVE  /\ Settled(wjob[v]) => Settled(wjob[v])'
                      /\ Released(wjob[v]) => Released(wjob[v])'
    BY DEF Stages, Finishing, Releasing, Settled, Released
  <1>1. wjob[v] \in Added
    BY DEF TypeOK, WorkerTypeOK, Ownership, Finishing, Releasing
  <1>2. \A j \in Added : /\ Settled(j) => Settled(j)'
                         /\ Released(j) => Released(j)'
    BY SettledStable
  <1> QED
    BY <1>1, <1>2 DEF Settled, Released

LEMMA StagesNext ==
  ASSUME TypeOK, Ownership, Stages, Next
  PROVE  Stages'
  <1>1. ASSUME \A v \in Worker : /\ Finishing(v)' => Settled(wjob[v])'
                                 /\ Releasing(v)' => Released(wjob[v])'
        PROVE  Stages'
    BY <1>1 DEF Stages
  <1>2. ASSUME NEW w \in Worker, WorkerStep(w) \/ WorkerFault(w)
        PROVE  Stages'
    BY <1>1, <1>2, StagesOwn, StagesIdle, OtherWorkers DEF TypeOK
  <1>3. ASSUME UNCHANGED workerVars
        PROVE  Stages'
    BY <1>1, <1>3, StagesIdle DEF workerVars, localVars
  <1> QED
    BY <1>2, <1>3, TimeFrame DEF Next, Cancel

-----------------------------------------------------------------------------
(* Verdicts.                                                               *)

LEMMA SourcedSame ==
  ASSUME Next, NEW v \in Worker, Sourced(v), wjob'[v] = wjob[v], wout'[v] = wout[v],
         wpc'[v] \in {"loop", "next"} => wpc[v] \in {"loop", "next"},
         wpc'[v] = "settle" => wpc[v] = "settle"
  PROVE  Sourced(v)'
  BY HistoryOnlyGrows DEF Sourced, Requested

LEMMA SourcedOwn ==
  ASSUME TypeOK, Verdicts, Next, NEW w \in Worker, WorkerStep(w) \/ WorkerFault(w)
  PROVE  Sourced(w)'
  <1> USE DEF TypeOK, WorkerTypeOK, At, Step
  <1>0. Sourced(w) /\ wpc[w] \in WorkerPc /\ wout[w] \in Out
    BY DEF Verdicts
  <1>1. CASE Read(w) \/ Reclaim(w) \/ NextReclaimed(w)
    BY <1>0, <1>1 DEF Read, Reclaim, NextReclaimed, Process, Sourced
  <1>2. CASE LookupResult(w) \/ LoadJob(w) \/ LoadEstimate(w)
    <2>1. CASE wout' = wout /\ wjob' = wjob /\ wpc'[w] \notin {"loop", "next", "settle"}
      BY <1>0, <2>1, SourcedSame
    <2>2. CASE \/ \E out \in {"republished", "expired", "done"} : End(w, out)
               \/ Leave(w)
      BY <2>2 DEF End, Leave, Sourced
    <2> QED
      BY <1>2, <2>1, <2>2 DEF LookupResult, LoadJob, LoadEstimate
  <1>3. CASE SolveBaseline(w) \/ Solve(w)
    <2>1. CASE wout' = wout /\ wjob' = wjob /\ wpc'[w] = "modified"
      BY <1>0, <2>1, SourcedSame
    <2>2. CASE End(w, "done") \/ End(w, "failed") \/ Leave(w)
      BY <2>2 DEF End, Leave, Sourced
    <2>3. CASE wjob[w] \in cancel /\ End(w, "cancelled")
      <3>1. Requested(wjob[w]) /\ wjob' = wjob
        BY <2>3 DEF Verdicts, End
      <3> QED
        BY <2>3, <3>1, HistoryOnlyGrows DEF End, Sourced, Requested
    <2> QED
      BY <1>3, <2>1, <2>2, <2>3 DEF SolveBaseline, Solve
  <1>4. CASE \/ Settle(w) \/ CacheResult(w) \/ ClearClaim(w) \/ PoisonFail(w)
             \/ PoisonRelease(w) \/ DeadLetter(w) \/ SkipWrite(w) \/ MissEstimate(w)
    <2>1. wout' = wout /\ wjob' = wjob /\ wpc'[w] \notin {"loop", "next", "settle"}
      BY <1>4 DEF Settle, CacheResult, ClearClaim, PoisonFail, PoisonRelease, DeadLetter,
         SkipWrite, MissEstimate, AfterSettling
    <2> QED
      BY <1>0, <2>1, SourcedSame
  <1>5. CASE Ack(w) \/ CallErrs(w) \/ Crash(w)
    BY <1>5 DEF Ack, CallErrs, Crash, Leave, Abandon, Sourced
  <1>6. CASE Beat(w)
    BY <1>0, <1>6, SourcedSame DEF Beat, workerVars, localVars
  <1> QED
    BY <1>1, <1>2, <1>3, <1>4, <1>5, <1>6 DEF WorkerStep, WorkerFault

LEMMA CancelRequested ==
  ASSUME TypeOK, Verdicts, Next
  PROVE  \A j \in cancel' : Requested(j)'
  <1>1. ASSUME cancel' \subseteq cancel
        PROVE  \A j \in cancel' : Requested(j)'
    BY <1>1, RequestedStable DEF Verdicts
  <1>2. ASSUME NEW i \in Job, Cancel(i)
        PROVE  \A j \in cancel' : Requested(j)'
    <2>1. cancel' = cancel \union {i} /\ <<i, state[i]>> \in asked' /\ state[i] \in JobState
      BY <1>2 DEF Cancel, RequestCancel, TypeOK, StoreTypeOK
    <2> QED
      BY <2>1, RequestedStable DEF Verdicts, Requested
  <1>3. ASSUME NEW i \in Job, ApiStep(i) \/ ApiFault(i)
        PROVE  cancel' = cancel
    BY <1>3 DEF keyVars, ApiStep, PeekClaim, CheckClaim, ClearStale, Create, LookupDurable,
       ServeDurable, Claim, FindWinner, VerifyWinner, Tidy, StorePayload, Enqueue,
       UndoClaim, FailEnqueue, ApiFault, CallFails, ReplyLost, HandlerDropped
  <1>4. ASSUME NEW w \in Worker, WorkerStep(w) \/ WorkerFault(w)
        PROVE  cancel' = cancel
    BY <1>4 DEF keyVars, WorkerStep, WorkerFault, Read, Reclaim, NextReclaimed, LookupResult,
       LoadJob, SolveBaseline, LoadEstimate, Solve, Settle, CacheResult, ClearClaim, Ack,
       PoisonFail, PoisonRelease, DeadLetter, Beat, SkipWrite, MissEstimate, CallErrs, Crash
  <1>5. ASSUME Time \/ PutLands \/ PutLost
        PROVE  cancel' \subseteq cancel
    BY <1>5 DEF keyVars, Time, GoIdle, StateExpires, RetentionEnds, PayloadExpires,
       CancelExpires, ResultExpires, InflightExpires, PutLands, PutLost
  <1> QED
    BY <1>1, <1>2, <1>3, <1>4, <1>5 DEF Next

LEMMA VerdictsNext ==
  ASSUME TypeOK, Verdicts, Next
  PROVE  Verdicts'
  <1>1. ASSUME NEW w \in Worker, WorkerStep(w) \/ WorkerFault(w), NEW v \in Worker
        PROVE  Sourced(v)'
    <2>1. CASE v = w
      BY <1>1, <2>1, SourcedOwn
    <2>2. CASE v # w
      BY <1>1, <2>2, OtherWorkers, SourcedSame DEF Verdicts, TypeOK
    <2> QED
      BY <2>1, <2>2
  <1>2. ASSUME UNCHANGED workerVars, NEW v \in Worker
        PROVE  Sourced(v)'
    BY <1>2, SourcedSame DEF Verdicts, workerVars, localVars
  <1>3. \A v \in Worker : Sourced(v)'
    BY <1>1, <1>2, TimeFrame DEF Next, Cancel
  <1> QED
    BY <1>3, CancelRequested DEF Verdicts

-----------------------------------------------------------------------------
(* The safety properties.                                                  *)

\* An entry that leaves the pending list in this step was trimmed, or its
\* worker had come to its XACK.
LEMMA AckedByWorker ==
  ASSUME TypeOK, Ownership, NEW w \in Worker, WorkerStep(w) \/ WorkerFault(w)
  PROVE  \A j \in Acked' \ Acked : j \in trimmed \/ (At(w, "ack") /\ j = wjob[w])
  <1> USE DEF TypeOK, StoreTypeOK, Acked, Pending
  <1>1. CASE Read(w)
    <2>1. PICK i \in Undelivered : Deliver({i})
      BY <1>1 DEF Read
    <2> QED
      BY <2>1 DEF Deliver, Undelivered, Added
  <1>2. CASE Reclaim(w)
    <2>1. delivered' = delivered
      BY <1>2 DEF Reclaim
    <2>2. \A j \in Job : pel[j] > 0 /\ ~(pel'[j] > 0) => j \in trimmed
      BY <1>2 DEF Reclaim
    <2> QED
      BY <2>1, <2>2
  <1>3. CASE NextReclaimed(w) \/ Beat(w)
    <2>1. delivered' = delivered
      BY <1>3 DEF NextReclaimed, Beat
    <2>2. \A j \in Job : pel[j] > 0 /\ ~(pel'[j] > 0) => j \in trimmed
      BY <1>3 DEF NextReclaimed, Beat, Renew
    <2> QED
      BY <2>1, <2>2
  <1>4. CASE Ack(w)
    BY <1>4 DEF Ack, XAck
  <1>5. CASE ~(Read(w) \/ Reclaim(w) \/ NextReclaimed(w) \/ Beat(w) \/ Ack(w))
    <2>1. UNCHANGED <<delivered, pel>>
      BY <1>5 DEF streamVars, WorkerStep, WorkerFault, LookupResult, LoadJob, SolveBaseline,
         LoadEstimate, Solve, Settle, CacheResult, ClearClaim, PoisonFail, PoisonRelease,
         DeadLetter, SkipWrite, MissEstimate, CallErrs, Crash
    <2> QED
      BY <2>1
  <1> QED
    BY <1>1, <1>2, <1>3, <1>4, <1>5

LEMMA AckedByOthers ==
  ASSUME TypeOK, Time \/ PutLands \/ PutLost
                 \/ (\E j \in Job : Cancel(j) \/ ApiStep(j) \/ ApiFault(j))
  PROVE  Acked' = Acked
  <1>1. CASE Time \/ PutLands \/ PutLost \/ (\E j \in Job : Cancel(j))
    <2>1. UNCHANGED <<delivered, pel>>
      BY <1>1 DEF streamVars, Time, GoIdle, StateExpires, RetentionEnds, PayloadExpires,
         CancelExpires, ResultExpires, InflightExpires, PutLands, PutLost, Cancel, RequestCancel
    <2> QED
      BY <2>1 DEF Acked, Pending
  <1>2. CASE \E j \in Job : ApiStep(j) \/ ApiFault(j)
    <2>1. UNCHANGED <<delivered, pel>>
      BY <1>2 DEF streamVars, ApiStep, PeekClaim, CheckClaim, ClearStale, Create,
         LookupDurable, ServeDurable, Claim, FindWinner, VerifyWinner, Tidy, StorePayload,
         Enqueue, UndoClaim, FailEnqueue, ApiFault, CallFails, ReplyLost, HandlerDropped
    <2> QED
      BY <2>1 DEF Acked, Pending
  <1> QED
    BY <1>1, <1>2

LEMMA AckedNext ==
  ASSUME TypeOK, Ownership, Stages, Next, NEW j \in Acked'
  PROVE  \/ j \in Acked
         \/ j \in trimmed
         \/ Settled(j)' /\ (j \in Linkest => Released(j)')
  <1>1. CASE \E w \in Worker : WorkerStep(w) \/ WorkerFault(w)
    <2>1. PICK w \in Worker : WorkerStep(w) \/ WorkerFault(w)
      BY <1>1
    <2>2. j \in Acked \/ j \in trimmed \/ (At(w, "ack") /\ j = wjob[w])
      BY <2>1, AckedByWorker
    <2>3. CASE At(w, "ack") /\ j = wjob[w]
      <3>1. j \in Added /\ Settled(j) /\ (j \in Linkest => Released(j))
        BY <2>3 DEF TypeOK, WorkerTypeOK, Ownership, Stages, Finishing, Releasing, At
      <3> QED
        BY <3>1, SettledStable
    <2> QED
      BY <2>2, <2>3
  <1>2. CASE ~ \E w \in Worker : WorkerStep(w) \/ WorkerFault(w)
    BY <1>2, AckedByOthers DEF Next
  <1> QED
    BY <1>1, <1>2

LEMMA SettledNext ==
  ASSUME TypeOK, Ownership, Stages, SettledWhenAcked, ClaimReleased, Next
  PROVE  SettledWhenAcked' /\ ClaimReleased'
  <1>1. ASSUME NEW j \in Acked'
        PROVE  Settled(j)' /\ (j \in Linkest => Released(j)')
    <2>1. CASE j \in Acked
      <3>1. j \in Added /\ Settled(j) /\ (j \in Linkest => Released(j))
        BY <2>1 DEF Ownership, Acked, SettledWhenAcked, ClaimReleased, Settled, Released
      <3> QED
        BY <3>1, SettledStable
    <2>2. CASE j \in trimmed
      BY <2>2, HistoryOnlyGrows DEF Settled, Released
    <2> QED
      BY <1>1, <2>1, <2>2, AckedNext
  <1> QED
    BY <1>1 DEF SettledWhenAcked, ClaimReleased, Settled, Released

LEMMA CancelledNext ==
  ASSUME TypeOK, Verdicts, CancelledOnlyOnRequest, Next
  PROVE  CancelledOnlyOnRequest'
  <1> USE DEF TypeOK, StoreTypeOK
  <1>0. ASSUME \A j \in Job : state'[j] = "cancelled" => state[j] = "cancelled" \/ Requested(j)
        PROVE  CancelledOnlyOnRequest'
    BY <1>0, HistoryOnlyGrows DEF CancelledOnlyOnRequest, Requested
  <1>1. ASSUME NEW i \in Job, ApiStep(i) \/ ApiFault(i)
        PROVE  \A j \in Job : state'[j] = "cancelled" => state[j] = "cancelled"
    BY <1>1 DEF keyVars, SetState, ApiStep, PeekClaim, CheckClaim, ClearStale, Create,
       LookupDurable, ServeDurable, Claim, FindWinner, VerifyWinner, Tidy, StorePayload,
       Enqueue, UndoClaim, FailEnqueue, ApiFault, CallFails, ReplyLost, HandlerDropped
  <1>2. ASSUME NEW w \in Worker, WorkerStep(w) \/ WorkerFault(w)
        PROVE  \A j \in Job : state'[j] = "cancelled" => state[j] = "cancelled" \/ Requested(j)
    <2>1. CASE Settle(w) \/ CallErrs(w)
      <3>1. wpc[w] = "settle" /\ Verdict(wout[w]) = "cancelled" => Requested(wjob[w])
        BY DEF WorkerTypeOK, Out, Verdict, Verdicts, Sourced
      <3> QED
        BY <2>1, <3>1 DEF Settle, CallErrs, SetState, At
    <2>2. CASE ~(Settle(w) \/ CallErrs(w))
      BY <1>2, <2>2 DEF keyVars, SetState, WorkerStep, WorkerFault, Read, Reclaim,
         NextReclaimed, LookupResult, LoadJob, SolveBaseline, LoadEstimate, Solve,
         CacheResult, ClearClaim, Ack, PoisonFail, PoisonRelease, DeadLetter, Beat,
         SkipWrite, MissEstimate, Crash
    <2> QED
      BY <2>1, <2>2
  <1>3. ASSUME Time \/ PutLands \/ PutLost \/ (\E j \in Job : Cancel(j))
        PROVE  \A j \in Job : state'[j] = "cancelled" => state[j] = "cancelled"
    BY <1>3 DEF keyVars, SetState, Time, GoIdle, StateExpires, RetentionEnds,
       PayloadExpires, CancelExpires, ResultExpires, InflightExpires, PutLands, PutLost,
       Cancel, RequestCancel
  <1> QED
    BY <1>0, <1>1, <1>2, <1>3 DEF Next

LEMMA IInvNext == IInv /\ [Next]_vars => IInv'
  <1> SUFFICES ASSUME IInv, [Next]_vars  PROVE IInv'
    OBVIOUS
  <1>1. TypeOK'
    BY NextType DEF IInv
  <1>2. CASE Next
    BY <1>1, <1>2, OwnershipNext, StagesNext, VerdictsNext, SettledNext, CancelledNext DEF IInv
  <1>3. CASE UNCHANGED vars
    BY <1>1, <1>3
    DEF vars, keyVars, streamVars, s3Vars, apiVars, workerVars, localVars, historyVars, IInv,
        Ownership, Added, Pending, Stages, Finishing, Releasing, Settled, Released, Verdicts,
        Sourced, Requested, SettledWhenAcked, ClaimReleased, CancelledOnlyOnRequest, Acked
  <1> QED
    BY <1>2, <1>3

LEMMA Invariance == Spec => []IInv
  BY InitIInv, IInvNext, PTL DEF Spec

\* An entry is acknowledged only once its job no longer reads as running,
\* through any number of crashes, lapses, failed calls and expiries: what
\* process_entry and reclaim write before each XACK is never undone.
THEOREM SettledBeforeAck == Spec => []SettledWhenAcked
  BY Invariance, PTL DEF IInv

\* No acknowledged job is left holding the in-flight claim of its hash, but
\* by a failed DEL: clear_inflight precedes every XACK of a link estimate.
THEOREM ReleasedBeforeAck == Spec => []ClaimReleased
  BY Invariance, PTL DEF IInv

\* A job reads as cancelled only if a DELETE reached it: no crash, redelivery
\* or failure makes up a cancellation.
THEOREM CancelledByRequest == Spec => []CancelledOnlyOnRequest
  BY Invariance, PTL DEF IInv

-----------------------------------------------------------------------------
(* How often an entry is taken up, and by whom.                            *)
(*                                                                         *)
(* Counted.  An entry is taken up once per delivery at most, and a sweep   *)
(* may hold it for a while between the two: the delivery count of a        *)
(* pending entry covers what was taken up and what still waits.  The guard *)
(* of the sweep then reads a count that is already too high for one        *)
(* attempt more.                                                           *)
(*                                                                         *)
(* Final.  An entry delivered once is in the hands of one worker (First);  *)
(* where its job has a verdict, that worker is past the write, and so is   *)
(* the submission (Written).                                               *)
(*                                                                         *)
(* Alone.  While no worker dies or panics, no call fails and no heartbeat  *)
(* lapses (Calm), an entry that can be processed is in the hands of one    *)
(* worker.                                                                 *)
(*                                                                         *)
(* Deduped.  If nothing expires either and every solve succeeds (Quiet), a *)
(* link estimate between its submission and its solve holds the claim of   *)
(* its hash or has a result to find; the claim names one job, one worker   *)
(* has that, and who still looks for a result finds none only while it     *)
(* holds the claim itself.                                                 *)

\* The sweeps that hold an entry they have not come to.
Waiting(j) == {w \in Worker : j \in wbatch[w]}

Covered(j) ==
    /\ attempts[j] + Cardinality(Waiting(j)) <= pel[j]
    /\ attempts[j] <= Cap(j)

Counted ==
    /\ idle \subseteq Pending
    /\ \A j \in Job : /\ IsFiniteSet(Waiting(j))
                      /\ attempts[j] > 0 => j \in delivered
                      /\ pel[j] > 0 => Covered(j)

LEMMA CapPositive ==
  ASSUME NEW j \in Job
  PROVE  Cap(j) \in Nat /\ Cap(j) >= 1
  BY DeliveriesAssumption DEF Cap

LEMMA InitCounted == Init => Counted
  <1> SUFFICES ASSUME Init  PROVE Counted
    OBVIOUS
  <1>1. \A j \in Job : Waiting(j) = {} /\ attempts[j] = 0 /\ pel[j] = 0
    BY DEF Init, WorkerInit, StoreInit, Waiting
  <1> QED
    BY <1>1, FS_EmptySet DEF Init, StoreInit, Counted

\* Steps that deliver nothing and take up nothing.
LEMMA KeepsCounted ==
  ASSUME TypeOK, Counted, attempts' = attempts, delivered \subseteq delivered',
         \A w \in Worker : wbatch'[w] \subseteq wbatch[w],
         \A j \in Job : pel'[j] \in {pel[j], 0},
         idle' \subseteq Pending'
  PROVE  Counted'
  <1> SUFFICES ASSUME NEW j \in Job
               PROVE  /\ IsFiniteSet(Waiting(j))'
                      /\ attempts'[j] > 0 => j \in delivered'
                      /\ pel'[j] > 0 => Covered(j)'
    BY DEF Counted
  <1>1. Waiting(j)' \in SUBSET Waiting(j) /\ IsFiniteSet(Waiting(j))
    BY DEF Waiting, Counted
  <1>2. /\ IsFiniteSet(Waiting(j)') /\ Cardinality(Waiting(j)') <= Cardinality(Waiting(j))
        /\ Cardinality(Waiting(j)) \in Nat /\ Cardinality(Waiting(j)') \in Nat
    BY <1>1, FS_Subset, FS_CardinalityType
  <1>3. attempts[j] \in Nat /\ pel[j] \in Nat
    BY DEF TypeOK, StoreTypeOK, WorkerTypeOK
  <1> QED
    BY <1>1, <1>2, <1>3 DEF Counted, Covered, Cap

-----------------------------------------------------------------------------
(* The three steps that count.                                             *)

LEMMA ReadCounted ==
  ASSUME TypeOK, Ownership, Counted, NEW w \in Worker, Read(w)
  PROVE  Counted'
  <1>1. PICK j \in Undelivered : Deliver({j}) /\ Process(w, j)
    BY DEF Read
  <1>2. j \in Job /\ j \notin delivered
    BY <1>1 DEF Undelivered, Added
  <1>3. /\ delivered' = delivered \union {j} /\ idle' = idle \ {j} /\ wbatch' = wbatch
        /\ pel' = [pel EXCEPT ![j] = @ + 1] /\ attempts' = [attempts EXCEPT ![j] = @ + 1]
    BY <1>1, <1>2 DEF Read, Deliver, Process, TypeOK, StoreTypeOK
  <1>4. pel[j] = 0 /\ attempts[j] = 0
    BY <1>2 DEF Ownership, Pending, Counted, TypeOK, StoreTypeOK, WorkerTypeOK
  <1>5. Waiting(j) = {} /\ \A i \in Job : Waiting(i)' = Waiting(i)
    BY <1>2, <1>3 DEF Ownership, Waiting
  <1>6. idle' \subseteq Pending'
    BY <1>2, <1>3 DEF Counted, Pending, TypeOK, StoreTypeOK
  <1>7. Covered(j)'
    <2>1. attempts'[j] = 1 /\ pel'[j] = 1
      BY <1>2, <1>3, <1>4 DEF TypeOK, StoreTypeOK, WorkerTypeOK
    <2>2. Cardinality(Waiting(j)') = 0
      BY <1>2, <1>5, FS_EmptySet
    <2> QED
      BY <1>2, <2>1, <2>2, CapPositive DEF Covered, Cap
  <1>8. ASSUME NEW i \in Job
        PROVE  /\ IsFiniteSet(Waiting(i))'
               /\ attempts'[i] > 0 => i \in delivered'
               /\ pel'[i] > 0 => Covered(i)'
    <2>1. CASE i = j
      BY <1>3, <1>5, <1>7, <2>1 DEF Counted
    <2>2. CASE i # j
      BY <1>2, <1>3, <1>5, <2>2 DEF Counted, Covered, Cap, TypeOK, StoreTypeOK, WorkerTypeOK
    <2> QED
      BY <2>1, <2>2
  <1> QED
    BY <1>6, <1>8 DEF Counted

LEMMA ReclaimCounted ==
  ASSUME TypeOK, Counted, NEW w \in Worker, Reclaim(w)
  PROVE  Counted'
  <1> DEFINE lost == Claimable \intersect trimmed
             got  == Claimable \ trimmed
  <1>1. /\ pel' = [j \in Job |-> IF j \in got THEN pel[j] + 1
                                 ELSE IF j \in lost THEN 0 ELSE pel[j]]
        /\ idle' = idle \ Claimable /\ wbatch' = [wbatch EXCEPT ![w] = got]
        /\ attempts' = attempts /\ delivered' = delivered
    BY DEF Reclaim, historyVars
  <1>2. Claimable \subseteq Pending
    BY DEF Claimable, Counted
  <1>3. idle' \subseteq Pending'
    BY <1>1, <1>2 DEF Counted, Pending, TypeOK, StoreTypeOK
  <1>4. ASSUME NEW j \in Job
        PROVE  /\ IsFiniteSet(Waiting(j))'
               /\ attempts'[j] > 0 => j \in delivered'
               /\ pel'[j] > 0 => Covered(j)'
    <2>1. /\ IsFiniteSet(Waiting(j)) /\ attempts[j] \in Nat /\ pel[j] \in Nat
          /\ Cardinality(Waiting(j)) \in Nat
      BY FS_CardinalityType DEF Counted, TypeOK, StoreTypeOK, WorkerTypeOK
    <2>2. CASE j \in got
      <3>1. Waiting(j)' = Waiting(j) \union {w}
        BY <1>1, <2>2 DEF Waiting, TypeOK, WorkerTypeOK
      <3>2. /\ IsFiniteSet(Waiting(j)') /\ Cardinality(Waiting(j)') \in Nat
            /\ Cardinality(Waiting(j)') <= Cardinality(Waiting(j)) + 1
        <4>1. /\ IsFiniteSet(Waiting(j) \union {w})
              /\ Cardinality(Waiting(j) \union {w}) =
                    IF w \in Waiting(j) THEN Cardinality(Waiting(j))
                    ELSE Cardinality(Waiting(j)) + 1
          BY <2>1, FS_AddElement
        <4> QED
          BY <2>1, <3>1, <4>1
      <3>3. pel'[j] = pel[j] + 1 /\ pel[j] > 0
        BY <1>1, <1>2, <2>2 DEF Pending
      <3> QED
        BY <1>1, <2>1, <3>2, <3>3 DEF Counted, Covered, Cap
    <2>3. CASE j \notin got
      <3>1. Waiting(j)' \in SUBSET Waiting(j)
        BY <1>1, <2>3 DEF Waiting, TypeOK, WorkerTypeOK
      <3>2. /\ IsFiniteSet(Waiting(j)') /\ Cardinality(Waiting(j)') \in Nat
            /\ Cardinality(Waiting(j)') <= Cardinality(Waiting(j))
        BY <2>1, <3>1, FS_Subset, FS_CardinalityType
      <3>3. pel'[j] \in {pel[j], 0}
        BY <1>1, <2>3
      <3> QED
        BY <1>1, <2>1, <3>2, <3>3 DEF Counted, Covered, Cap
    <2> QED
      BY <2>2, <2>3
  <1> QED
    BY <1>3, <1>4 DEF Counted

\* The guard: what is taken up has a delivery count within the cap.
LEMMA NextCounted ==
  ASSUME TypeOK, Ownership, Counted, NEW w \in Worker, NextReclaimed(w)
  PROVE  Counted'
  <1>1. PICK j \in wbatch[w] :
          /\ wbatch' = [wbatch EXCEPT ![w] = @ \ {j}]
          /\ \/ UNCHANGED <<attempts, pel, idle>>
             \/ ~(pel[j] > Cap(j)) /\ Process(w, j) /\ Renew(j)
    BY DEF NextReclaimed
  <1>2. j \in Job /\ j \in delivered /\ delivered' = delivered
    BY <1>1 DEF NextReclaimed, Ownership, TypeOK, StoreTypeOK, WorkerTypeOK
  <1>3. CASE UNCHANGED <<attempts, pel, idle>>
    <2>1. \A v \in Worker : wbatch'[v] \subseteq wbatch[v]
      BY <1>1 DEF TypeOK, WorkerTypeOK
    <2>2. idle' \subseteq Pending'
      BY <1>3 DEF Counted, Pending
    <2> QED
      BY <1>2, <1>3, <2>1, <2>2, KeepsCounted
  <1>4. CASE ~(pel[j] > Cap(j)) /\ Process(w, j) /\ Renew(j)
    <2>1. /\ attempts' = [attempts EXCEPT ![j] = @ + 1] /\ idle' = idle \ {j}
          /\ pel' = pel \/ pel' = [pel EXCEPT ![j] = 0]
      BY <1>4 DEF Process, Renew
    <2>2. idle' \subseteq Pending'
      BY <1>2, <2>1 DEF Counted, Pending, TypeOK, StoreTypeOK
    <2>3. ASSUME NEW i \in Job
          PROVE  /\ IsFiniteSet(Waiting(i))'
                 /\ attempts'[i] > 0 => i \in delivered'
                 /\ pel'[i] > 0 => Covered(i)'
      <3>1. /\ IsFiniteSet(Waiting(i)) /\ attempts[i] \in Nat /\ pel[i] \in Nat
            /\ Cardinality(Waiting(i)) \in Nat
        BY FS_CardinalityType DEF Counted, TypeOK, StoreTypeOK, WorkerTypeOK
      <3>2. CASE i = j
        <4>1. Waiting(j)' = Waiting(j) \ {w} /\ w \in Waiting(j)
          BY <1>1 DEF Waiting, TypeOK, WorkerTypeOK
        <4>2. /\ IsFiniteSet(Waiting(j)')
              /\ Cardinality(Waiting(j)') = Cardinality(Waiting(j)) - 1
          BY <3>1, <3>2, <4>1, FS_RemoveElement
        <4>3. attempts'[j] = attempts[j] + 1 /\ pel'[j] \in {pel[j], 0}
          BY <1>2, <2>1 DEF TypeOK, StoreTypeOK, WorkerTypeOK
        <4>4. Cardinality(Waiting(j)) - 1 \in Nat
          BY <3>1, <3>2, <4>2, FS_CardinalityType
        <4> HIDE DEF Waiting
        <4>5. pel'[j] > 0 => Covered(j)'
          BY <1>2, <1>4, <3>1, <3>2, <4>2, <4>3, <4>4, CapPositive DEF Counted, Covered, Cap
        <4> QED
          BY <1>2, <3>2, <4>2, <4>5
      <3>3. CASE i # j
        <4>1. Waiting(i)' = Waiting(i)
          BY <1>1, <3>3 DEF Waiting, TypeOK, WorkerTypeOK
        <4>2. attempts'[i] = attempts[i] /\ pel'[i] = pel[i]
          BY <1>2, <2>1, <3>3 DEF TypeOK, StoreTypeOK, WorkerTypeOK
        <4> QED
          BY <1>2, <3>1, <4>1, <4>2 DEF Counted, Covered, Cap
      <3> QED
        BY <3>2, <3>3
    <2> QED
      BY <2>2, <2>3 DEF Counted
  <1> QED
    BY <1>1, <1>3, <1>4

-----------------------------------------------------------------------------
(* Every other step.                                                       *)

LEMMA OtherWorkerCounted ==
  ASSUME TypeOK, Counted, NEW w \in Worker, WorkerStep(w) \/ WorkerFault(w),
         ~Read(w), ~Reclaim(w), ~NextReclaimed(w)
  PROVE  Counted'
  <1> USE DEF TypeOK, StoreTypeOK, WorkerTypeOK, streamVars, historyVars, workerVars,
          localVars, Leave, End, Abandon, XAck, Renew
  <1>1. attempts' = attempts /\ delivered' = delivered
    BY DEF WorkerStep, WorkerFault, LookupResult, LoadJob, SolveBaseline, LoadEstimate,
       Solve, Settle, CacheResult, ClearClaim, Ack, PoisonFail, PoisonRelease, DeadLetter,
       Beat, SkipWrite, MissEstimate, CallErrs, Crash
  <1>2. \A v \in Worker : wbatch'[v] \subseteq wbatch[v]
    BY DEF WorkerStep, WorkerFault, LookupResult, LoadJob, SolveBaseline, LoadEstimate,
       Solve, Settle, CacheResult, ClearClaim, Ack, PoisonFail, PoisonRelease, DeadLetter,
       Beat, SkipWrite, MissEstimate, CallErrs, Crash
  <1>3. \/ pel' = pel /\ idle' = idle
        \/ \E j \in Job : pel' \in {pel, [pel EXCEPT ![j] = 0]} /\ idle' = idle \ {j}
    BY DEF WorkerStep, WorkerFault, LookupResult, LoadJob, SolveBaseline, LoadEstimate,
       Solve, Settle, CacheResult, ClearClaim, Ack, PoisonFail, PoisonRelease, DeadLetter,
       Beat, SkipWrite, MissEstimate, CallErrs, Crash, At, Beating, Solving
  <1>4. (\A j \in Job : pel'[j] \in {pel[j], 0}) /\ idle' \subseteq Pending'
    BY <1>3 DEF Counted, Pending
  <1> QED
    BY <1>1, <1>2, <1>4, KeepsCounted

LEMMA OtherCounted ==
  ASSUME TypeOK, Counted, UNCHANGED workerVars,
         \/ Time \/ PutLands \/ PutLost
         \/ \E j \in Job : ApiStep(j) \/ ApiFault(j) \/ Cancel(j)
  PROVE  Counted'
  <1>1. UNCHANGED <<attempts, wbatch, delivered, pel>>
    BY DEF workerVars, localVars, historyVars, streamVars, Time, GoIdle, StateExpires,
       RetentionEnds, PayloadExpires, CancelExpires, ResultExpires, InflightExpires, PutLands,
       PutLost, Cancel, RequestCancel, ApiStep, PeekClaim, CheckClaim, ClearStale, Create,
       LookupDurable, ServeDurable, Claim, FindWinner, VerifyWinner, Tidy, StorePayload,
       Enqueue, UndoClaim, FailEnqueue, ApiFault, CallFails, ReplyLost, HandlerDropped
  <1>2. idle' \subseteq idle \union Pending
    BY DEF streamVars, Time, GoIdle, StateExpires,
       RetentionEnds, PayloadExpires, CancelExpires, ResultExpires, InflightExpires, PutLands,
       PutLost, Cancel, RequestCancel, ApiStep, PeekClaim, CheckClaim, ClearStale, Create,
       LookupDurable, ServeDurable, Claim, FindWinner, VerifyWinner, Tidy, StorePayload,
       Enqueue, UndoClaim, FailEnqueue, ApiFault, CallFails, ReplyLost, HandlerDropped
  <1>3. idle' \subseteq Pending'
    BY <1>1, <1>2 DEF Counted, Pending
  <1> QED
    BY <1>1, <1>3, KeepsCounted

LEMMA NextKeepsCounted == IInv /\ Counted /\ [Next]_vars => Counted'
  <1> SUFFICES ASSUME IInv, Counted, [Next]_vars  PROVE Counted'
    OBVIOUS
  <1>1. CASE Next
    <2>1. ASSUME NEW w \in Worker, WorkerStep(w) \/ WorkerFault(w)  PROVE Counted'
      BY <2>1, ReadCounted, ReclaimCounted, NextCounted, OtherWorkerCounted DEF IInv
    <2>2. CASE \/ Time \/ PutLands \/ PutLost
               \/ \E j \in Job : ApiStep(j) \/ ApiFault(j) \/ Cancel(j)
      <3>1. UNCHANGED workerVars \/ \E w \in Worker : WorkerStep(w) \/ WorkerFault(w)
        BY <1>1, TimeFrame DEF Next, Cancel
      <3> QED
        BY <2>1, <2>2, <3>1, OtherCounted DEF IInv
    <2> QED
      BY <1>1, <2>1, <2>2 DEF Next
  <1>2. CASE UNCHANGED vars
    <2>1. UNCHANGED <<attempts, wbatch, delivered, pel, idle>>
      BY <1>2 DEF vars, workerVars, localVars, historyVars, streamVars
    <2>2. idle' \subseteq Pending'
      BY <2>1 DEF Counted, Pending
    <2> QED
      BY <2>1, <2>2, KeepsCounted DEF IInv
  <1> QED
    BY <1>1, <1>2

\* An entry that may still be redelivered was taken up at most MAX_DELIVERIES
\* times (once for a link estimate), whatever crashes, panics, lapses and sweeps
\* of other workers it went through.
THEOREM AttemptsCorrect == Spec => []AttemptsBounded
  <1>1. IInv /\ Counted => AttemptsBounded
    BY DEF Counted, Covered, AttemptsBounded, Pending
  <1> QED
    BY <1>1, InitCounted, NextKeepsCounted, Invariance, PTL DEF Spec

-----------------------------------------------------------------------------
(* A verdict stays.                                                        *)

Late(w) == wpc[w] \in {"cache", "clear", "ack", "release", "bury"}

\* An entry delivered once is in one hand at most, and no sweep has it.
First(j) ==
    pel[j] = 1 =>
        /\ \A w \in Worker : j \notin wbatch[w] /\ (wjob[w] = j => wpc[w] # "poison")
        /\ \A v, w \in Worker : wjob[v] = j /\ wjob[w] = j => v = w

\* Nobody is left who would write the state of job j after its first delivery:
\* its submission is over or undoes an enqueue, and who has the entry is past the
\* write.
Written(j) ==
    \/ api[j] = "error"
    \/ /\ api[j] \in Ended \union {"undo", "fail"}
       /\ j \in Added => j \in delivered
       /\ pel[j] = 1 => \A w \in Worker : wjob[w] = j => Late(w)

Final == \A j \in Job : First(j) /\ (state[j] \in Terminal => Written(j))

Stands(j) ==
    state[j] \in Terminal /\ state'[j] \notin {state[j], "none"}
        => DeliveredAgain(j) \/ api[j] \in {"fail", "error"}

Kept(j) == First(j)' /\ (state'[j] \in Terminal => Written(j)') /\ Stands(j)

\* A step that writes no state and delivers nothing.
LEMMA FinalOnward ==
  ASSUME Final, NEW j \in Job,
         state'[j] \in {state[j], "none"}, j \in Added' => j \in Added, delivered \subseteq delivered',
         pel'[j] \in {pel[j], 0},
         api[j] \in Ended \union {"undo", "fail"} =>
            \/ api'[j] = api[j]
            \/ api[j] \in {"undo", "fail"} /\ api'[j] \in Ended \union {"undo", "fail"},
         \A v \in Worker : /\ wbatch'[v] \subseteq wbatch[v] /\ wjob'[v] \in {wjob[v], NoJob}
                           /\ wjob'[v] = j => /\ Late(v) => Late(v)'
                                              /\ wpc'[v] \in {wpc[v]} \union (WorkerPc \ {"poison"})
  PROVE  Kept(j)
  <1> USE JobAssumption
  <1>1. First(j)'
    BY DEF Final, First
  <1>2. "none" \notin Terminal
    BY DEF Terminal
  <1>3. ASSUME state'[j] \in Terminal  PROVE Written(j)'
    <2>1. Written(j)
      BY <1>2, <1>3 DEF Final
    <2> QED
      BY <2>1 DEF Written, Ended
  <1> QED
    BY <1>1, <1>3 DEF Kept, Stands

LEMMA FinalApi ==
  ASSUME IInv, Final, Next, NEW i \in Job, ApiStep(i) \/ ApiFault(i), UNCHANGED workerVars, NEW j \in Job
  PROVE  Kept(j)
  <1> USE DEF IInv, TypeOK, StoreTypeOK, ApiTypeOK
  <1>1. /\ UNCHANGED <<delivered, pel, wpc, wjob, wbatch>>
        /\ \A v \in Worker : Late(v)' = Late(v)
    BY DEF Late, workerVars, localVars, streamVars, ApiStep, PeekClaim, CheckClaim, ClearStale, Create,
       LookupDurable, ServeDurable, Claim, FindWinner, VerifyWinner, Tidy, StorePayload, Enqueue, UndoClaim,
       FailEnqueue, ApiFault, CallFails, ReplyLost, HandlerDropped
  <1>2. First(j)'
    BY <1>1 DEF Final, First
  <1>3. CASE j # i
    <2>1. state'[j] = state[j] /\ api'[j] = api[j]
      BY <1>3 DEF Goto, SetState, keyVars, ApiStep, PeekClaim, CheckClaim, ClearStale, Create,
         LookupDurable, ServeDurable, Claim, FindWinner, VerifyWinner, Tidy, StorePayload, Enqueue, UndoClaim,
         FailEnqueue, ApiFault, CallFails, ReplyLost, HandlerDropped
    <2>2. j \in Added' => j \in Added \/ api[j] = "add"
      BY AddedOnlyGrows
    <2>3. Written(j) => Written(j)'
      BY <1>1, <2>1, <2>2 DEF Written, Ended
    <2> QED
      BY <1>2, <2>1, <2>3 DEF Kept, Stands, Final
  <1>4. CASE j = i
    <2>1. CASE FailEnqueue(j)
      <3>1. api[j] = "fail" /\ api'[j] = "error"
        BY <2>1 DEF FailEnqueue, Goto
      <3> QED
        BY <1>2, <3>1 DEF Kept, Stands, Written
    <2>2. CASE ServeDurable(j) \/ Tidy(j)
      <3>1. /\ api[j] \in {"serve", "tidy"} /\ api'[j] \in Ended
            /\ id' = id
        BY <2>2 DEF ServeDurable, Tidy, Goto, Ended, streamVars
      <3>2. j \notin Added /\ j \notin Added'
        BY <3>1 DEF Ownership, Added
      <3>3. pel'[j] # 1
        BY <1>1, <3>2 DEF Ownership, Pending
      <3>4. Written(j)'
        BY <3>1, <3>2, <3>3 DEF Written
      <3>5. state[j] \notin Terminal
        BY <3>1 DEF Final, Written, Ended
      <3> QED
        BY <1>2, <3>4, <3>5 DEF Kept, Stands
    <2>3. CASE Create(j)
      <3>1. api[j] \in {"create", "new"} /\ state'[j] = "running"
        BY <2>3 DEF Create, SetState
      <3> QED
        BY <1>2, <3>1 DEF Kept, Stands, Final, Written, Ended, Terminal
    <2>4. CASE ~(FailEnqueue(j) \/ ServeDurable(j) \/ Tidy(j) \/ Create(j))
      <3>1. state' = state
        BY <1>4, <2>4 DEF keyVars, ApiStep, PeekClaim, CheckClaim, ClearStale, LookupDurable,
           Claim, FindWinner, VerifyWinner, StorePayload, Enqueue, UndoClaim,
           ApiFault, CallFails, ReplyLost, HandlerDropped
      <3>2. Written(j) =>
              \/ api[j] \in {"undo", "fail"} /\ api'[j] \in {"fail", "error", "gone"} /\ id' = id
        BY <1>4, <2>4 DEF Written, Ended, Goto, OnError, InHandler, streamVars, ApiStep, PeekClaim, CheckClaim,
           ClearStale, LookupDurable, Claim, FindWinner, VerifyWinner, StorePayload, Enqueue, UndoClaim,
           ApiFault, CallFails, ReplyLost, HandlerDropped
      <3>3. Written(j) => Written(j)'
        BY <1>1, <3>2 DEF Written, Ended, Added
      <3> QED
        BY <1>2, <3>1, <3>3 DEF Kept, Stands, Final
    <2> QED
      BY <2>1, <2>2, <2>3, <2>4
  <1> QED
    BY <1>3, <1>4

\* A worker writes the state of the job in its hand.
LEMMA FinalWrites ==
  ASSUME IInv, Final, NEW w \in Worker, NEW j \in Job, wjob[w] = j, ~Late(w),
         UNCHANGED <<apiVars, id, delivered, pel>>,
         \A v \in Worker \ {w} : wjob'[v] = wjob[v] /\ wbatch'[v] = wbatch[v] /\ wpc'[v] = wpc[v],
         wbatch'[w] \subseteq wbatch[w],
         wjob'[w] = NoJob \/ (wjob'[w] = j /\ Late(w)')
  PROVE  Kept(j)
  <1> USE JobAssumption DEF IInv, TypeOK, StoreTypeOK, ApiTypeOK
  <1>1. j \in delivered /\ j \in Added
    BY DEF Ownership
  <1>2. api[j] \in {"accepted", "undo", "fail", "error", "gone"} /\ api'[j] = api[j]
    BY <1>1 DEF Ownership, apiVars
  <1>3. First(j)'
    BY DEF Final, First, Late
  <1>4. Written(j)'
    BY <1>1, <1>2 DEF Final, First, Written, Ended, Late
  <1>5. ASSUME state[j] \in Terminal  PROVE DeliveredAgain(j) \/ api[j] = "error"
    <2>1. api[j] # "error" => pel[j] # 1
      BY <1>5 DEF Final, Written
    <2>2. pel[j] \in Nat
      OBVIOUS
    <2>3. pel[j] = 0 => j \in Acked
      BY <1>1 DEF Acked, Pending
    <2> QED
      BY <2>1, <2>2, <2>3 DEF DeliveredAgain
  <1> QED
    BY <1>3, <1>4, <1>5 DEF Kept, Stands

LEMMA FinalWorker ==
  ASSUME IInv, Counted, Final, NEW w \in Worker, WorkerStep(w) \/ WorkerFault(w), UNCHANGED apiVars, NEW j \in Job
  PROVE  Kept(j)
  <1> USE JobAssumption DEF IInv, TypeOK, StoreTypeOK, WorkerTypeOK, At, Step
  <1>0. api' = api
    BY DEF apiVars
  <1>00. j \in Added' => j \in Added
    BY DEF Added, streamVars, WorkerStep, WorkerFault, Read, Reclaim, NextReclaimed, LookupResult, LoadJob,
       SolveBaseline, LoadEstimate, Solve, Settle, CacheResult, ClearClaim, Ack, PoisonFail, PoisonRelease,
       DeadLetter, Beat, SkipWrite, MissEstimate, CallErrs, Crash
  <1>1. CASE Read(w)
    <2>1. PICK i \in Undelivered : Deliver({i}) /\ Process(w, i)
      BY <1>1 DEF Read
    <2>2. /\ wjob' = [wjob EXCEPT ![w] = i] /\ wbatch' = wbatch
          /\ wpc' = [wpc EXCEPT ![w] = "lookup"] /\ state' = state
          /\ delivered \subseteq delivered' /\ i \in Job /\ i \notin delivered /\ i \in Added
          /\ \A k \in Job \ {i} : pel'[k] = pel[k]
      BY <1>1, <2>1 DEF Read, Deliver, Process, keyVars, Undelivered, Added
    <2>3. CASE i # j
      <3>1. First(j)'
        BY <2>2, <2>3 DEF Final, First
      <3>2. Written(j) => Written(j)'
        BY <1>0, <1>00, <2>2, <2>3 DEF Written, Late
      <3> QED
        BY <2>2, <3>1, <3>2 DEF Kept, Stands, Final
    <2>4. CASE i = j
      <3>1. \A v \in Worker : wjob[v] # j /\ j \notin wbatch[v]
        BY <2>2, <2>4 DEF Ownership
      <3>2. First(j)'
        BY <2>2, <2>4, <3>1 DEF First
      <3>3. Written(j) => api[j] = "error"
        BY <2>2, <2>4 DEF Written
      <3> QED
        BY <1>0, <2>2, <3>2, <3>3 DEF Kept, Stands, Final, Written
    <2> QED
      BY <2>3, <2>4
  <1>2. CASE Reclaim(w)
    <2>1. /\ \A v \in Worker \ {w} : wbatch'[v] = wbatch[v] /\ wpc'[v] = wpc[v]
          /\ wjob' = wjob /\ wjob[w] = NoJob /\ UNCHANGED <<state, delivered>>
          /\ \/ pel'[j] \in {pel[j], 0} /\ (pel'[j] = pel[j] => j \notin wbatch'[w])
             \/ pel'[j] = pel[j] + 1
      BY <1>2 DEF Reclaim, keyVars
    <2>2. pel'[j] = pel[j] + 1 => pel[j] # 0
      <3>1. pel'[j] = pel[j] + 1 => j \in Claimable \ trimmed
        BY <1>2 DEF Reclaim
      <3>2. Claimable \subseteq Pending
        BY DEF Claimable, Counted
      <3> QED
        BY <3>1, <3>2 DEF Pending
    <2>3. pel'[j] = 1 => pel[j] = 1 /\ j \notin wbatch'[w]
      BY <2>1, <2>2
    <2>4. First(j)'
      BY <2>1, <2>3 DEF Final, First
    <2>5. Written(j) => Written(j)'
      BY <1>0, <1>00, <2>1, <2>3 DEF Written, Late
    <2> QED
      BY <2>1, <2>4, <2>5 DEF Kept, Stands, Final
  <1>3. CASE NextReclaimed(w)
    <2>1. PICK i \in wbatch[w] :
            /\ wbatch' = [wbatch EXCEPT ![w] = @ \ {i}]
            /\ wjob' = [wjob EXCEPT ![w] = i]
            /\ pel' = pel \/ pel' = [pel EXCEPT ![i] = 0]
            /\ \A v \in Worker \ {w} : wpc'[v] = wpc[v]
      BY <1>3 DEF NextReclaimed, Process, Renew
    <2>2. UNCHANGED <<state, delivered>> /\ wjob[w] = NoJob /\ i \in Job
      BY <1>3, <2>1 DEF NextReclaimed, keyVars
    <2>3. pel'[j] = 1 => pel[j] = 1 /\ i # j
      BY <2>1, <2>2 DEF Final, First
    <2>4. First(j)'
      BY <2>1, <2>2, <2>3 DEF Final, First
    <2>5. Written(j) => Written(j)'
      BY <1>0, <1>00, <2>1, <2>2, <2>3 DEF Written, Late
    <2> QED
      BY <2>2, <2>4, <2>5 DEF Kept, Stands, Final
  <1>4. CASE Settle(w) \/ PoisonFail(w) \/ CallErrs(w)
    <2>1. /\ UNCHANGED <<id, delivered, pel>>
          /\ \A v \in Worker \ {w} : wjob'[v] = wjob[v] /\ wbatch'[v] = wbatch[v] /\ wpc'[v] = wpc[v]
          /\ wbatch'[w] \subseteq wbatch[w]
          /\ wjob'[w] = NoJob \/ (wjob'[w] = wjob[w] /\ Late(w)')
      BY <1>4 DEF Settle, PoisonFail, CallErrs, AfterSettling, Abandon, Late, streamVars
    <2>2. CASE state'[j] # state[j]
      <3>1. wjob[w] = j /\ ~Late(w)
        BY <1>4, <2>2 DEF Settle, PoisonFail, CallErrs, SetState, Late
      <3> QED
        BY <2>1, <3>1, FinalWrites
    <2>3. CASE state'[j] = state[j]
      <3>1. \A v \in Worker : /\ wbatch'[v] \subseteq wbatch[v] /\ wjob'[v] \in {wjob[v], NoJob}
                              /\ wjob'[v] = j => /\ Late(v) => Late(v)'
                                                 /\ wpc'[v] \in {wpc[v]} \union (WorkerPc \ {"poison"})
        BY <2>1 DEF Late, WorkerPc, Beating, Solving
      <3> QED
        BY <1>0, <1>00, <2>1, <2>3, <3>1, FinalOnward
    <2> QED
      BY <2>2, <2>3
  <1>5. CASE ~(\/ Read(w) \/ Reclaim(w) \/ NextReclaimed(w)
               \/ Settle(w) \/ PoisonFail(w) \/ CallErrs(w))
    <2>1. state' = state /\ delivered' = delivered
      BY <1>5 DEF keyVars, streamVars, WorkerStep, WorkerFault, LookupResult, LoadJob,
         SolveBaseline, LoadEstimate, Solve, CacheResult, ClearClaim, Ack, PoisonRelease,
         DeadLetter, Beat, SkipWrite, MissEstimate, Crash
    <2>2. pel'[j] \in {pel[j], 0}
      BY <1>5 DEF streamVars, WorkerStep, WorkerFault, LookupResult, LoadJob, XAck, Renew,
         SolveBaseline, LoadEstimate, Solve, CacheResult, ClearClaim, Ack, PoisonRelease,
         DeadLetter, Beat, SkipWrite, MissEstimate, Crash
    <2>3. /\ \A v \in Worker \ {w} : wjob'[v] = wjob[v] /\ wbatch'[v] = wbatch[v] /\ wpc'[v] = wpc[v]
          /\ wbatch'[w] \subseteq wbatch[w] /\ wjob'[w] \in {wjob[w], NoJob}
          /\ wjob'[w] # NoJob => /\ wpc'[w] \in {wpc[w]} \union (WorkerPc \ {"poison"})
                                 /\ Late(w) => Late(w)'
      BY <1>5 DEF streamVars, workerVars, localVars, Leave, End, Abandon, WorkerStep, WorkerFault, LookupResult,
         LoadJob, SolveBaseline, LoadEstimate, Solve, CacheResult, ClearClaim, Ack, PoisonRelease, DeadLetter,
         Beat, SkipWrite, MissEstimate, Crash, AfterSettling, Late, WorkerPc, Beating, Solving
    <2> QED
      BY <1>0, <1>00, <2>1, <2>2, <2>3, FinalOnward DEF Late
  <1> QED
    BY <1>1, <1>2, <1>3, <1>4, <1>5

LEMMA FinalOther ==
  ASSUME IInv, Final, Next, NEW j \in Job,
         \/ Time \/ (\E i \in Job : Cancel(i))
         \/ (PutLands \/ PutLost) /\ UNCHANGED <<apiVars, workerVars>>
  PROVE  Kept(j)
  <1>1. UNCHANGED <<api, wpc, wjob, wbatch, id, delivered, pel>>
    BY TimeFrame DEF apiVars, workerVars, localVars, streamVars, Time, GoIdle, StateExpires, RetentionEnds,
       PayloadExpires, CancelExpires, ResultExpires, InflightExpires, PutLands, PutLost, Cancel, RequestCancel
  <1>2. state'[j] \in {state[j], "none"}
    BY DEF IInv, TypeOK, StoreTypeOK, keyVars, SetState, Time, GoIdle, StateExpires, RetentionEnds, PayloadExpires,
       CancelExpires, ResultExpires, InflightExpires, PutLands, PutLost, Cancel, RequestCancel
  <1>3. Added' = Added
    BY <1>1 DEF Added
  <1> QED
    BY <1>1, <1>2, <1>3, FinalOnward DEF Late

LEMMA FinalNext ==
  ASSUME IInv, Counted, Final, [Next]_vars
  PROVE  Final' /\ \A j \in Job : Stands(j)
  <1>1. ASSUME Next, NEW j \in Job  PROVE Kept(j)
    BY <1>1, FinalApi, FinalWorker, FinalOther DEF Next
  <1>2. CASE UNCHANGED vars
    BY <1>2 DEF Final, First, Written, Late, Added, Stands, vars, keyVars, streamVars, apiVars, workerVars, localVars
  <1> QED
    BY <1>1, <1>2 DEF Final, Kept

\* A verdict stands, however many jobs, workers and mishaps there are, until its
\* retention ends, its entry is delivered again or its submission fails to
\* enqueue it.
THEOREM TerminalCorrect == Spec => TerminalIsFinal
  <1> DEFINE Inv == IInv /\ Counted /\ Final
  <1>1. Init => Inv
    <2>1. Init => Final
      BY DEF Init, StoreInit, Final, First, Terminal
    <2> QED
      BY <2>1, InitIInv, InitCounted
  <1>2. Inv /\ [Next]_vars => Inv' /\ [\A j \in Job : Stands(j)]_vars
    BY IInvNext, NextKeepsCounted, FinalNext
  <1>3. Inv /\ [Next]_vars => Inv' /\
          [\A j \in Job : state[j] \in Terminal /\ state'[j] \notin {state[j], "none"}
                => DeliveredAgain(j) \/ api[j] \in {"fail", "error"}]_vars
    BY <1>2 DEF Stands
  <1> HIDE DEF Inv
  <1> QED
    BY <1>1, <1>3, PTL DEF Spec, TerminalIsFinal

-----------------------------------------------------------------------------
(* One worker has an entry.                                               *)

\* No worker dies or panics, no call fails and no heartbeat lapses; keys expire
\* and callers cancel as they like.
Calm ==
    /\ \A b \in Budgets : b["crash"] = 0 /\ b["fault"] = 0 /\ b["lapse"] = 0
    /\ "panic" \notin Outcomes

Spared(K) == \A k \in K : left[k] = 0
Mishaps == {"crash", "fault", "lapse"}

Holds(w, j) == wjob[w] = j \/ j \in wbatch[w]

\* One worker has the entry, or it waits without a payload: then a sweep may take it
\* up once more, but nobody solves it.
Alone ==
    /\ \A j \in Job : api[j] \notin {"undo", "fail", "error", "gone"}
    /\ \A w \in Worker : wjob[w] \notin wbatch[w]
    /\ \A v, w \in Worker, j \in Job : Holds(v, j) /\ Holds(w, j) => v = w
    /\ \A w \in Worker, j \in Job : Holds(w, j) => j \notin idle
    /\ \A j \in Pending : Held(j) \/ j \notin payload
    /\ \A w \in Worker :
          /\ wbatch[w] \intersect payload = {}
          /\ wpc[w] \in {"loop", "durable"} \union Solving => wbatch[w] = {}
          /\ wpc[w] \in {"lookup", "load"} /\ wbatch[w] # {} => wjob[w] \notin payload

\* The steps a mishap takes part in are out.
LEMMA CalmSteps ==
  ASSUME TypeOK, Spared(Mishaps), Next
  PROVE  \/ \E j \in Job : ApiStep(j) /\ UNCHANGED workerVars
         \/ \E j \in Job : Cancel(j)
         \/ \E w \in Worker : WorkerStep(w) /\ UNCHANGED apiVars
         \/ PutLands /\ UNCHANGED <<apiVars, workerVars>>
         \/ Time
  <1>1. ~Spend("fault") /\ ~Spend("crash")
    BY DEF Spared, Mishaps, Spend
  <1>2. \A j \in Job : ~ApiFault(j)
    BY <1>1 DEF ApiFault, CallFails, ReplyLost, HandlerDropped
  <1>3. \A w \in Worker : ~WorkerFault(w)
    BY <1>1 DEF WorkerFault, SkipWrite, MissEstimate, CallErrs, Crash
  <1>4. ~PutLost
    BY <1>1 DEF PutLost
  <1> QED
    BY <1>2, <1>3, <1>4 DEF Next

\* A budget that is spent stays spent.
LEMMA SparedNext ==
  ASSUME TypeOK, NEW K \in SUBSET Hazard, Spared(K), [Next]_vars
  PROVE  Spared(K)'
  <1> USE DEF TypeOK, StoreTypeOK, Spared
  <1>0. ASSUME NEW k \in Hazard, Spend(k)  PROVE Spared(K)'
    BY <1>0 DEF Spend
  <1>00. \A k \in {"crash", "fault", "lapse", "expiry", "backstop", "cancel"} : k \in Hazard
    BY BudgetAssumption
  <1>1. ASSUME NEW j \in Job, ApiStep(j) \/ ApiFault(j)  PROVE Spared(K)'
    <2>1. left' = left \/ Spend("fault")
      BY <1>1 DEF ApiStep, PeekClaim, CheckClaim, ClearStale, Create, LookupDurable,
         ServeDurable, Claim, FindWinner, VerifyWinner, Tidy, StorePayload, Enqueue,
         UndoClaim, FailEnqueue, ApiFault, CallFails, ReplyLost, HandlerDropped
    <2> QED
      BY <1>0, <1>00, <2>1
  <1>2. ASSUME NEW w \in Worker, WorkerStep(w) \/ WorkerFault(w)  PROVE Spared(K)'
    <2>1. left' = left \/ Spend("fault") \/ Spend("crash")
      BY <1>2 DEF WorkerStep, WorkerFault, Read, Reclaim, NextReclaimed, LookupResult,
         LoadJob, SolveBaseline, LoadEstimate, Solve, Settle, CacheResult, ClearClaim, Ack,
         PoisonFail, PoisonRelease, DeadLetter, Beat, SkipWrite, MissEstimate, CallErrs, Crash
    <2> QED
      BY <1>0, <1>00, <2>1
  <1>3. ASSUME Time \/ PutLands \/ PutLost \/ (\E j \in Job : Cancel(j))  PROVE Spared(K)'
    <2>1. \/ left' = left
          \/ left["lapse"] > 0 /\ left' = [left EXCEPT !["lapse"] = @ - 1]
          \/ Spend("expiry") \/ Spend("backstop") \/ Spend("fault") \/ Spend("cancel")
      BY <1>3 DEF Time, GoIdle, StateExpires, RetentionEnds, PayloadExpires, CancelExpires,
         ResultExpires, InflightExpires, PutLands, PutLost, Cancel, RequestCancel
    <2>2. left["lapse"] > 0 /\ left' = [left EXCEPT !["lapse"] = @ - 1] => Spend("lapse")
      BY DEF Spend
    <2> QED
      BY <1>0, <1>00, <2>1, <2>2
  <1>4. CASE UNCHANGED vars
    BY <1>4 DEF vars
  <1> QED
    BY <1>1, <1>2, <1>3, <1>4 DEF Next

LEMMA AloneInit == Init => Alone
  BY JobAssumption DEF Init, StoreInit, ApiInit, WorkerInit, Alone, Holds, Pending

LEMMA AloneApi ==
  ASSUME TypeOK, Ownership, Alone, NEW j \in Job, ApiStep(j), UNCHANGED workerVars
  PROVE  Alone'
  <1>1. /\ api' \in [Job -> ApiPc]
        /\ \A i \in Job : api'[i] \notin {"undo", "fail", "error", "gone"}
    BY DEF Alone, TypeOK, ApiTypeOK, Goto, AfterMiss, ApiPc, Ended, ApiStep, PeekClaim,
       CheckClaim, ClearStale, Create, LookupDurable, ServeDurable, Claim, FindWinner,
       VerifyWinner, Tidy, StorePayload, Enqueue, UndoClaim, FailEnqueue
  <1>2. /\ UNCHANGED <<idle, pel>>
        /\ payload' = payload \/ (payload' = payload \union {j} /\ api[j] = "store")
    BY DEF keyVars, streamVars, ApiStep, PeekClaim,
       CheckClaim, ClearStale, Create, LookupDurable, ServeDurable, Claim, FindWinner,
       VerifyWinner, Tidy, StorePayload, Enqueue, UndoClaim, FailEnqueue
  <1>3. api[j] = "store" => j \notin Pending /\ \A w \in Worker : ~Holds(w, j)
    BY JobAssumption DEF Ownership, Holds
  <1>4. UNCHANGED <<wpc, wjob, wbatch>>
    BY DEF workerVars, localVars
  <1>5. Pending' = Pending
    BY <1>2 DEF Pending
  <1> QED
    BY <1>1, <1>2, <1>3, <1>4, <1>5 DEF Alone, Holds, Held

LEMMA AloneTime ==
  ASSUME TypeOK, Alone, Spared(Mishaps), Time
  PROVE  Alone'
  <1>0. UNCHANGED <<api, wpc, wjob, wbatch, pel>>
    BY TimeFrame DEF apiVars, workerVars, localVars, streamVars, Time, GoIdle, StateExpires,
       RetentionEnds, PayloadExpires, CancelExpires, ResultExpires, InflightExpires
  <1>1. Pending' = Pending
    BY <1>0 DEF Pending
  <1>2. ASSUME NEW j \in Job, GoIdle(j)  PROVE Alone'
    <2>1. idle' = idle \union {j} /\ payload' = payload /\ ~Attended(j)
      BY <1>2 DEF GoIdle, keyVars, Spared, Mishaps
    <2>2. \A w \in Worker : ~Holds(w, j)
      BY <2>1 DEF Attended, Holds, Alone, TypeOK, WorkerTypeOK
    <2> QED
      BY <1>0, <1>1, <2>1, <2>2 DEF Alone, Holds, Held
  <1>3. CASE ~ \E j \in Job : GoIdle(j)
    <2>1. idle' = idle /\ payload' \subseteq payload
      BY <1>3 DEF streamVars, Time, StateExpires, RetentionEnds, PayloadExpires,
         CancelExpires, ResultExpires, InflightExpires
    <2> QED
      BY <1>0, <1>1, <2>1 DEF Alone, Holds, Held
  <1> QED
    BY <1>2, <1>3

\* A worker goes on with the entry it has.
LEMMA AloneOnward ==
  ASSUME TypeOK, Alone, NEW w \in Worker,
         UNCHANGED <<api, wjob, wbatch, idle, payload, pel>>,
         \A v \in Worker \ {w} : wpc'[v] = wpc[v],
         wpc'[w] \in {"loop", "durable"} \union Solving => wbatch[w] = {},
         wpc'[w] \in {"lookup", "load"} => wpc[w] \in {"lookup", "load"}
  PROVE  Alone'
  <1>1. Pending' = Pending
    BY DEF Pending
  <1> QED
    BY <1>1 DEF Alone, Holds, Held

\* It is done with its entry, which needs no attention any more.
LEMMA AloneLeave ==
  ASSUME TypeOK, Alone, NEW w \in Worker, Leave(w), wjob[w] # NoJob,
         UNCHANGED <<api, payload>>, idle' \subseteq idle,
         Pending' \subseteq Pending, wjob[w] \notin Pending' \intersect payload
  PROVE  Alone'
  <1> USE DEF TypeOK, WorkerTypeOK
  <1>1. /\ wjob' = [wjob EXCEPT ![w] = NoJob] /\ wbatch' = wbatch
        /\ wpc' = [wpc EXCEPT ![w] = IF wbatch[w] = {} THEN "loop" ELSE "next"]
    BY DEF Leave, Step
  <1>2. \A v \in Worker, j \in Job : Holds(v, j)' => Holds(v, j)
    BY <1>1, JobAssumption DEF Holds
  <1>3. \A j \in Pending' : Held(j)' \/ j \notin payload
    <2> SUFFICES ASSUME NEW j \in Pending', j \in payload  PROVE Held(j)'
      OBVIOUS
    <2>1. j # wjob[w]
      OBVIOUS
    <2>2. PICK v \in Worker : wjob[v] = j \/ j \in wbatch[v]
      BY DEF Alone, Held
    <2> QED
      BY <1>1, <2>1, <2>2 DEF Held
  <1>4. \A v \in Worker : wjob'[v] \notin wbatch'[v]
    BY <1>1, JobAssumption DEF Alone
  <1> QED
    BY <1>1, <1>2, <1>3, <1>4 DEF Alone, Solving

LEMMA AloneRead ==
  ASSUME TypeOK, Ownership, Alone, NEW w \in Worker, Read(w), UNCHANGED apiVars
  PROVE  Alone'
  <1> USE DEF TypeOK, StoreTypeOK, WorkerTypeOK
  <1>1. PICK j \in Undelivered : Deliver({j}) /\ Process(w, j)
    BY DEF Read
  <1>2. j \in Job /\ j \notin delivered
    BY <1>1 DEF Undelivered, Added
  <1>3. /\ idle' = idle \ {j} /\ pel' = [pel EXCEPT ![j] = @ + 1]
        /\ wjob' = [wjob EXCEPT ![w] = j] /\ wpc' = [wpc EXCEPT ![w] = "lookup"]
        /\ UNCHANGED <<wbatch, payload, api>>
    BY <1>1, <1>2 DEF Read, Deliver, Process, Step, keyVars, apiVars
  <1>4. wjob[w] = NoJob /\ wbatch[w] = {}
    BY DEF Read, At, Alone
  <1>5. \A v \in Worker : ~Holds(v, j)
    BY <1>2, JobAssumption DEF Ownership, Holds
  <1>6. Pending' \subseteq Pending \union {j}
    BY <1>2, <1>3 DEF Pending
  <1>7. \A i \in Job : Held(i) \/ i = j => Held(i)'
    BY <1>2, <1>3, <1>4, JobAssumption DEF Held
  <1>8. \A v \in Worker, i \in Job : Holds(v, i)' => Holds(v, i) \/ (v = w /\ i = j)
    BY <1>3 DEF Holds
  <1> QED
    BY <1>2, <1>3, <1>4, <1>5, <1>6, <1>7, <1>8 DEF Alone, Holds, Solving

LEMMA AloneReclaim ==
  ASSUME TypeOK, Alone, Counted, NEW w \in Worker, Reclaim(w), UNCHANGED apiVars
  PROVE  Alone'
  <1> USE DEF TypeOK, StoreTypeOK, WorkerTypeOK
  <1> DEFINE got == Claimable \ trimmed
  <1>1. /\ idle' = idle \ Claimable /\ wbatch' = [wbatch EXCEPT ![w] = got]
        /\ wpc' = [wpc EXCEPT ![w] = IF got = {} THEN "loop" ELSE "next"]
        /\ UNCHANGED <<wjob, payload, api>>
    BY DEF Reclaim, Step, keyVars, apiVars
  <1>2. \A j \in Job : pel'[j] > 0 => pel[j] > 0
    <2>1. Claimable \subseteq Pending
      BY DEF Claimable, Counted
    <2> QED
      BY <2>1 DEF Reclaim, Pending
  <1>3. wjob[w] = NoJob /\ wbatch[w] = {}
    BY DEF Reclaim, At, Alone
  <1>4. \A j \in got : j \in idle /\ j \in Pending /\ j \in Job
    BY DEF Claimable, Counted
  <1>5. \A j \in got : (\A v \in Worker : ~Holds(v, j)) /\ j \notin payload
    BY <1>4 DEF Alone, Held, Holds
  <1>6. \A v \in Worker, i \in Job : Holds(v, i)' => Holds(v, i) \/ (v = w /\ i \in got)
    BY <1>1 DEF Holds
  <1>7. \A i \in Job : Held(i) => Held(i)'
    BY <1>1, <1>3 DEF Held
  <1>8. Pending' \subseteq Pending
    BY <1>2 DEF Pending
  <1>9. \A j \in idle' : j \in idle /\ j \notin got
    BY <1>1
  <1>10. \A v \in Worker : wjob'[v] \notin wbatch'[v]
    BY <1>1, <1>3, <1>4, JobAssumption DEF Alone
  <1>11. \A v \in Worker :
          /\ wbatch'[v] \intersect payload' = {}
          /\ wpc'[v] \in {"loop", "durable"} \union Solving => wbatch'[v] = {}
          /\ wpc'[v] \in {"lookup", "load"} /\ wbatch'[v] # {} => wjob'[v] \notin payload'
    BY <1>1, <1>5 DEF Alone, Solving
  <1> HIDE DEF got
  <1>12. \A v, u \in Worker, j \in Job : Holds(v, j)' /\ Holds(u, j)' => v = u
    BY <1>5, <1>6 DEF Alone
  <1>13. \A v \in Worker, j \in Job : Holds(v, j)' => j \notin idle'
    BY <1>6, <1>9 DEF Alone
  <1>14. \A j \in Pending' : Held(j)' \/ j \notin payload'
    BY <1>1, <1>7, <1>8 DEF Alone, Pending
  <1>15. \A j \in Job : api'[j] \notin {"undo", "fail", "error", "gone"}
    BY <1>1 DEF Alone
  <1> QED
    BY <1>10, <1>11, <1>12, <1>13, <1>14, <1>15 DEF Alone

LEMMA AloneNext ==
  ASSUME TypeOK, Alone, NEW w \in Worker, NextReclaimed(w), UNCHANGED apiVars
  PROVE  Alone'
  <1> USE DEF TypeOK, StoreTypeOK, WorkerTypeOK
  <1>1. PICK j \in wbatch[w] :
          /\ wbatch' = [wbatch EXCEPT ![w] = @ \ {j}]
          /\ \/ /\ wpc' = [wpc EXCEPT ![w] = "poison"]
                /\ wjob' = [wjob EXCEPT ![w] = j]
                /\ UNCHANGED <<pel, idle>>
             \/ Process(w, j) /\ Renew(j)
    BY DEF NextReclaimed, Step
  <1>2. /\ j \in Job /\ wjob' = [wjob EXCEPT ![w] = j] /\ wjob[w] = NoJob
        /\ wpc' = [wpc EXCEPT ![w] = "poison"] \/ wpc' = [wpc EXCEPT ![w] = "lookup"]
        /\ idle' \subseteq idle /\ UNCHANGED <<api, payload>>
    BY <1>1 DEF NextReclaimed, At, Process, Step, Renew, keyVars, apiVars
  <1>3. Pending' \subseteq Pending
    BY <1>1 DEF Process, Renew, Pending
  <1>4. \A v \in Worker, i \in Job : Holds(v, i)' <=> Holds(v, i)
    BY <1>1, <1>2, JobAssumption DEF Holds
  <1>5. \A v \in Worker : wjob'[v] \notin wbatch'[v]
    BY <1>1, <1>2 DEF Alone
  <1>6. \A i \in Job : Held(i) <=> Held(i)'
    BY <1>4 DEF Held, Holds
  <1>7. j \notin payload
    BY <1>1 DEF Alone
  <1> QED
    BY <1>1, <1>2, <1>3, <1>4, <1>5, <1>6, <1>7 DEF Alone, Solving, Pending

LEMMA AloneWorker ==
  ASSUME TypeOK, Ownership, Alone, Counted, Calm, NEW w \in Worker, WorkerStep(w), UNCHANGED apiVars
  PROVE  Alone'
  <1> USE DEF TypeOK, WorkerTypeOK, At, Step
  <1>1. CASE Read(w) \/ Reclaim(w) \/ NextReclaimed(w)
    BY <1>1, AloneRead, AloneReclaim, AloneNext
  <1>2. CASE LoadJob(w)
    <2>1. CASE Leave(w) /\ wjob[w] \notin payload
      BY <1>2, <2>1, AloneLeave DEF LoadJob, apiVars, keyVars, streamVars, Pending
    <2>2. CASE End(w, "expired")
      BY <1>2, <2>2, AloneOnward DEF LoadJob, End, apiVars, keyVars, streamVars, Solving
    <2>3. CASE /\ wjob[w] \in payload /\ UNCHANGED <<wjob, wbatch, wout>>
               /\ Step(w, IF wjob[w] \in Linkest THEN "durable" ELSE "baseline")
      <3>1. wbatch[w] = {}
        BY <1>2, <2>3 DEF LoadJob, Alone
      <3> QED
        BY <1>2, <2>3, <3>1, AloneOnward DEF LoadJob, apiVars, keyVars, streamVars
    <2> QED
      BY <1>2, <2>1, <2>2, <2>3 DEF LoadJob
  <1>3. CASE Ack(w)
    <2>1. idle' \subseteq idle /\ Pending' = Pending \ {wjob[w]} /\ UNCHANGED <<api, payload>>
      BY <1>3 DEF Ack, XAck, Pending, StoreTypeOK, apiVars, keyVars
    <2> QED
      BY <1>3, <2>1, AloneLeave DEF Ack
  <1>4. CASE LookupResult(w) \/ SolveBaseline(w) \/ LoadEstimate(w) \/ Solve(w)
    <2>1. UNCHANGED <<api, wjob, wbatch, idle, payload, pel>>
      BY <1>4 DEF LookupResult, SolveBaseline, LoadEstimate, Solve, End, Calm, apiVars, keyVars, streamVars
    <2>2. /\ \A v \in Worker \ {w} : wpc'[v] = wpc[v]
          /\ \/ wpc'[w] = "settle"
             \/ wpc[w] = "lookup" /\ wpc'[w] = "load"
             \/ wpc[w] \in {"baseline", "durable"} /\ wpc'[w] \in {"modified", "estimate"}
      BY <1>4 DEF LookupResult, SolveBaseline, LoadEstimate, Solve, End, Calm
    <2>3. wpc[w] \in {"baseline", "durable"} => wbatch[w] = {}
      BY DEF Alone, Solving
    <2> QED
      BY <2>1, <2>2, <2>3, AloneOnward DEF Solving
  <1>5. CASE \/ Settle(w) \/ CacheResult(w) \/ ClearClaim(w)
             \/ PoisonFail(w) \/ PoisonRelease(w) \/ DeadLetter(w)
    <2>1. UNCHANGED <<api, wjob, wbatch, idle, payload, pel>>
      BY <1>5 DEF Settle, CacheResult, ClearClaim, PoisonFail, PoisonRelease, DeadLetter,
                  apiVars, keyVars, streamVars
    <2>2. /\ \A v \in Worker \ {w} : wpc'[v] = wpc[v]
          /\ wpc'[w] \in {"cache", "clear", "ack", "release", "bury"}
      BY <1>5 DEF Settle, CacheResult, ClearClaim, PoisonFail, PoisonRelease, DeadLetter,
                  AfterSettling
    <2> QED
      BY <2>1, <2>2, AloneOnward DEF Solving
  <1>6. CASE Beat(w)
    <2>1. wjob[w] \in Job /\ wjob[w] \in idle
      BY <1>6 DEF Beat, Beating, Solving
    <2> QED
      BY <2>1 DEF Alone, Holds
  <1> QED
    BY <1>1, <1>2, <1>3, <1>4, <1>5, <1>6 DEF WorkerStep

LEMMA AloneKept ==
  ASSUME Calm, IInv, Counted, Spared(Mishaps), Alone, [Next]_vars
  PROVE  Alone'
  <1>1. ASSUME UNCHANGED <<api, wpc, wjob, wbatch, idle, payload, pel>>  PROVE Alone'
    BY <1>1 DEF Alone, Holds, Held, Pending
  <1>2. ASSUME NEW j \in Job, Cancel(j)  PROVE Alone'
    BY <1>1, <1>2 DEF Cancel, RequestCancel, apiVars, workerVars, localVars, streamVars
  <1>3. CASE PutLands /\ UNCHANGED <<apiVars, workerVars>>
    BY <1>1, <1>3 DEF PutLands, apiVars, workerVars, localVars, keyVars, streamVars
  <1>4. CASE UNCHANGED vars
    BY <1>1, <1>4 DEF vars, apiVars, workerVars, localVars, keyVars, streamVars
  <1>5. CASE Next
    BY <1>2, <1>3, <1>5, CalmSteps, AloneApi, AloneTime, AloneWorker DEF IInv
  <1> QED
    BY <1>4, <1>5

LEMMA CalmInit == ASSUME Calm PROVE Init => Spared(Mishaps) /\ Alone
  <1>1. Init => Spared(Mishaps)
    BY DEF Calm, Init, StoreInit, Spared, Mishaps
  <1> QED
    BY <1>1, AloneInit

-----------------------------------------------------------------------------
(* One solve of a link estimate at a time.                                 *)

\* No key expires either, and every solve succeeds.
Quiet ==
    /\ Calm
    /\ \A b \in Budgets : b["expiry"] = 0 /\ b["backstop"] = 0
    /\ Outcomes \subseteq {"done"}

Disturbances == {"crash", "fault", "lapse", "expiry", "backstop"}

Seeking == {"load", "durable", "estimate"}

\* The job holds the claim of its hash, or the hash has its result.
Guarded(j) == inflight[HashOf[j]] = j \/ HashOf[j] \in result

WorkerGuarded(w) ==
    /\ wbatch[w] = {} /\ wpc[w] \notin {"next", "poison", "release", "bury"}
    /\ wpc[w] \in {"durable", "estimate"} => wjob[w] \in Linkest
    /\ wout[w] \in {"none", "done", "republished"}
    /\ wout[w] = "republished" \/ wpc[w] = "clear" => HashOf[wjob[w]] \in result
    /\ wpc[w] \in {"lookup"} \union Seeking /\ wjob[w] \in Linkest => Guarded(wjob[w])

SubmissionGuarded(j) ==
    /\ j \in Added \/ api[j] = "add" => j \in payload
    /\ api[j] \notin {"new", "check", "create"} \union Ended \/ j \in Added => Exists(j)
    /\ api[j] # "clear"
    /\ api[j] \in {"check", "verify"} => seen[j] \in Job /\ Exists(seen[j])
    /\ api[j] = "lost" => Claimed(HashOf[j]) \/ HashOf[j] \in result
    /\ j \in Linkest /\ (api[j] \in {"store", "add"} \/ j \in Added \ delivered) => Guarded(j)

SeekersApart ==
    \A v, w \in Worker :
        /\ v # w /\ wpc[v] \in Seeking /\ wpc[w] \in Seeking
        /\ wjob[v] \in Linkest /\ wjob[w] \in Linkest
        => HashOf[wjob[v]] # HashOf[wjob[w]]

Deduped ==
    /\ idle = {}
    /\ \A w \in Worker : WorkerGuarded(w)
    /\ \A j \in Job : SubmissionGuarded(j)
    /\ \A h \in Hash : Claimed(h) => Exists(inflight[h])
    /\ SeekersApart

\* What nothing takes back.
Onward ==
    /\ result \subseteq result' /\ payload \subseteq payload'
    /\ \A j \in Job : Exists(j) => Exists(j)'
    /\ \A j \in Job : Guarded(j) => Guarded(j)'
    /\ \A h \in Hash : Claimed(h) => Claimed(h)' \/ h \in result'
    /\ \A h \in Hash : \/ inflight'[h] \in {inflight[h], NoJob}
                       \/ \E j \in Job : inflight'[h] = j /\ Exists(j)

LEMMA OnwardApi ==
  ASSUME TypeOK, Alone, Deduped, NEW i \in Job, ApiStep(i)
  PROVE  Onward
  <1> USE HashAssumption, JobAssumption DEF TypeOK, StoreTypeOK, ApiTypeOK, keyVars, streamVars, Goto
  <1>1. CASE Claim(i)
    <2>1. Exists(i)
      BY <1>1 DEF Deduped, SubmissionGuarded, Claim, Ended
    <2>2. inflight' = inflight \/ (~Claimed(HashOf[i]) /\ inflight' = [inflight EXCEPT ![HashOf[i]] = i])
      BY <1>1 DEF Claim, ClaimInflight
    <2>3. UNCHANGED <<state, payload, result>>
      BY <1>1 DEF Claim
    <2> QED
      BY <2>1, <2>2, <2>3 DEF Onward, Exists, Guarded, Claimed
  <1>2. CASE Create(i) \/ ServeDurable(i) \/ Tidy(i)
    BY <1>2 DEF Onward, Exists, Guarded, Claimed, Create, ServeDurable, Tidy, SetState
  <1>3. CASE StorePayload(i)
    BY <1>3 DEF Onward, Exists, Guarded, Claimed, StorePayload
  <1>4. CASE \/ PeekClaim(i) \/ CheckClaim(i) \/ LookupDurable(i) \/ FindWinner(i)
             \/ VerifyWinner(i) \/ Enqueue(i)
    BY <1>4 DEF Onward, Exists, Guarded, Claimed, PeekClaim, CheckClaim, LookupDurable, FindWinner,
       VerifyWinner, Enqueue
  <1>5. ~ClearStale(i) /\ ~UndoClaim(i) /\ ~FailEnqueue(i)
    BY DEF Deduped, SubmissionGuarded, Alone, ClearStale, UndoClaim, FailEnqueue
  <1> QED
    BY <1>1, <1>2, <1>3, <1>4, <1>5 DEF ApiStep

\* The steps a worker takes in a quiet behaviour.
QuietWork(w) ==
    \/ Read(w) \/ LookupResult(w) \/ LoadJob(w) \/ SolveBaseline(w) \/ LoadEstimate(w)
    \/ Solve(w) \/ Settle(w) \/ CacheResult(w) \/ ClearClaim(w) \/ Ack(w)

LEMMA QuietSteps ==
  ASSUME IInv, Spared(Disturbances), Alone, Deduped, Next, asked' = {}
  PROVE  \/ \E j \in Job : ApiStep(j) /\ UNCHANGED workerVars
         \/ \E w \in Worker : QuietWork(w) /\ UNCHANGED apiVars
         \/ PutLands /\ UNCHANGED <<apiVars, workerVars>>
  <1>1. Spared(Mishaps)
    BY DEF Spared, Mishaps, Disturbances
  <1>2. \A j \in Job : ~Cancel(j)
    BY DEF Cancel, RequestCancel
  <1>3. ~Time
    <2>1. \A k \in Disturbances : ~Spend(k)
      BY DEF Spared, Spend
    <2>2. \A j \in Job : ~GoIdle(j)
      <3> SUFFICES ASSUME NEW j \in Job, GoIdle(j)  PROVE FALSE
        OBVIOUS
      <3>1. ~Attended(j) /\ j \in Pending
        BY DEF GoIdle, Spared, Disturbances
      <3>2. j \in payload
        BY <3>1 DEF IInv, Ownership, Deduped, SubmissionGuarded
      <3>3. PICK w \in Worker : wjob[w] = j \/ j \in wbatch[w]
        BY <3>1, <3>2 DEF Alone, Held
      <3> QED
        BY <3>1, <3>3 DEF Attended, Deduped, WorkerGuarded
    <2> QED
      BY <2>1, <2>2 DEF Time, StateExpires, RetentionEnds, PayloadExpires, CancelExpires,
         ResultExpires, InflightExpires, Disturbances
  <1>4. ASSUME NEW w \in Worker, WorkerStep(w)  PROVE QuietWork(w)
    <2>1. ~Reclaim(w) /\ ~Beat(w)
      BY DEF Deduped, Reclaim, Claimable, Beat
    <2>2. ~NextReclaimed(w) /\ ~PoisonFail(w) /\ ~PoisonRelease(w) /\ ~DeadLetter(w)
      BY DEF Deduped, WorkerGuarded, NextReclaimed, PoisonFail, PoisonRelease, DeadLetter, At
    <2> QED
      BY <1>4, <2>1, <2>2 DEF WorkerStep, QuietWork
  <1> QED
    BY <1>1, <1>2, <1>3, <1>4, CalmSteps DEF IInv

LEMMA OnwardWork ==
  ASSUME TypeOK, Deduped, NEW w \in Worker, QuietWork(w)
  PROVE  Onward
  <1> USE HashAssumption, JobAssumption DEF TypeOK, StoreTypeOK, WorkerTypeOK, keyVars
  <1>1. CASE Settle(w)
    <2>1. Verdict(wout[w]) # "none"
      BY DEF Verdict
    <2> QED
      BY <1>1, <2>1 DEF Settle, SetState, Onward, Exists, Guarded, Claimed
  <1>2. CASE CacheResult(w)
    BY <1>2 DEF CacheResult, Onward, Exists, Guarded, Claimed
  <1>3. CASE ClearClaim(w)
    <2>1. HashOf[wjob[w]] \in result
      BY <1>3 DEF ClearClaim, Deduped, WorkerGuarded, At
    <2>2. inflight' = [inflight EXCEPT ![HashOf[wjob[w]]] = NoJob] /\ UNCHANGED <<state, payload, result>>
      BY <1>3 DEF ClearClaim, ClearInflight
    <2> QED
      BY <2>1, <2>2 DEF Onward, Exists, Guarded, Claimed
  <1>4. CASE \/ Read(w) \/ LookupResult(w) \/ LoadJob(w) \/ SolveBaseline(w) \/ LoadEstimate(w)
             \/ Solve(w) \/ Ack(w)
    BY <1>4 DEF Read, LookupResult, LoadJob, SolveBaseline, LoadEstimate, Solve, Ack,
       Onward, Exists, Guarded, Claimed
  <1> QED
    BY <1>1, <1>2, <1>3, <1>4 DEF QuietWork

\* What others have is as good as before.
LEMMA OthersGuarded ==
  ASSUME TypeOK, Deduped, Onward
  PROVE  /\ \A v \in Worker :
               /\ wpc'[v] = wpc[v] /\ wjob'[v] = wjob[v] /\ wbatch'[v] = wbatch[v] /\ wout'[v] = wout[v]
               => WorkerGuarded(v)'
         /\ \A j \in Job :
               /\ api'[j] = api[j] /\ seen'[j] = seen[j] /\ delivered \subseteq delivered'
               /\ j \in Added' => j \in Added
               => SubmissionGuarded(j)'
         /\ \A h \in Hash : Claimed(h)' => Exists(inflight[h])'
  <1> USE HashAssumption, JobAssumption DEF TypeOK, StoreTypeOK, WorkerTypeOK, ApiTypeOK
  <1>1. ASSUME NEW v \in Worker,
               wpc'[v] = wpc[v], wjob'[v] = wjob[v], wbatch'[v] = wbatch[v], wout'[v] = wout[v]
        PROVE  WorkerGuarded(v)'
    <2>1. WorkerGuarded(v)
      BY DEF Deduped
    <2>2. result \subseteq result' /\ \A j \in Job : Guarded(j) => Guarded(j)'
      BY DEF Onward
    <2>3. wpc[v] \in {"lookup"} \union Seeking => wjob[v] \in Job
      BY DEF Seeking
    <2> QED
      BY <1>1, <2>1, <2>2, <2>3 DEF WorkerGuarded
  <1>2. ASSUME NEW j \in Job, api'[j] = api[j], seen'[j] = seen[j], delivered \subseteq delivered',
               j \in Added' => j \in Added
        PROVE  SubmissionGuarded(j)'
    <2>1. SubmissionGuarded(j)
      BY DEF Deduped
    <2>2. /\ result \subseteq result' /\ payload \subseteq payload'
          /\ \A i \in Job : Exists(i) => Exists(i)'
          /\ Guarded(j) => Guarded(j)'
          /\ Claimed(HashOf[j]) => Claimed(HashOf[j])' \/ HashOf[j] \in result'
      BY DEF Onward
    <2>3. /\ j \in Added' \/ api'[j] = "add" => j \in payload'
          /\ api'[j] # "clear"
          /\ api'[j] = "lost" => Claimed(HashOf[j])' \/ HashOf[j] \in result'
      BY <1>2, <2>1, <2>2 DEF SubmissionGuarded
    <2>4. /\ api'[j] \notin {"new", "check", "create"} \union Ended \/ j \in Added' => Exists(j)'
          /\ j \in Linkest /\ (api'[j] \in {"store", "add"} \/ j \in Added' \ delivered') => Guarded(j)'
      BY <1>2, <2>1, <2>2 DEF SubmissionGuarded
    <2>5. api'[j] \in {"check", "verify"} => seen'[j] \in Job /\ Exists(seen[j])'
      <3>1. \A i : seen'[j] = i /\ i \in Job /\ Exists(i) => Exists(seen[j])'
        BY <2>2 DEF Exists
      <3> QED
        BY <1>2, <2>1, <3>1 DEF SubmissionGuarded
    <2> QED
      BY <2>3, <2>4, <2>5 DEF SubmissionGuarded
  <1>3. ASSUME NEW h \in Hash, Claimed(h)'  PROVE Exists(inflight[h])'
    <2>1. \E j \in Job : inflight'[h] = j /\ Exists(j)
      BY <1>3 DEF Onward, Deduped, Claimed
    <2> QED
      BY <2>1 DEF Onward, Exists
  <1> QED
    BY <1>1, <1>2, <1>3

LEMMA DedupedApi ==
  ASSUME TypeOK, Ownership, Alone, Deduped, NEW i \in Job, ApiStep(i), UNCHANGED workerVars,
         \A j \in Added' \ Added : api[j] = "add" /\ api'[j] # "add"
  PROVE  Deduped'
  <1> USE HashAssumption, JobAssumption DEF TypeOK, StoreTypeOK, ApiTypeOK, keyVars, streamVars, Goto
  <1>0. UNCHANGED <<wpc, wjob, wbatch, wout, idle, delivered, result>>
    BY DEF workerVars, localVars, ApiStep, PeekClaim, CheckClaim, ClearStale, Create, LookupDurable,
       ServeDurable, Claim, FindWinner, VerifyWinner, Tidy, StorePayload, Enqueue,
       UndoClaim, FailEnqueue
  <1>1. Onward
    BY OnwardApi
  <1>2. \A j \in Job \ {i} : api'[j] = api[j] /\ seen'[j] = seen[j]
    BY DEF ApiStep, PeekClaim, CheckClaim, ClearStale, Create, LookupDurable,
       ServeDurable, Claim, FindWinner, VerifyWinner, Tidy, StorePayload, Enqueue,
       UndoClaim, FailEnqueue
  <1>3. SubmissionGuarded(i)'
    <2>1. SubmissionGuarded(i)
      BY DEF Deduped
    <2>2. \A h \in Hash : Claimed(h) => inflight[h] \in Job /\ Exists(inflight[h])
      BY DEF Deduped, Claimed
    <2>3. /\ Exists(i) => Exists(i)'
          /\ Guarded(i) => Guarded(i)'
          /\ payload \subseteq payload'
      BY <1>1 DEF Onward
    <2>4. ASSUME NEW k \in Job, seen'[i] = k, Exists(k)  PROVE Exists(seen[i])'
      BY <1>1, <2>4 DEF Onward, Exists
    <2>5. i \notin Added' \/ Enqueue(i)
      <3>1. i \notin Added
        BY DEF Ownership, Alone, ApiStep, PeekClaim, CheckClaim, ClearStale, Create, LookupDurable,
           ServeDurable, Claim, FindWinner, VerifyWinner, Tidy, StorePayload, Enqueue,
           UndoClaim, FailEnqueue
      <3> QED
        BY <3>1 DEF ApiStep, PeekClaim, CheckClaim, ClearStale, Create, LookupDurable,
           ServeDurable, Claim, FindWinner, VerifyWinner, Tidy, StorePayload, UndoClaim, FailEnqueue
    <2>6. CASE PeekClaim(i)
      <3>1. api'[i] = "create" \/ (api'[i] = "check" /\ seen'[i] \in Job /\ Exists(seen'[i]))
        BY <2>2, <2>6 DEF PeekClaim
      <3> QED
        BY <2>4, <2>5, <2>6, <3>1 DEF SubmissionGuarded, PeekClaim, Enqueue
    <2>7. CASE CheckClaim(i)
      <3>1. api'[i] = "attached"
        BY <2>1, <2>7 DEF CheckClaim, SubmissionGuarded
      <3> QED
        BY <2>5, <2>7, <3>1 DEF SubmissionGuarded, CheckClaim, Enqueue, Ended
    <2>8. CASE Create(i)
      <3>1. api'[i] = "lookup" /\ Exists(i)'
        BY <2>8 DEF Create, SetState, Exists
      <3> QED
        BY <2>5, <2>8, <3>1 DEF SubmissionGuarded, Create, Enqueue, Ended
    <2>9. CASE LookupDurable(i)
      <3>1. Exists(i)' /\ (api'[i] = "serve" \/ api'[i] = AfterMiss(i))
        BY <2>1, <2>3, <2>9 DEF LookupDurable, SubmissionGuarded, Ended
      <3> QED
        BY <2>5, <2>9, <3>1 DEF SubmissionGuarded, LookupDurable, AfterMiss, Enqueue, Ended
    <2>10. CASE ServeDurable(i) \/ Tidy(i)
      <3>1. api'[i] \in {"accepted", "attached"}
        BY <2>10 DEF ServeDurable, Tidy
      <3> QED
        BY <2>5, <2>10, <3>1 DEF SubmissionGuarded, ServeDurable, Tidy, Enqueue, Ended
    <2>11. CASE Claim(i)
      <3>1. Exists(i)'
        BY <2>1, <2>3, <2>11 DEF Claim, SubmissionGuarded, Ended
      <3>2. \/ api'[i] = "lost" /\ Claimed(HashOf[i])'
            \/ api'[i] = "store" /\ inflight'[HashOf[i]] = i
        BY <2>11 DEF Claim, ClaimInflight, Claimed
      <3> QED
        BY <2>5, <2>11, <3>1, <3>2 DEF SubmissionGuarded, Claim, Enqueue, Ended, Guarded
    <2>12. CASE FindWinner(i)
      <3>1. Exists(i)'
        BY <2>1, <2>3, <2>12 DEF FindWinner, SubmissionGuarded, Ended
      <3>2. \/ api'[i] = "verify" /\ seen'[i] \in Job /\ Exists(seen'[i])
            \/ api'[i] = "store" /\ Guarded(i)
        BY <2>1, <2>2, <2>12 DEF FindWinner, SubmissionGuarded, Claimed, Guarded
      <3> QED
        BY <2>3, <2>4, <2>5, <2>12, <3>1, <3>2 DEF SubmissionGuarded, FindWinner, Enqueue, Ended
    <2>13. CASE VerifyWinner(i)
      <3>1. api'[i] = "tidy" /\ Exists(i)'
        BY <2>1, <2>3, <2>13 DEF VerifyWinner, SubmissionGuarded, Ended
      <3> QED
        BY <2>5, <2>13, <3>1 DEF SubmissionGuarded, VerifyWinner, Enqueue, Ended
    <2>14. CASE StorePayload(i)
      <3>1. api'[i] = "add" /\ i \in payload' /\ Exists(i)' /\ (i \in Linkest => Guarded(i)')
        BY <2>1, <2>3, <2>14 DEF StorePayload, SubmissionGuarded, Ended
      <3> QED
        BY <2>5, <2>14, <3>1 DEF SubmissionGuarded, StorePayload, Enqueue
    <2>15. CASE Enqueue(i)
      <3>1. api'[i] = "accepted" /\ i \in payload' /\ Exists(i)' /\ (i \in Linkest => Guarded(i)')
        BY <2>1, <2>3, <2>15 DEF Enqueue, SubmissionGuarded, Ended
      <3> QED
        BY <3>1 DEF SubmissionGuarded
    <2>16. ~ClearStale(i) /\ ~UndoClaim(i) /\ ~FailEnqueue(i)
      BY <2>1 DEF SubmissionGuarded, Alone, ClearStale, UndoClaim, FailEnqueue
    <2> QED
      BY <2>6, <2>7, <2>8, <2>9, <2>10, <2>11, <2>12, <2>13, <2>14, <2>15, <2>16 DEF ApiStep
  <1>4. \A j \in Job \ {i} : j \in Added' => j \in Added
    BY <1>2
  <1>5. SeekersApart'
    BY <1>0 DEF Deduped, SeekersApart
  <1> QED
    BY <1>0, <1>1, <1>2, <1>3, <1>4, <1>5, OthersGuarded DEF Deduped

LEMMA DedupedWork ==
  ASSUME IInv, Alone, Deduped, Quiet, asked = {}, NEW w \in Worker, QuietWork(w), UNCHANGED apiVars
  PROVE  Deduped'
  <1> USE HashAssumption, JobAssumption DEF IInv, TypeOK, StoreTypeOK, WorkerTypeOK, ApiTypeOK, keyVars, At, Step
  <1>1. Onward
    BY OnwardWork
  <1>2. \A v \in Worker \ {w} :
           wpc'[v] = wpc[v] /\ wjob'[v] = wjob[v] /\ wbatch'[v] = wbatch[v] /\ wout'[v] = wout[v]
    BY DEF QuietWork, Read, Process, LookupResult, LoadJob, SolveBaseline, LoadEstimate, Solve, Settle,
       CacheResult, ClearClaim, Ack, Leave, End
  <1>3. /\ Added' = Added /\ delivered \subseteq delivered' /\ idle' \subseteq idle
        /\ UNCHANGED <<api, seen>>
    <2>1. id' = id /\ delivered \subseteq delivered' /\ idle' \subseteq idle
      BY DEF streamVars, QuietWork, Read, Deliver, LookupResult, LoadJob, SolveBaseline, LoadEstimate,
         Solve, Settle, CacheResult, ClearClaim, Ack, XAck
    <2> QED
      BY <2>1 DEF Added, apiVars
  <1>4. WorkerGuarded(w) /\ cancel = {}
    BY DEF Deduped, Verdicts, Requested
  <1>5. WorkerGuarded(w)' /\ (wpc'[w] \in Seeking => wjob'[w] = wjob[w] /\ (wpc[w] \in Seeking \/ LookupResult(w)))
    <2>0. /\ result \subseteq result'
          /\ \A j \in Job : Guarded(j) => Guarded(j)'
      BY <1>1 DEF Onward
    <2>1. CASE Read(w)
      <3>1. PICK j \in Undelivered : Process(w, j)
        BY <2>1 DEF Read
      <3>2. j \in Job /\ j \in Added \ delivered /\ SubmissionGuarded(j)
        BY <3>1 DEF Undelivered, Added, Deduped
      <3>3. /\ wpc'[w] = "lookup" /\ wjob'[w] = j /\ wbatch'[w] = {} /\ wout'[w] = "none"
        BY <1>4, <2>1, <3>1, <3>2 DEF Read, Process, WorkerGuarded, Verdicts, Sourced
      <3> QED
        BY <2>0, <3>2, <3>3 DEF WorkerGuarded, SubmissionGuarded, Seeking
    <2>2. CASE LookupResult(w)
      <3>1. /\ wjob'[w] = wjob[w] /\ wbatch'[w] = {}
            /\ \/ wpc'[w] = "settle" /\ wout'[w] = "republished" /\ HashOf[wjob[w]] \in result
               \/ wpc'[w] = "load" /\ wout'[w] = wout[w]
        BY <1>4, <2>2 DEF LookupResult, End, WorkerGuarded
      <3> QED
        BY <1>4, <2>0, <2>2, <3>1 DEF LookupResult, WorkerGuarded, Seeking
    <2>3. CASE LoadJob(w)
      <3>1. wjob[w] \in payload /\ Exists(wjob[w])
        BY <2>3 DEF LoadJob, Ownership, Deduped, SubmissionGuarded
      <3>2. /\ wjob'[w] = wjob[w] /\ wbatch'[w] = {} /\ wout'[w] = wout[w]
            /\ wpc'[w] = "baseline" \/ (wpc'[w] = "durable" /\ wjob[w] \in Linkest)
        BY <1>4, <2>3, <3>1 DEF LoadJob, WorkerGuarded
      <3> QED
        BY <1>4, <2>0, <2>3, <3>2 DEF LoadJob, WorkerGuarded, Seeking
    <2>4. CASE SolveBaseline(w)
      <3>1. /\ wjob'[w] = wjob[w] /\ wbatch'[w] = {} /\ wout'[w] = wout[w] /\ wpc'[w] = "modified"
        BY <1>4, <2>4 DEF SolveBaseline, WorkerGuarded, Quiet
      <3> QED
        BY <1>4, <2>0, <2>4, <3>1 DEF SolveBaseline, WorkerGuarded, Seeking
    <2>5. CASE LoadEstimate(w)
      <3>1. /\ wjob'[w] = wjob[w] /\ wbatch'[w] = {}
            /\ \/ wpc'[w] = "settle" /\ wout'[w] = "done"
               \/ wpc'[w] = "estimate" /\ wout'[w] = wout[w]
        BY <1>4, <2>5 DEF LoadEstimate, End, WorkerGuarded
      <3> QED
        BY <1>4, <2>0, <2>5, <3>1 DEF LoadEstimate, WorkerGuarded, Seeking
    <2>6. CASE Solve(w)
      <3>1. wjob'[w] = wjob[w] /\ wbatch'[w] = {} /\ wpc'[w] = "settle" /\ wout'[w] = "done"
        BY <1>4, <2>6 DEF Solve, End, WorkerGuarded, Quiet
      <3> QED
        BY <3>1 DEF WorkerGuarded, Seeking
    <2>7. CASE Settle(w)
      <3>1. /\ wjob'[w] = wjob[w] /\ wbatch'[w] = {} /\ wout'[w] = wout[w]
            /\ wpc'[w] \in {"cache", "clear", "ack"}
            /\ wpc'[w] = "clear" => wout[w] = "republished"
        BY <1>4, <2>7 DEF Settle, AfterSettling, WorkerGuarded, Verdicts, Sourced
      <3> QED
        BY <1>4, <2>0, <2>7, <3>1 DEF WorkerGuarded, Seeking
    <2>8. CASE CacheResult(w)
      <3>1. /\ wjob'[w] = wjob[w] /\ wbatch'[w] = {} /\ wout'[w] = wout[w]
            /\ wpc'[w] \in {"clear", "ack"} /\ HashOf[wjob[w]] \in result'
        BY <1>4, <2>8 DEF CacheResult, AfterSettling, WorkerGuarded
      <3> QED
        BY <1>4, <2>0, <3>1 DEF WorkerGuarded, Seeking
    <2>9. CASE ClearClaim(w)
      <3>1. /\ wjob'[w] = wjob[w] /\ wbatch'[w] = {} /\ wout'[w] = wout[w] /\ wpc'[w] = "ack"
        BY <1>4, <2>9 DEF ClearClaim, WorkerGuarded
      <3> QED
        BY <1>4, <2>0, <2>9, <3>1 DEF WorkerGuarded, Seeking
    <2>10. CASE Ack(w)
      <3>1. wbatch'[w] = {} /\ wout'[w] = "none" /\ wpc'[w] = "loop"
        BY <1>4, <2>10 DEF Ack, Leave, WorkerGuarded
      <3> QED
        BY <3>1 DEF WorkerGuarded, Seeking
    <2> QED
      BY <2>1, <2>2, <2>3, <2>4, <2>5, <2>6, <2>7, <2>8, <2>9, <2>10 DEF QuietWork
  <1>6. SeekersApart'
    <2>1. ASSUME NEW v \in Worker, v # w, wpc[v] \in Seeking, wjob[v] \in Linkest,
                 wpc'[w] \in Seeking, wjob'[w] \in Linkest
          PROVE  HashOf[wjob[v]] # HashOf[wjob[w]]
      <3>1. CASE wpc[w] \in Seeking
        BY <1>5, <2>1, <3>1 DEF Deduped, SeekersApart
      <3>2. CASE LookupResult(w)
        <4>1. HashOf[wjob[w]] \notin result /\ wpc[w] = "lookup"
          BY <2>1, <3>2 DEF LookupResult, End, Seeking
        <4>2. Guarded(wjob[v]) /\ Guarded(wjob[w])
          BY <1>5, <2>1, <4>1 DEF Deduped, WorkerGuarded
        <4>3. wjob[v] # wjob[w]
          BY <2>1, <4>1 DEF Alone, Holds, Seeking
        <4> QED
          BY <4>1, <4>2, <4>3 DEF Guarded
      <3> QED
        BY <1>5, <2>1, <3>1, <3>2
    <2> QED
      BY <1>2, <1>5, <2>1 DEF Deduped, SeekersApart
  <1> QED
    BY <1>1, <1>2, <1>3, <1>5, <1>6, OthersGuarded DEF Deduped

LEMMA DedupedKept ==
  ASSUME IInv, Spared(Disturbances), Alone, Deduped, Quiet, [Next]_vars, asked' = {}
  PROVE  Deduped'
  <1>1. asked = {}
    BY HistoryOnlyGrows DEF vars
  <1>2. CASE UNCHANGED <<keyVars, streamVars, apiVars, workerVars>>
    BY <1>2 DEF keyVars, streamVars, apiVars, workerVars, localVars, Deduped, WorkerGuarded,
       SubmissionGuarded, SeekersApart, Guarded, Exists, Claimed, Added
  <1>3. CASE Next
    <2>1. ASSUME NEW j \in Job, ApiStep(j), UNCHANGED workerVars  PROVE Deduped'
      <3>1. \A i \in Added' \ Added : api[i] = "add" /\ api'[i] # "add"
        BY <1>3, AddedOnlyGrows DEF IInv
      <3> QED
        BY <2>1, <3>1, DedupedApi DEF IInv
    <2>2. CASE PutLands /\ UNCHANGED <<apiVars, workerVars>>
      BY <1>2, <2>2 DEF PutLands
    <2> QED
      BY <1>1, <1>3, <2>1, <2>2, QuietSteps, DedupedWork
  <1> QED
    BY <1>2, <1>3 DEF vars

LEMMA DedupedInit == Init => Deduped
  <1> SUFFICES ASSUME Init  PROVE Deduped
    OBVIOUS
  <1> QED
    BY HashAssumption, JobAssumption DEF Init, StoreInit, ApiInit, WorkerInit, Deduped, WorkerGuarded,
       SubmissionGuarded, SeekersApart, Seeking, Exists, Claimed, Added, Ended

\* As long as no call fails, nothing expires and every solve ends with a result, no
\* two workers solve the same link estimate at the same time, however many
\* submissions race for its claim and whatever simulations share the queue.
THEOREM DedupCorrect ==
  ASSUME Quiet PROVE Spec => []DedupHolds
  <1> DEFINE Inv == /\ IInv /\ Counted /\ Spared(Disturbances) /\ Spared(Mishaps) /\ Alone
                    /\ asked = {} => Deduped
  <1>0. Calm
    BY DEF Quiet
  <1>1. Init => Inv
    <2>1. Init => Spared(Disturbances)
      BY DEF Quiet, Calm, Init, StoreInit, Spared, Disturbances
    <2> QED
      BY <1>0, <2>1, InitIInv, InitCounted, CalmInit, DedupedInit
  <1>2. Inv /\ [Next]_vars => Inv'
    <2>1. Mishaps \in SUBSET Hazard /\ Disturbances \in SUBSET Hazard
      BY BudgetAssumption DEF Mishaps, Disturbances
    <2>2. [Next]_vars /\ asked' = {} => asked = {}
      BY HistoryOnlyGrows DEF vars
    <2> QED
      BY <1>0, <2>1, <2>2, IInvNext, NextKeepsCounted, SparedNext, AloneKept, DedupedKept DEF IInv
  <1>3. Inv => DedupHolds
    <2> SUFFICES ASSUME Inv, NEW v \in Worker, NEW w \in Worker, v # w,
                        At(v, "estimate"), At(w, "estimate"), asked = {}
                 PROVE  HashOf[wjob[v]] # HashOf[wjob[w]]
      BY DEF DedupHolds
    <2> QED
      BY DEF Deduped, WorkerGuarded, SeekersApart, Seeking, At
  <1> HIDE DEF Inv
  <1> QED
    BY <1>1, <1>2, <1>3, PTL DEF Spec

-----------------------------------------------------------------------------
(* The abstract queue.                                                     *)

\* What the mapping rests on besides: entries are numbered as they arrive, a
\* job has no state before its handler runs, and a worker between entries has
\* nothing in hand.
Orderly ==
    /\ trimmed \subseteq Added
    /\ \A j \in Added : id[j] <= Cardinality(Added)
    /\ \A j \in Job : api[j] = "new" => state[j] = "none"
    /\ \A w \in Worker : /\ wpc[w] = "loop" => wbatch[w] = {}
                         /\ wjob[w] \notin wbatch[w]

LEMMA OrderlyInit == Init => Orderly
  BY JobAssumption DEF Init, StoreInit, ApiInit, WorkerInit, Orderly, Added

LEMMA NumberedNext ==
  ASSUME TypeOK, Ownership, Orderly, Next
  PROVE  /\ trimmed' \subseteq Added'
         /\ \A j \in Added' : id'[j] <= Cardinality(Added')
  <1> USE DEF TypeOK, StoreTypeOK
  <1>1. CASE id' = id /\ trimmed' = trimmed
    BY <1>1 DEF Orderly, Added
  <1>2. ASSUME NEW j \in Job, Enqueue(j) \/ (ReplyLost(j) /\ api[j] = "add")
        PROVE  /\ trimmed' \subseteq Added'
               /\ \A i \in Added' : id'[i] <= Cardinality(Added')
    <2>1. XAdd(j) /\ api[j] = "add"
      BY <1>2 DEF Enqueue, ReplyLost
    <2>2. IsFiniteSet(Added) /\ Cardinality(Added) \in Nat /\ j \notin Added
      BY <2>1, JobAssumption, FS_Subset, AddedFinite DEF Added, Ownership
    <2>3. id' = [id EXCEPT ![j] = Cardinality(Added) + 1]
      BY <2>1 DEF XAdd
    <2>4. Added' = Added \union {j}
      <3>1. \A i \in Job : id'[i] > 0 <=> i = j \/ id[i] > 0
        BY <2>2, <2>3
      <3> QED
        BY <3>1 DEF Added
    <2>5. Cardinality(Added') = Cardinality(Added) + 1
      BY <2>2, <2>4, FS_AddElement
    <2>6. trimmed' \subseteq Added'
      BY <2>1, <2>4 DEF XAdd, Orderly
    <2>7. \A i \in Added' : id'[i] <= Cardinality(Added')
      BY <2>2, <2>3, <2>4, <2>5 DEF Orderly, Added
    <2> QED
      BY <2>6, <2>7
  <1> QED
    BY <1>1, <1>2, OnlyAddsAdd

LEMMA UnbornNext ==
  ASSUME TypeOK, Ownership, Orderly, Next, NEW i \in Job, api'[i] = "new"
  PROVE  state'[i] = "none"
  <1> USE DEF TypeOK, StoreTypeOK, ApiTypeOK, Goto, SetState, keyVars
  <1>1. ASSUME NEW j \in Job, ApiStep(j)
        PROVE  api[i] = "new" /\ state'[i] = state[i]
    <2>1. i # j /\ api[i] = "new"
      BY <1>1 DEF ApiStep, PeekClaim, CheckClaim, ClearStale, Create, LookupDurable, AfterMiss,
         ServeDurable, Claim, FindWinner, VerifyWinner, Tidy, StorePayload, Enqueue, UndoClaim,
         FailEnqueue
    <2> QED
      BY <1>1, <2>1 DEF ApiStep, PeekClaim, CheckClaim, ClearStale, Create, LookupDurable,
         ServeDurable, Claim, FindWinner, VerifyWinner, Tidy, StorePayload, Enqueue, UndoClaim,
         FailEnqueue
  <1>2. ASSUME NEW j \in Job, ApiFault(j)
        PROVE  api[i] = "new" /\ state'[i] = state[i]
    <2>1. OnError(j) # "new"
      BY DEF OnError, AfterMiss
    <2> QED
      BY <1>2, <2>1 DEF ApiFault, CallFails, ReplyLost, HandlerDropped
  <1>3. ASSUME NEW w \in Worker, WorkerStep(w) \/ WorkerFault(w), api' = api
        PROVE  api[i] = "new" /\ state'[i] = state[i]
    <2>1. wjob[w] # NoJob => wjob[w] # i
      BY <1>3 DEF Ownership
    <2>2. \/ state' = state
          \/ wjob[w] # NoJob /\ \E v : state' = [state EXCEPT ![wjob[w]] = v]
      BY <1>3 DEF At, WorkerTypeOK, WorkerStep, WorkerFault, Read, Reclaim, NextReclaimed, LookupResult,
         LoadJob, SolveBaseline, LoadEstimate, Solve, Settle, CacheResult, ClearClaim, Ack,
         PoisonFail, PoisonRelease, DeadLetter, Beat, SkipWrite, MissEstimate, CallErrs, Crash
    <2> QED
      BY <1>3, <2>1, <2>2
  <1>4. ASSUME Time
        PROVE  api[i] = "new" /\ state'[i] \in {state[i], "none"}
    BY <1>4 DEF apiVars, Time, GoIdle, StateExpires, RetentionEnds, PayloadExpires, CancelExpires,
       ResultExpires, InflightExpires
  <1>5. ASSUME \/ (PutLands \/ PutLost) /\ api' = api
               \/ \E j \in Job : Cancel(j)
        PROVE  api[i] = "new" /\ state'[i] = state[i]
    BY <1>5 DEF apiVars, PutLands, PutLost, Cancel, RequestCancel
  <1> QED
    BY <1>1, <1>2, <1>3, <1>4, <1>5 DEF Next, apiVars, Orderly

LEMMA HandsNext ==
  ASSUME TypeOK, Orderly, Next, NEW v \in Worker
  PROVE  /\ wpc'[v] = "loop" => wbatch'[v] = {}
         /\ wjob'[v] \notin wbatch'[v]
  <1> USE DEF TypeOK, WorkerTypeOK, Orderly
  <1>1. CASE UNCHANGED workerVars
    BY <1>1 DEF workerVars, localVars
  <1>2. ASSUME NEW w \in Worker, WorkerStep(w)
        PROVE  /\ wpc'[v] = "loop" => wbatch'[v] = {}
               /\ wjob'[v] \notin wbatch'[v]
    <2> USE JobAssumption DEF At, Step, Leave, End, workerVars, localVars, AfterSettling
    <2>1. CASE Read(w)
      BY <1>2, <2>1 DEF Read, Process
    <2>2. CASE Reclaim(w)
      BY <1>2, <2>2 DEF Reclaim, Claimable, StoreTypeOK
    <2>3. CASE NextReclaimed(w)
      BY <1>2, <2>3 DEF NextReclaimed, Process
    <2>4. CASE LookupResult(w) \/ LoadJob(w) \/ SolveBaseline(w) \/ LoadEstimate(w) \/ Solve(w)
      BY <1>2, <2>4 DEF LookupResult, LoadJob, SolveBaseline, LoadEstimate, Solve
    <2>5. CASE \/ Settle(w) \/ CacheResult(w) \/ ClearClaim(w) \/ Ack(w) \/ PoisonFail(w)
               \/ PoisonRelease(w) \/ DeadLetter(w) \/ Beat(w)
      BY <1>2, <2>5 DEF Settle, CacheResult, ClearClaim, Ack, PoisonFail, PoisonRelease,
         DeadLetter, Beat
    <2> QED
      BY <1>2, <2>1, <2>2, <2>3, <2>4, <2>5 DEF WorkerStep
  <1>3. ASSUME NEW w \in Worker, WorkerFault(w)
        PROVE  /\ wpc'[v] = "loop" => wbatch'[v] = {}
               /\ wjob'[v] \notin wbatch'[v]
    BY <1>3 DEF WorkerFault, SkipWrite, MissEstimate, CallErrs, Crash, Abandon, At, Step,
       AfterSettling
  <1> QED
    BY <1>1, <1>2, <1>3, TimeFrame DEF Next, Cancel

LEMMA OrderlyNext == IInv /\ Orderly /\ [Next]_vars => Orderly'
  <1>1. IInv /\ Orderly /\ Next => Orderly'
    BY NumberedNext, UnbornNext, HandsNext DEF IInv, Orderly
  <1>2. Orderly /\ UNCHANGED vars => Orderly'
    BY DEF vars, streamVars, apiVars, keyVars, workerVars, localVars, Orderly, Added
  <1> QED
    BY <1>1, <1>2
-----------------------------------------------------------------------------
(* Each step is one of the abstract queue's, or none.                      *)

Same == UNCHANGED <<Place, id, trimmed, Open, InHand, Called, dead, state>>
Refines == Queue!Next \/ Same

LEMMA PlaceSame ==
  ASSUME UNCHANGED <<id, trimmed, delivered, pel>>
  PROVE  Place' = Place
  BY DEF Place, PlaceOf, Pending, Added, Undelivered

LEMMA OpenSame ==
  ASSUME UNCHANGED api
  PROVE  Open' = Open
  BY DEF Open

LEMMA CalledSame ==
  ASSUME UNCHANGED asked
  PROVE  Called' = Called
  BY DEF Called

LEMMA HandSame ==
  ASSUME UNCHANGED <<wjob, wbatch>>
  PROVE  InHand' = InHand
  BY DEF InHand

\* The places of what is added, pending or neither.
LEMMA Places ==
  ASSUME TypeOK, Ownership, NEW j \in Job
  PROVE  /\ Place[j] = "pending" <=> j \in Pending
         /\ Place[j] = "out" <=> j \notin Added
         /\ Place[j] = "queued" <=> j \in Undelivered
         /\ Place[j] \in {"pending", "out", "queued", "gone"}
  BY DEF Place, PlaceOf, Ownership, Undelivered

LEMMA EntriesAdded ==
  ASSUME TypeOK, Ownership
  PROVE  /\ Queue!Entries = Added /\ Queue!Queued = Undelivered
         /\ Queue!In("pending") = Pending
  <1>1. Added \subseteq Job /\ Undelivered \subseteq Job /\ Pending \subseteq Job
    BY DEF Added, Undelivered, Pending
  <1> QED
    BY <1>1, Places DEF Queue!Entries, Queue!Queued, Queue!In

-----------------------------------------------------------------------------
(* Submissions.                                                            *)

\* What XADD and its trim do.
LEMMA Trims ==
  ASSUME TypeOK, Ownership, Orderly, NEW j \in Job, XAdd(j), j \notin Added
  PROVE  /\ id' \in [Job -> Nat] /\ \A i \in Job \ {j} : id'[i] = id[i]
         /\ id'[j] > 0 /\ \A i \in Added : id[i] < id'[j]
         /\ trimmed \subseteq trimmed' /\ trimmed' \subseteq Added
         /\ \A i \in trimmed' \ trimmed, k \in Added : id[k] <= id[i] => k \in trimmed'
  <1> USE DEF TypeOK, StoreTypeOK
  <1> DEFINE stream == (Added \ trimmed) \union {j}
             newer(i) == {k \in stream \ {i} : k = j \/ (i # j /\ id[k] > id[i])}
  <1>1. /\ id' = [id EXCEPT ![j] = Cardinality(Added) + 1]
        /\ trimmed' \in {trimmed, trimmed \union {i \in stream : Cardinality(newer(i)) >= MaxLen}}
    BY DEF XAdd
  <1>2. Cardinality(Added) \in Nat
    BY AddedFinite
  <1>3. id' \in [Job -> Nat] /\ id'[j] = Cardinality(Added) + 1 /\ \A i \in Job \ {j} : id'[i] = id[i]
    BY <1>1, <1>2
  <1>4. \A i \in Added : id[i] < id'[j]
    BY <1>2, <1>3 DEF Orderly, Added
  <1>5. IsFiniteSet(stream)
    BY JobAssumption, FS_Subset DEF Added
  <1>6. Cardinality(newer(j)) = 0
    <2>1. newer(j) = {}
      OBVIOUS
    <2> QED
      BY <2>1, FS_EmptySet
  <1>7. trimmed' \subseteq Added /\ trimmed \subseteq trimmed'
    <2>1. j \notin {i \in stream : Cardinality(newer(i)) >= MaxLen}
      BY <1>6, MaxLenAssumption
    <2> QED
      BY <1>1, <2>1 DEF Orderly
  <1>8. ASSUME NEW i \in trimmed' \ trimmed, NEW k \in Added, id[k] <= id[i]
        PROVE  k \in trimmed'
    <2>1. CASE k \in trimmed
      BY <1>7, <2>1
    <2>2. CASE k \notin trimmed
      <3>1. /\ i \in stream /\ Cardinality(newer(i)) >= MaxLen
            /\ trimmed' = trimmed \union {m \in stream : Cardinality(newer(m)) >= MaxLen}
        BY <1>1, <1>8
      <3>2. i # j /\ k # j /\ k \in stream /\ i \in Job /\ k \in Job
        BY <1>7, <2>2, <3>1 DEF Added
      <3>3. newer(i) \subseteq newer(k) /\ newer(k) \subseteq stream
        BY <1>8, <3>2 DEF Added
      <3>4. /\ IsFiniteSet(newer(k)) /\ Cardinality(newer(k)) \in Nat
            /\ Cardinality(newer(i)) \in Nat /\ Cardinality(newer(i)) <= Cardinality(newer(k))
        <4> HIDE DEF newer
        <4>1. IsFiniteSet(newer(k))
          BY <1>5, <3>3, FS_Subset
        <4> QED
          BY <3>3, <4>1, FS_Subset, FS_CardinalityType
      <3>5. Cardinality(newer(k)) >= MaxLen
        BY <3>1, <3>4, MaxLenAssumption
      <3> QED
        BY <3>1, <3>2, <3>5
    <2> QED
      BY <2>1, <2>2
  <1> QED
    BY <1>2, <1>3, <1>4, <1>7, <1>8

LEMMA QueuePut ==
  ASSUME TypeOK, Ownership, Orderly, NEW j \in Job, XAdd(j), api[j] = "add",
         Open' \in {Open, Open \ {j}},
         UNCHANGED <<delivered, pel, dead, state, asked, wjob, wbatch>>
  PROVE  Queue!Put(j)
  <1>1. j \notin Added /\ j \notin delivered /\ j \notin trimmed /\ j \notin Pending
    BY DEF Ownership, Orderly
  <1>2. Place[j] = "out" /\ j \in Open
    BY <1>1, Places DEF Open, Ended
  <1>3. Place' = [Queue!Move(Undelivered \intersect trimmed', "gone") EXCEPT ![j] = "queued"]
    <2>1. Pending' = Pending /\ delivered' = delivered
      BY DEF Pending
    <2>2. Added' = Added \union {j}
      BY <1>1, Trims DEF Added
    <2>3. ASSUME NEW i \in Job
          PROVE  Place'[i] = IF i = j THEN "queued"
                             ELSE IF i \in Undelivered \intersect trimmed' THEN "gone" ELSE Place[i]
      <3>1. trimmed \subseteq trimmed' /\ trimmed' \subseteq Added
        BY <1>1, Trims
      <3> QED
        BY <1>1, <2>1, <2>2, <3>1 DEF Place, PlaceOf, Undelivered, Ownership
    <2> QED
      BY <2>3 DEF Place, Queue!Move
  <1>4. InHand' = InHand /\ Called' = Called
    BY HandSame, CalledSame
  <1>5. Queue!Entries = Added /\ Queue!Queued = Undelivered
    BY EntriesAdded
  <1> QED
    BY <1>1, <1>2, <1>3, <1>4, <1>5, Trims DEF Queue!Put

LEMMA QueueApi ==
  ASSUME TypeOK, Ownership, Orderly, NEW j \in Job,
         ApiStep(j) \/ ApiFault(j), UNCHANGED workerVars
  PROVE  Refines
  <1> USE DEF TypeOK, ApiTypeOK, StoreTypeOK, streamVars, keyVars, s3Vars, Goto
  <1>1. UNCHANGED <<delivered, pel, dead, asked, wjob, wbatch>>
    BY DEF workerVars, localVars, ApiStep, PeekClaim, CheckClaim, ClearStale, Create,
       LookupDurable, ServeDurable, Claim, FindWinner, VerifyWinner, Tidy, StorePayload,
       Enqueue, UndoClaim, FailEnqueue, ApiFault, CallFails, ReplyLost, HandlerDropped
  <1>2. InHand' = InHand /\ Called' = Called
    BY <1>1, HandSame, CalledSame
  <1>3. j \in Open /\ Open' \in {Open, Open \ {j}}
    <2>1. api[j] \notin Ended /\ \E pc \in ApiPc : api' = [api EXCEPT ![j] = pc]
      <3>1. OnError(j) \in ApiPc
        BY DEF OnError, AfterMiss, ApiPc, Ended
      <3> QED
        BY <3>1 DEF InHandler, AfterMiss, ApiPc, Ended, ApiStep, PeekClaim, CheckClaim,
           ClearStale, Create, LookupDurable, ServeDurable, Claim, FindWinner, VerifyWinner, Tidy,
           StorePayload, Enqueue, UndoClaim, FailEnqueue, ApiFault, CallFails, ReplyLost,
           HandlerDropped
    <2> QED
      BY <2>1 DEF Open
  <1>4. CASE Enqueue(j) \/ (ReplyLost(j) /\ api[j] = "add")
    <2>1. XAdd(j) /\ api[j] = "add" /\ state' = state
      BY <1>4 DEF Enqueue, ReplyLost
    <2>2. Queue!Put(j)
      BY <1>1, <1>3, <2>1, QueuePut
    <2> QED
      BY <2>2 DEF Refines, Queue!Next
  <1>5. CASE Create(j) \/ ServeDurable(j) \/ Tidy(j) \/ FailEnqueue(j)
    <2>1. UNCHANGED <<id, trimmed>> /\ Place' = Place
      BY <1>1, <1>5, PlaceSame DEF Create, ServeDurable, Tidy, FailEnqueue
    <2>2. PICK v \in {"running", "done", "failed"} :
             /\ state' = [state EXCEPT ![j] = v]
             /\ v # "failed" => api[j] \in {"new", "create", "serve"}
      BY <1>5 DEF Create, ServeDurable, Tidy, FailEnqueue, SetState
    <2>3. v # "failed" => Place[j] = "out"
      BY <2>2, Places DEF Ownership
    <2>4. Queue!Answer(j, v)
      BY <1>1, <1>2, <1>3, <2>1, <2>2, <2>3 DEF Queue!Answer
    <2> QED
      BY <2>4 DEF Refines, Queue!Next
  <1>6. CASE /\ ~(Enqueue(j) \/ (ReplyLost(j) /\ api[j] = "add"))
             /\ ~(Create(j) \/ ServeDurable(j) \/ Tidy(j) \/ FailEnqueue(j))
    <2>1. UNCHANGED <<id, trimmed, state>>
      BY <1>6 DEF ApiStep, PeekClaim, CheckClaim, ClearStale, LookupDurable, Claim,
         FindWinner, VerifyWinner, StorePayload, UndoClaim, ApiFault, CallFails, ReplyLost,
         HandlerDropped
    <2>2. Place' = Place
      BY <1>1, <2>1, PlaceSame
    <2>3. CASE Open' = Open
      BY <1>1, <1>2, <2>1, <2>2, <2>3 DEF Refines, Same
    <2>4. CASE Open' = Open \ {j}
      <3>1. Queue!Withdraw(j)
        BY <1>1, <1>2, <1>3, <2>1, <2>2, <2>4 DEF Queue!Withdraw
      <3> QED
        BY <3>1 DEF Refines, Queue!Next
    <2> QED
      BY <1>3, <2>3, <2>4
  <1> QED
    BY <1>4, <1>5, <1>6
-----------------------------------------------------------------------------
(* Workers.                                                                *)

\* XACK, XCLAIM and XAUTOCLAIM take entries off the pending list.
LEMMA Gone ==
  ASSUME TypeOK, Ownership, NEW S \in SUBSET delivered,
         \A i \in Job : pel'[i] > 0 <=> pel[i] > 0 /\ i \notin S,
         UNCHANGED <<id, trimmed, delivered>>
  PROVE  Place' = Queue!Move(S, "gone")
  <1>1. Added' = Added /\ Undelivered' = Undelivered /\ Pending' = Pending \ S
    BY DEF Added, Undelivered, Pending
  <1>2. S \subseteq Added /\ S \intersect Undelivered = {}
    BY DEF Ownership, Undelivered
  <1>3. ASSUME NEW i \in Job
        PROVE  Place'[i] = IF i \in S THEN "gone" ELSE Place[i]
    BY <1>1, <1>2 DEF Place, PlaceOf
  <1> QED
    BY <1>3 DEF Place, Queue!Move

LEMMA QueueTake ==
  ASSUME TypeOK, Ownership, Orderly, NEW w \in Worker, Read(w), UNCHANGED apiVars
  PROVE  Refines
  <1> USE DEF TypeOK, StoreTypeOK, WorkerTypeOK
  <1>1. PICK j \in Undelivered : /\ \A i \in Undelivered : id[j] <= id[i]
                                 /\ Deliver({j}) /\ Process(w, j)
    BY DEF Read
  <1>2. j \in Added /\ j \in Job /\ j \notin delivered /\ j \notin Pending
    BY <1>1 DEF Undelivered, Added, Ownership
  <1>3. UNCHANGED <<id, trimmed, dead, state, asked, api, wbatch>>
    BY DEF Read, keyVars, apiVars
  <1>4. Place' = Queue!Move({j}, "pending")
    <2>1. Pending' = Pending \union {j}
      BY <1>1, <1>2 DEF Deliver, Pending
    <2>2. Added' = Added /\ Undelivered' = Undelivered \ {j}
      BY <1>1, <1>3 DEF Deliver, Added, Undelivered
    <2>3. ASSUME NEW i \in Job
          PROVE  Place'[i] = IF i \in {j} THEN "pending" ELSE Place[i]
      <3>1. CASE i = j
        BY <2>1, <3>1 DEF Place, PlaceOf
      <3>2. CASE i # j
        <4>1. /\ i \in Pending' <=> i \in Pending
              /\ i \in Added' <=> i \in Added
              /\ i \in Undelivered' <=> i \in Undelivered
          BY <2>1, <2>2, <3>2
        <4> QED
          BY <3>2, <4>1 DEF Place, PlaceOf
      <3> QED
        BY <3>1, <3>2
    <2> QED
      BY <2>3 DEF Place, Queue!Move
  <1>5. InHand[w] = {} /\ InHand' = [InHand EXCEPT ![w] = {j}]
    <2>1. wbatch[w] = {} /\ wjob[w] = NoJob
      BY DEF Read, At, Orderly
    <2>2. wjob' = [wjob EXCEPT ![w] = j]
      BY <1>1 DEF Process
    <2>3. j # NoJob
      BY <1>2, JobAssumption
    <2>4. ASSUME NEW v \in Worker
          PROVE  InHand'[v] = IF v = w THEN {j} ELSE InHand[v]
      BY <1>3, <2>1, <2>2, <2>3 DEF InHand
    <2> QED
      BY <2>1, <2>4 DEF InHand
  <1>6. Queue!Queued = Undelivered
    BY EntriesAdded
  <1>7. Queue!Take(w, j)
    BY <1>1, <1>3, <1>4, <1>5, <1>6, OpenSame, CalledSame DEF Queue!Take
  <1> QED
    BY <1>2, <1>7 DEF Refines, Queue!Next

LEMMA QueueRetake ==
  ASSUME TypeOK, Ownership, Counted, Orderly, NEW w \in Worker, Reclaim(w), UNCHANGED apiVars
  PROVE  Refines
  <1> USE DEF TypeOK, StoreTypeOK, WorkerTypeOK
  <1> DEFINE lost == Claimable \intersect trimmed
             got  == Claimable \ trimmed
  <1>1. /\ pel' = [j \in Job |-> IF j \in got THEN pel[j] + 1
                                 ELSE IF j \in lost THEN 0 ELSE pel[j]]
        /\ wbatch' = [wbatch EXCEPT ![w] = got]
        /\ UNCHANGED <<id, trimmed, delivered, dead, state, asked, api, wjob>>
    BY DEF Reclaim, keyVars, apiVars
  <1>2. Claimable \subseteq Pending
    BY DEF Claimable, Counted
  <1>3. got \in SUBSET (Pending \ trimmed) /\ lost \in SUBSET (Pending \intersect trimmed)
    BY <1>2
  <1>4. Place' = Queue!Move(lost, "gone")
    <2>1. lost \in SUBSET delivered
      BY <1>3 DEF Ownership
    <2>2. \A i \in Job : pel'[i] > 0 <=> pel[i] > 0 /\ i \notin lost
      BY <1>1, <1>3 DEF Pending
    <2> HIDE DEF lost
    <2> QED
      BY <1>1, <2>1, <2>2, Gone
  <1>5. InHand[w] = {} /\ InHand' = [InHand EXCEPT ![w] = got]
    <2>1. wbatch[w] = {} /\ wjob[w] = NoJob
      BY DEF Reclaim, At, Orderly
    <2> HIDE DEF got
    <2> QED
      BY <1>1, <2>1 DEF InHand
  <1>6. Queue!In("pending") = Pending
    BY EntriesAdded
  <1>7. Queue!Retake(w)
    <2> HIDE DEF got, lost
    <2> QED
      BY <1>1, <1>3, <1>4, <1>5, <1>6, OpenSame, CalledSame DEF Queue!Retake
  <1> QED
    BY <1>7 DEF Refines, Queue!Next

\* A heartbeat drops an entry that was trimmed.
LEMMA QueueRenew ==
  ASSUME TypeOK, Ownership, NEW j \in delivered, pel' = pel \/ Renew(j), InHand' = InHand,
         UNCHANGED <<id, trimmed, delivered, dead, state, asked, api>>
  PROVE  Refines
  <1> USE DEF TypeOK, StoreTypeOK
  <1>1. Open' = Open /\ Called' = Called
    BY OpenSame, CalledSame
  <1>2. CASE pel' = pel
    BY <1>1, <1>2, PlaceSame DEF Refines, Same
  <1>3. CASE pel' # pel
    <2>1. j \in trimmed /\ pel' = [pel EXCEPT ![j] = 0] /\ j \in Job
      BY <1>3 DEF Renew
    <2>2. pel[j] > 0
      BY <1>3, <2>1
    <2>3. Place' = Queue!Move({j}, "gone")
      <3>1. {j} \in SUBSET delivered /\ \A i \in Job : pel'[i] > 0 <=> pel[i] > 0 /\ i \notin {j}
        BY <2>1
      <3> QED
        BY <3>1, Gone
    <2>4. Place[j] = "pending"
      BY <2>1, <2>2, Places DEF Pending
    <2>5. Queue!Drop(j)
      BY <1>1, <2>1, <2>3, <2>4 DEF Queue!Drop
    <2> QED
      BY <2>1, <2>5 DEF Refines, Queue!Next
  <1> QED
    BY <1>2, <1>3

LEMMA QueueNext ==
  ASSUME TypeOK, Ownership, Orderly, NEW w \in Worker, NextReclaimed(w), UNCHANGED apiVars
  PROVE  Refines
  <1> USE DEF TypeOK, StoreTypeOK, WorkerTypeOK
  <1>1. PICK j \in wbatch[w] :
          /\ wbatch' = [wbatch EXCEPT ![w] = @ \ {j}] /\ wjob' = [wjob EXCEPT ![w] = j]
          /\ pel' = pel \/ Renew(j)
    BY DEF NextReclaimed, Process
  <1>2. UNCHANGED <<id, trimmed, delivered, dead, state, asked, api>>
    BY DEF NextReclaimed, keyVars, apiVars
  <1>3. j \in delivered /\ wjob[w] = NoJob /\ j # NoJob
    BY <1>1, JobAssumption DEF Ownership, NextReclaimed, At
  <1>4. InHand' = InHand
    BY <1>1, <1>3 DEF InHand
  <1> QED
    BY <1>1, <1>2, <1>3, <1>4, QueueRenew

\* A worker returns from an entry, or fails with all it has.
LEMMA QueueLetGo ==
  ASSUME TypeOK, NEW w \in Worker, wjob' = [wjob EXCEPT ![w] = NoJob],
         wbatch' \in {wbatch, [wbatch EXCEPT ![w] = {}]},
         UNCHANGED <<id, trimmed, delivered, pel, dead, state, asked, api>>
  PROVE  Refines
  <1> USE DEF TypeOK, WorkerTypeOK
  <1>1. InHand' = [InHand EXCEPT ![w] = wbatch'[w]] /\ wbatch'[w] \in SUBSET InHand[w]
    BY DEF InHand
  <1>2. Queue!LetGo(w)
    BY <1>1, PlaceSame, OpenSame, CalledSame DEF Queue!LetGo
  <1> QED
    BY <1>2 DEF Refines, Queue!Next

LEMMA QueueDecide ==
  ASSUME TypeOK, NEW w \in Worker, wjob[w] # NoJob, NEW v \in {"done", "failed", "cancelled"},
         state' = [state EXCEPT ![wjob[w]] = v], v = "cancelled" => Requested(wjob[w]),
         InHand' \in {InHand, [InHand EXCEPT ![w] = {}]},
         UNCHANGED <<id, trimmed, delivered, pel, dead, asked, api>>
  PROVE  Refines
  <1> USE DEF TypeOK, WorkerTypeOK
  <1>1. wjob[w] \in Job /\ wjob[w] \in InHand[w]
    BY DEF InHand
  <1>2. v = "cancelled" => wjob[w] \in Called
    BY <1>1 DEF Called, Requested
  <1>3. Queue!Decide(w, wjob[w], v)
    BY <1>1, <1>2, PlaceSame, OpenSame, CalledSame DEF Queue!Decide
  <1> QED
    BY <1>1, <1>3 DEF Refines, Queue!Next

LEMMA VerdictKinds ==
  ASSUME NEW out \in Out \ {"none"}
  PROVE  /\ Verdict(out) \in {"done", "failed", "cancelled"}
         /\ Verdict(out) = "cancelled" => out = "cancelled"
  BY DEF Out, Verdict

LEMMA QueueDone ==
  ASSUME TypeOK, Ownership, Stages, Orderly, NEW w \in Worker, Ack(w), UNCHANGED apiVars
  PROVE  Refines
  <1> USE DEF TypeOK, StoreTypeOK, WorkerTypeOK
  <1> DEFINE j == wjob[w]
  <1>1. At(w, "ack") /\ j # NoJob /\ j \in Job /\ j \in delivered /\ j \in Added
    BY DEF Ack, At, Ownership
  <1>2. /\ pel' = [pel EXCEPT ![j] = 0] /\ wjob' = [wjob EXCEPT ![w] = NoJob] /\ wbatch' = wbatch
        /\ UNCHANGED <<id, trimmed, delivered, dead, state, asked, api>>
    BY DEF Ack, XAck, Leave, keyVars, apiVars
  <1>3. InHand' = [InHand EXCEPT ![w] = @ \ {j}] /\ j \in InHand[w]
    BY <1>1, <1>2 DEF InHand, Orderly
  <1>4. Place' = Queue!Move({j}, "gone")
    <2>1. {j} \in SUBSET delivered /\ \A i \in Job : pel'[i] > 0 <=> pel[i] > 0 /\ i \notin {j}
      BY <1>1, <1>2
    <2> QED
      BY <1>2, <2>1, Gone
  <1>5. Place[j] \in {"pending", "gone"}
    BY <1>1, Places DEF Undelivered
  <1>6. state[j] = "running" => j \in dead \union trimmed
    BY <1>1 DEF Stages, Finishing, Settled, At
  <1>7. Queue!Done(w, j)
    BY <1>2, <1>3, <1>4, <1>5, <1>6, OpenSame, CalledSame DEF Queue!Done
  <1> QED
    BY <1>1, <1>7 DEF Refines, Queue!Next

LEMMA QueueWorker ==
  ASSUME IInv, Counted, Orderly, NEW w \in Worker, WorkerStep(w), UNCHANGED apiVars
  PROVE  Refines
  <1> USE DEF IInv, TypeOK, WorkerTypeOK
  <1>0. UNCHANGED api
    BY DEF apiVars
  <1>1. CASE Read(w) \/ Reclaim(w) \/ NextReclaimed(w) \/ Ack(w)
    BY <1>1, QueueTake, QueueRetake, QueueNext, QueueDone
  <1>2. CASE LookupResult(w) \/ LoadJob(w) \/ SolveBaseline(w) \/ LoadEstimate(w) \/ Solve(w)
    <2>1. UNCHANGED <<id, trimmed, delivered, pel, dead, state, asked>>
      BY <1>2 DEF LookupResult, LoadJob, SolveBaseline, LoadEstimate, Solve, keyVars, streamVars
    <2>2. wbatch' = wbatch /\ wjob' \in {wjob, [wjob EXCEPT ![w] = NoJob]}
      BY <1>2 DEF LookupResult, LoadJob, SolveBaseline, LoadEstimate, Solve, Leave, End
    <2>3. CASE wjob' = wjob
      BY <1>0, <2>1, <2>2, <2>3, PlaceSame, OpenSame, CalledSame, HandSame DEF Refines, Same
    <2> QED
      BY <1>0, <2>1, <2>2, <2>3, QueueLetGo
  <1>3. CASE Settle(w) \/ PoisonFail(w)
    <2>1. wjob[w] # NoJob /\ InHand' = InHand
          /\ UNCHANGED <<id, trimmed, delivered, pel, dead, asked>>
      BY <1>3, HandSame DEF Settle, PoisonFail, At, streamVars
    <2>2. PICK v \in {"done", "failed", "cancelled"} :
            state' = [state EXCEPT ![wjob[w]] = v] /\ (v = "cancelled" => Requested(wjob[w]))
      BY <1>3, VerdictKinds DEF Settle, PoisonFail, At, SetState, Verdicts, Sourced
    <2> QED
      BY <1>0, <2>1, <2>2, QueueDecide
  <1>4. CASE CacheResult(w) \/ ClearClaim(w) \/ PoisonRelease(w)
    <2>1. UNCHANGED <<id, trimmed, delivered, pel, dead, state, asked, wjob, wbatch>>
      BY <1>4 DEF CacheResult, ClearClaim, PoisonRelease, streamVars
    <2> QED
      BY <1>0, <2>1, PlaceSame, OpenSame, CalledSame, HandSame DEF Refines, Same
  <1>5. CASE DeadLetter(w)
    <2>1. /\ UNCHANGED <<id, trimmed, delivered, pel, state, asked, wjob, wbatch>>
          /\ dead' = dead \union {wjob[w]} /\ wjob[w] # NoJob
      BY <1>5 DEF DeadLetter, At, keyVars
    <2>2. wjob[w] \in Job /\ wjob[w] \in InHand[w]
      BY <2>1 DEF InHand
    <2>3. Queue!Bury(w, wjob[w])
      BY <1>0, <2>1, <2>2, PlaceSame, OpenSame, CalledSame, HandSame DEF Queue!Bury
    <2> QED
      BY <2>2, <2>3 DEF Refines, Queue!Next
  <1>6. CASE Beat(w)
    <2>1. /\ UNCHANGED <<id, trimmed, delivered, dead, state, asked, wjob, wbatch>>
          /\ Renew(wjob[w]) /\ wjob[w] \in delivered
      BY <1>6 DEF Beat, keyVars, workerVars, localVars, Ownership
    <2> QED
      BY <1>0, <2>1, QueueRenew, HandSame
  <1> QED
    BY <1>1, <1>2, <1>3, <1>4, <1>5, <1>6 DEF WorkerStep

LEMMA QueueWorkerFault ==
  ASSUME IInv, Orderly, NEW w \in Worker, WorkerFault(w), UNCHANGED apiVars
  PROVE  Refines
  <1> USE DEF IInv, TypeOK, WorkerTypeOK
  <1>0. UNCHANGED <<id, trimmed, delivered, pel, dead, asked, api>>
    BY DEF WorkerFault, SkipWrite, MissEstimate, CallErrs, Crash, streamVars, apiVars
  <1>1. CASE SkipWrite(w) \/ MissEstimate(w)
    <2>1. UNCHANGED <<state, wjob, wbatch>>
      BY <1>1 DEF SkipWrite, MissEstimate, keyVars
    <2> QED
      BY <1>0, <2>1, PlaceSame, OpenSame, CalledSame, HandSame DEF Refines, Same
  <1>2. CASE (CallErrs(w) \/ Crash(w)) /\ state' = state
    BY <1>0, <1>2, QueueLetGo DEF CallErrs, Crash, Abandon
  <1>3. CASE CallErrs(w) /\ state' # state
    <2>1. wpc[w] = "settle" /\ SetState(wjob[w], Verdict(wout[w])) /\ Abandon(w)
      BY <1>3 DEF CallErrs, At
    <2>2. InHand' = [InHand EXCEPT ![w] = {}]
      BY <2>1 DEF Abandon, InHand
    <2>3. /\ wjob[w] # NoJob /\ Verdict(wout[w]) \in {"done", "failed", "cancelled"}
          /\ Verdict(wout[w]) = "cancelled" => Requested(wjob[w])
      BY <2>1, VerdictKinds DEF Verdicts, Sourced
    <2> QED
      BY <1>0, <2>1, <2>2, <2>3, QueueDecide DEF SetState
  <1> QED
    BY <1>1, <1>2, <1>3 DEF WorkerFault, Crash, keyVars

-----------------------------------------------------------------------------
(* Time, callers and detached writes.                                      *)

LEMMA QueueExpire ==
  ASSUME TypeOK, Ownership, Orderly, NEW j \in Job, StateExpires(j) \/ RetentionEnds(j)
  PROVE  Refines
  <1> USE DEF TypeOK, StoreTypeOK, ApiTypeOK, WorkerTypeOK
  <1>1. /\ UNCHANGED <<id, trimmed, delivered, pel, dead, asked, api, wjob, wbatch>>
        /\ state[j] # "none" /\ state' = [state EXCEPT ![j] = "none"] /\ ~InHandler(j)
    BY DEF StateExpires, RetentionEnds, SetState, streamVars, apiVars, workerVars, localVars,
       Terminal
  <1>2. j \notin Open
    BY <1>1 DEF Open, InHandler, Orderly
  <1>3. state[j] # "running" =>
            Place[j] \in {"out", "gone"} /\ \A w \in Worker : j \notin InHand[w]
    BY Places DEF StateExpires, RetentionEnds, Held, InHand
  <1>4. Queue!Expire(j)
    BY <1>1, <1>2, <1>3, PlaceSame, OpenSame, CalledSame, HandSame DEF Queue!Expire
  <1> QED
    BY <1>4 DEF Refines, Queue!Next

LEMMA QueueTime ==
  ASSUME TypeOK, Ownership, Orderly, Time
  PROVE  Refines
  <1>1. ASSUME NEW j \in Job, StateExpires(j) \/ RetentionEnds(j)  PROVE Refines
    BY <1>1, QueueExpire
  <1>2. CASE \/ \E j \in Job : GoIdle(j) \/ PayloadExpires(j) \/ CancelExpires(j)
             \/ \E h \in Hash : ResultExpires(h) \/ InflightExpires(h)
    <2>1. UNCHANGED <<id, trimmed, delivered, pel, dead, state, asked, api, wjob, wbatch>>
      BY <1>2 DEF GoIdle, PayloadExpires, CancelExpires, ResultExpires, InflightExpires,
         keyVars, streamVars, apiVars, workerVars, localVars
    <2> QED
      BY <2>1, PlaceSame, OpenSame, CalledSame, HandSame DEF Refines, Same
  <1> QED
    BY <1>1, <1>2 DEF Time

LEMMA QueueCall ==
  ASSUME TypeOK, NEW j \in Job, Cancel(j)
  PROVE  Refines
  <1> USE DEF TypeOK, StoreTypeOK
  <1>1. /\ UNCHANGED <<id, trimmed, delivered, pel, dead, state, api, wjob, wbatch>>
        /\ state[j] # "none" /\ asked' = asked \union {<<j, state[j]>>}
    BY DEF Cancel, RequestCancel, Exists, streamVars, apiVars, workerVars, localVars
  <1>2. Called' = Called \union {j}
    BY <1>1 DEF Called
  <1>3. Queue!Call(j)
    BY <1>1, <1>2, PlaceSame, OpenSame, HandSame DEF Queue!Call
  <1> QED
    BY <1>3 DEF Refines, Queue!Next

LEMMA QueueStep == IInv /\ Counted /\ Orderly /\ [Next]_vars => Refines
  <1> SUFFICES ASSUME IInv, Counted, Orderly, [Next]_vars  PROVE Refines
    OBVIOUS
  <1>1. CASE (PutLands \/ PutLost) /\ UNCHANGED <<apiVars, workerVars>>
    <2>1. UNCHANGED <<id, trimmed, delivered, pel, dead, state, asked, api, wjob, wbatch>>
      BY <1>1 DEF PutLands, PutLost, keyVars, streamVars, apiVars, workerVars, localVars
    <2> QED
      BY <2>1, PlaceSame, OpenSame, CalledSame, HandSame DEF Refines, Same
  <1>2. CASE UNCHANGED vars
    <2>1. UNCHANGED <<id, trimmed, delivered, pel, dead, state, asked, api, wjob, wbatch>>
      BY <1>2 DEF vars, keyVars, streamVars, apiVars, workerVars, localVars
    <2> QED
      BY <2>1, PlaceSame, OpenSame, CalledSame, HandSame DEF Refines, Same
  <1> QED
    BY <1>1, <1>2, QueueApi, QueueWorker, QueueWorkerFault, QueueTime, QueueCall DEF Next, IInv

LEMMA QueueInit == Init => Queue!Init
  <1> SUFFICES ASSUME Init  PROVE Queue!Init
    OBVIOUS
  <1>1. /\ id = [j \in Job |-> 0] /\ trimmed = {} /\ dead = {} /\ asked = {}
        /\ state = [j \in Job |-> "none"] /\ pel = [j \in Job |-> 0]
        /\ api = [j \in Job |-> "new"] /\ wjob = [w \in Worker |-> NoJob]
        /\ wbatch = [w \in Worker |-> {}]
    BY DEF Init, StoreInit, ApiInit, WorkerInit
  <1>2. Place = [j \in Job |-> "out"]
    <2>1. Pending = {} /\ Added = {}
      BY <1>1 DEF Pending, Added
    <2> QED
      BY <2>1 DEF Place, PlaceOf
  <1>3. Open = Job /\ InHand = [w \in Worker |-> {}] /\ Called = {}
    BY <1>1 DEF Open, Ended, InHand, Called
  <1> QED
    BY <1>1, <1>2, <1>3 DEF Queue!Init

\* Handlers, workers, heartbeats and expiries, with every crash, lapse, failed
\* call and lost reply, implement a queue that reads entries in their order,
\* hands one out again until it is acknowledged, and lets it go only with a
\* verdict that its submission or a worker that has it in hand has written.
THEOREM QueueImplemented == Spec => ImplementsAtLeastOnce
  <1>1. Refines => [Queue!Next]_(Queue!abstractVars)
    BY DEF Refines, Same, Queue!abstractVars
  <1> QED
    BY <1>1, QueueInit, QueueStep, Invariance, InitCounted, NextKeepsCounted, OrderlyInit,
       OrderlyNext, PTL DEF Spec, ImplementsAtLeastOnce, Queue!Spec
=============================================================================
