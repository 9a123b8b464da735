---------------------------- MODULE BrowserProofs ----------------------------
(***************************************************************************)
(* Theorems about what starts jobs from the browser: SimulateTab, for any  *)
(* number of runs, scenarios, failures and attempts, and LinkEstimate, for *)
(* any number of viewers, pairs and effects.                               *)
(*                                                                         *)
(* The tab: types, no locked control or loader without a loop, no job that *)
(* nobody tracks, and a verdict at the end of every loop.  A run the       *)
(* reader has not seen yet (a shared link's) is the only one there has     *)
(* been (Unseen), so that the modal it opens is its own; a cancel takes    *)
(* the modal away (Seen); and while no run began beside another,           *)
(* cancelledRef and jobIdRef are those of the one that is alive (Single),  *)
(* so that a cancel reaches its job.                                       *)
(*                                                                         *)
(* The estimate: types, values shown belong to the selection, and no job   *)
(* runs that nobody polls or has tried to cancel.  What an effect knows at *)
(* each of its stages (EffectKnows) ties it to a job of its own pair; a    *)
(* job keeps its pair while an effect holds it, and an effect lets go of a *)
(* running job only after a DELETE.                                        *)
(***************************************************************************)
EXTENDS SimulateTab, LinkEstimate, TLAPS

-----------------------------------------------------------------------------
(* The tab.                                                                *)

\* Before its first effect.
Mounted == autoRun =>
    /\ shared /\ ~modal /\ ~cancelled /\ ~overlapped
    /\ \A r \in Run : run[r].at = "unused"

\* A deferred run still without its modal.
Unseen == \A r \in Run : Live(r) /\ ~run[r].opened =>
    /\ shared /\ loading /\ result = None /\ ~modal /\ ~cancelled
    /\ \A q \in Run \ {r} : run[q].at = "unused"

\* A run with its modal.
Seen ==
    /\ cancelled => jobState # "running"
    /\ ~overlapped /\ ~cancelled =>
          \A r \in Run : Live(r) /\ run[r].opened => modal /\ jobState = "running"

\* One run at a time.
Single == ~overlapped => \A r \in Run :
    /\ Live(r) => \A q \in Run : Live(q) => q = r
    /\ run[r].at \in {"poll", "heard"} => jobId = r

\* Its job needs no more tracking, or is being cancelled.
LetGo(r) == job[r] # "running" \/ cancels[r] > 0 \/ r \in unconfirmed

\* What a loop knows at each stage.
Knows == \A r \in Run :
    /\ Live(r) => run[r].edits \in Scenario
    /\ run[r].at = "posted" =>
          /\ run[r].heard \in {"none", "refused", "lost"}
          /\ run[r].heard = "refused" => job[r] = "none"
    /\ run[r].at = "post" => job[r] = "none" /\ run[r].heard = "none"
    /\ run[r].at = "unused" => job[r] = "none"
    /\ run[r].at = "poll" => run[r].heard = "none"
    /\ run[r].at = "heard" =>
          /\ run[r].heard \in {"blip", "running", "done", "failed", "cancelled"}
          /\ run[r].heard \in {"done", "failed", "cancelled"} => job[r] # "running"
    /\ ~overlapped /\ cancelled /\ run[r].at \in {"poll", "heard"} => LetGo(r)

IInv ==
    /\ TabTypeOK /\ Mounted /\ Unseen /\ Seen /\ Single /\ Knows
    /\ BusyIsLive /\ JobsTracked

LEMMA Bounds ==
  /\ 0 \in 0..MaxPollFailures - 1 /\ MaxCancelAttempts \in Nat \ {0}
  /\ None \notin Scenario /\ None \notin Run
  BY TabAssumption DEF Run

LEMMA InitIInv == TabInit => IInv
  <1> SUFFICES ASSUME TabInit PROVE IInv
    OBVIOUS
  <1>1. Idle \in Loop /\ Idle.at = "unused"
    BY Bounds DEF Idle, Loop
  <1>2. /\ \A r \in Run : run[r] = Idle /\ job[r] = "none" /\ ~Live(r)
        /\ ~modal
    BY <1>1 DEF TabInit, Live
  <1>3. TabTypeOK
    <2>1. /\ scenario \in Scenario /\ result = None /\ run = [r \in Run |-> Idle]
          /\ loading \in BOOLEAN /\ autoRun \in BOOLEAN /\ ~overlapped
          /\ ~error /\ ~modal /\ ~cancelled
          /\ job = [r \in Run |-> "none"] /\ cancels = [r \in Run |-> 0]
          /\ jobState \in {"running", "confirming"} /\ jobId = None /\ unconfirmed = {}
      BY DEF TabInit
    <2>2. /\ run \in [Run -> Loop]
          /\ job \in [Run -> {"none", "running", "cancelling", "over", "cancelled"}]
          /\ cancels \in [Run -> 0..MaxCancelAttempts]
          /\ unconfirmed \subseteq Run
      BY <1>1, <2>1, Bounds
    <2>3. /\ error \in BOOLEAN /\ modal \in BOOLEAN /\ cancelled \in BOOLEAN
          /\ shared \in BOOLEAN /\ overlapped \in BOOLEAN
      BY <2>1 DEF TabInit
    <2> QED  BY <2>1, <2>2, <2>3 DEF TabTypeOK
  <1>4. Mounted /\ Unseen /\ Seen /\ Single /\ Knows
    BY <1>1, <1>2 DEF TabInit, Mounted, Unseen, Seen, Single, Knows
  <1>5. BusyIsLive /\ JobsTracked
    BY <1>2 DEF TabInit, BusyIsLive, JobsTracked, AnyLive, RunningCard
  <1> QED
    BY <1>3, <1>4, <1>5 DEF IInv

-----------------------------------------------------------------------------
(* The user. *)

LEMMA OpensModal ==
  ASSUME IInv, OpenModal
  PROVE  IInv'
  BY DEF OpenModal, Ready, CalculateEnabled, refs, service,
     IInv, TabTypeOK, Mounted, Unseen, Seen, Single, Knows, LetGo,
     BusyIsLive, JobsTracked, Tracked, Live, AnyLive, RunningCard, SharedLoader

LEMMA ClosesModal ==
  ASSUME IInv, CloseModal
  PROVE  IInv'
  <1>1. /\ modal /\ modal' = FALSE /\ jobState # "running"
        /\ UNCHANGED <<scenario, result, loading, error, jobState, cancelled, jobId, shared,
                       autoRun, overlapped, run, job, cancels, unconfirmed>>
    BY DEF CloseModal, refs, service
  <1>2. TabTypeOK' /\ Mounted' /\ Unseen' /\ Seen' /\ Single'
    BY <1>1 DEF IInv, TabTypeOK, Mounted, Unseen, Seen, Single, Live
  <1>3. Knows' /\ JobsTracked'
    BY <1>1 DEF IInv, Knows, LetGo, JobsTracked, Tracked, Live
  <1>4. BusyIsLive'
    BY <1>1 DEF IInv, Seen, Unseen, BusyIsLive, AnyLive, Live, RunningCard, SharedLoader
  <1> QED
    BY <1>2, <1>3, <1>4 DEF IInv

LEMMA Edits ==
  ASSUME IInv, EditScenario
  PROVE  IInv'
  BY DEF EditScenario, Ready, refs, service,
     IInv, TabTypeOK, Mounted, Unseen, Seen, Single, Knows, LetGo,
     BusyIsLive, JobsTracked, Tracked, Live, AnyLive, RunningCard, SharedLoader

\* handleSimulate up to its POST: the first run with its modal to come, or one
\* confirmed in its modal.
LEMMA Begins ==
  ASSUME IInv, NEW r \in Run, NEW deferred \in BOOLEAN, Begin(r, deferred),
         deferred => autoRun,
         ~deferred => modal /\ jobState' = "running",
         autoRun' = FALSE, UNCHANGED <<scenario, modal, shared, service>>,
         jobState' \in {"confirming", "running", "done", "error"}
  PROVE  IInv'
  <1> DEFINE started == [Idle EXCEPT !.at = "post", !.edits = scenario, !.opened = ~deferred]
  <1>1. /\ started \in Loop
        /\ started.at = "post" /\ started.edits = scenario
        /\ started.opened = ~deferred /\ started.heard = "none"
    BY Bounds DEF Idle, Loop, IInv, TabTypeOK
  <1> HIDE DEF started
  <1>2. /\ run[r].at = "unused" /\ run' = [run EXCEPT ![r] = started]
        /\ loading' = TRUE /\ error' = FALSE /\ result' = None
        /\ cancelled' = FALSE /\ jobId' = None
        /\ overlapped' = (overlapped \/ AnyLive)
        /\ job' = job /\ cancels' = cancels /\ unconfirmed' = unconfirmed
    BY DEF Begin, service, started
  <1>3. /\ run'[r] = started /\ Live(r)' /\ ~Live(r)
        /\ \A q \in Run \ {r} : run'[q] = run[q] /\ (Live(q)' <=> Live(q))
    BY <1>1, <1>2 DEF IInv, TabTypeOK, Live
  <1>4. ~overlapped' => \A q \in Run : ~Live(q)
    BY <1>2 DEF AnyLive
  <1>5. TabTypeOK'
    BY <1>1, <1>2 DEF IInv, TabTypeOK, service
  <1>6. Mounted'
    BY DEF Mounted
  <1>7. Unseen'
    <2>1. CASE deferred
      BY <1>2, <1>3, <2>1 DEF IInv, Mounted, Unseen, Live
    <2>2. CASE ~deferred
      \* The modal is there, so nobody is without one.
      BY <1>1, <1>3, <2>2 DEF IInv, Unseen
    <2> QED  BY <2>1, <2>2
  <1>8. Seen' /\ Single'
    BY <1>1, <1>2, <1>3, <1>4 DEF Seen, Single, Live
  <1>9. Knows'
    BY <1>1, <1>2, <1>3 DEF IInv, TabTypeOK, Knows
  <1>10. BusyIsLive'
    <2>1. AnyLive'
      BY <1>3 DEF AnyLive
    <2>2. SharedLoader' \/ RunningCard'
      BY <1>2 DEF IInv, Mounted, SharedLoader, RunningCard
    <2> QED  BY <2>1, <2>2 DEF BusyIsLive
  <1>11. JobsTracked'
    BY <1>2, <1>3 DEF IInv, JobsTracked, Tracked
  <1> QED
    BY <1>5, <1>6, <1>7, <1>8, <1>9, <1>10, <1>11 DEF IInv

LEMMA RunsShared ==
  ASSUME IInv, AutoRun
  PROVE  IInv'
  <1>1. PICK r \in Run : Begin(r, TRUE)
    BY DEF AutoRun
  <1>2. autoRun /\ autoRun' = FALSE /\ UNCHANGED <<scenario, modal, jobState, shared, service>>
    BY DEF AutoRun
  <1> QED
    BY <1>1, <1>2, Begins DEF IInv, TabTypeOK

LEMMA Confirms ==
  ASSUME IInv, Confirm
  PROVE  IInv'
  <1>1. PICK r \in Run : Begin(r, FALSE)
    BY DEF Confirm
  <1>2. /\ modal /\ jobState' = "running" /\ autoRun = FALSE
        /\ UNCHANGED <<scenario, modal, shared, autoRun, service>>
    BY DEF Confirm, ConfirmCard, IInv, TabTypeOK, Mounted
  <1> QED
    BY <1>1, <1>2, Begins DEF IInv, TabTypeOK

\* Asking for a cancel takes nothing from what is under way.
LEMMA AskedFacts ==
  ASSUME IInv, NEW id \in Run \cup {None}
  PROVE  /\ Asked(id) \in [Run -> 0..MaxCancelAttempts]
         /\ \A q \in Run : cancels[q] > 0 => Asked(id)[q] > 0
         /\ id \in Run => Asked(id)[id] > 0
  BY Bounds DEF Asked, IInv, TabTypeOK

LEMMA CancelsInModal ==
  ASSUME IInv, ModalCancel
  PROVE  IInv'
  <1>1. /\ modal /\ modal' = FALSE /\ jobState' = "confirming"
        /\ UNCHANGED <<scenario, result, jobId, shared, autoRun, overlapped, run, job, unconfirmed>>
    BY DEF ModalCancel, ConfirmCard, FailedCard, RunningCard
  <1>2. CASE /\ jobState # "running"
             /\ error' \in BOOLEAN
             /\ UNCHANGED <<loading, cancelled, cancels>>
    BY <1>1, <1>2
    DEF IInv, TabTypeOK, Mounted, Unseen, Seen, Single, Knows, LetGo, BusyIsLive, JobsTracked,
        Tracked, Live, AnyLive, RunningCard, SharedLoader
  <1>3. CASE cancelled' = TRUE /\ loading' = FALSE /\ cancels' = Asked(jobId) /\ UNCHANGED error
    <2>1. /\ cancels' \in [Run -> 0..MaxCancelAttempts]
          /\ \A q \in Run : cancels[q] > 0 => cancels'[q] > 0
          /\ jobId \in Run => cancels'[jobId] > 0
      BY <1>3, AskedFacts DEF IInv, TabTypeOK
    <2>2. TabTypeOK' /\ Mounted'
      BY <1>1, <1>3, <2>1 DEF IInv, TabTypeOK, Mounted
    <2>3. Unseen' /\ Seen' /\ Single'
      BY <1>1, <1>3 DEF IInv, Unseen, Seen, Single, Live
    <2>4. Knows'
      BY <1>1, <1>3, <2>1 DEF IInv, Single, Knows, LetGo, Live
    <2>5. BusyIsLive' /\ JobsTracked'
      BY <1>1, <1>3, <2>1 DEF IInv, BusyIsLive, RunningCard, JobsTracked, Tracked, Live
    <2> QED  BY <2>2, <2>3, <2>4, <2>5 DEF IInv
  <1> QED
    BY <1>2, <1>3 DEF ModalCancel, ConfirmCard, FailedCard, IInv, TabTypeOK

-----------------------------------------------------------------------------
(* The end of a loop. *)

LEMMA LoopEnds ==
  ASSUME IInv, NEW r \in Run, Live(r), Ends(r),
         UNCHANGED <<scenario, cancelled, shared, autoRun, overlapped, job, unconfirmed>>,
         modal' \in BOOLEAN, modal' => modal, error' \in BOOLEAN,
         jobState' \in {"confirming", "running", "done", "error"},
         cancelled => jobState' # "running",
         cancelled \/ ~modal' \/ jobState' # "running",
         result' \in Scenario \cup {None}, jobId' \in Run \cup {None},
         cancels' = cancels \/ cancels' = Asked(r),
         ~overlapped => LetGo(r) \/ cancels' = Asked(r) \/ run[r].heard = "lost"
  PROVE  IInv'
  <1> DEFINE over == [Idle EXCEPT !.at = "ended",
                                  !.heard = IF run[r].heard = "lost" THEN "lost" ELSE "none"]
  <1>1. /\ over \in Loop /\ over.at = "ended"
        /\ run[r].heard = "lost" => over.heard = "lost"
    BY Bounds DEF Idle, Loop
  <1>2. run' = [run EXCEPT ![r] = over] /\ loading' = FALSE
    BY DEF Ends
  <1> HIDE DEF over
  <1>3. /\ run'[r] = over /\ ~Live(r)'
        /\ \A q \in Run \ {r} : run'[q] = run[q] /\ (Live(q)' <=> Live(q))
    BY <1>1, <1>2 DEF IInv, TabTypeOK, Live
  <1>4. \A q \in Run : Live(q)' => run[q].opened /\ overlapped
    BY <1>3 DEF IInv, Unseen, Single, Live
  <1>5. /\ cancels' \in [Run -> 0..MaxCancelAttempts]
        /\ \A q \in Run : cancels[q] > 0 => cancels'[q] > 0
        /\ cancels' = Asked(r) => cancels'[r] > 0
    BY AskedFacts DEF IInv, TabTypeOK
  <1>6. TabTypeOK'
    BY <1>1, <1>2, <1>5 DEF IInv, TabTypeOK
  <1>7. Mounted'
    BY DEF IInv, Mounted, Live
  <1>8. Unseen' /\ Single'
    BY <1>1, <1>3, <1>4 DEF Unseen, Single, Live
  <1>9. Seen'
    BY <1>3, <1>4 DEF Seen
  <1>10. Knows'
    BY <1>1, <1>3, <1>5 DEF IInv, Knows, LetGo, Live
  <1>11. BusyIsLive'
    BY <1>2, <1>4 DEF BusyIsLive, RunningCard, AnyLive, IInv, Seen
  <1>12. JobsTracked'
    BY <1>1, <1>3, <1>5 DEF IInv, JobsTracked, Tracked, LetGo
  <1> QED
    BY <1>6, <1>7, <1>8, <1>9, <1>10, <1>11, <1>12 DEF IInv

LEMMA StartFailing ==
  ASSUME IInv, NEW r \in Run, StartFails(r)
  PROVE  IInv'
  <1>1. /\ run[r].at = "posted" /\ run[r].heard # "none" /\ Ends(r) /\ Live(r)
        /\ error' = (error \/ ~cancelled)
        /\ jobState' = IF cancelled THEN jobState ELSE "error"
        /\ UNCHANGED <<scenario, result, modal, cancelled, jobId, shared, autoRun, overlapped,
                       job, cancels, unconfirmed>>
    BY DEF StartFails, refs, service, Live
  <1>2. LetGo(r) \/ run[r].heard = "lost"
    BY <1>1 DEF IInv, Knows, LetGo
  <1>3. /\ modal' \in BOOLEAN /\ (modal' => modal) /\ error' \in BOOLEAN
        /\ result' \in Scenario \cup {None} /\ jobId' \in Run \cup {None}
    BY <1>1 DEF IInv, TabTypeOK
  <1>4. /\ jobState' \in {"confirming", "running", "done", "error"}
        /\ cancelled => jobState' # "running"
        /\ cancelled \/ ~modal' \/ jobState' # "running"
    BY <1>1 DEF IInv, TabTypeOK, Seen
  <1> QED
    BY <1>1, <1>2, <1>3, <1>4, LoopEnds

LEMMA CancelEnds ==
  ASSUME IInv, NEW r \in Run, LoopCancelled(r)
  PROVE  IInv'
  <1>1. /\ run[r].at = "poll" /\ cancelled /\ Ends(r) /\ Live(r)
        /\ UNCHANGED <<scenario, result, error, modal, jobState, cancelled, jobId, shared, autoRun,
                       overlapped, job, cancels, unconfirmed>>
    BY DEF LoopCancelled, refs, service, Live
  <1>2. ~overlapped => LetGo(r)
    BY <1>1 DEF IInv, Knows
  <1> QED
    BY <1>1, <1>2, LoopEnds DEF IInv, TabTypeOK, Seen

LEMMA VerdictEnds ==
  ASSUME IInv, NEW r \in Run, HearDone(r) \/ HearFailed(r) \/ HearCancelled(r)
  PROVE  IInv'
  <1>1. /\ run[r].at = "heard" /\ run[r].heard \in {"done", "failed", "cancelled"}
        /\ Ends(r) /\ Live(r)
        /\ UNCHANGED <<scenario, cancelled, jobId, shared, autoRun, overlapped, job, cancels,
                       unconfirmed>>
    BY DEF HearDone, HearFailed, HearCancelled, refs, service, Live
  <1>2. LetGo(r)
    BY <1>1 DEF IInv, Knows, LetGo
  <1>3. /\ jobState' \in {"done", "error", "confirming"}
        /\ modal' = modal \/ modal' = FALSE
        /\ error' = error \/ error' = TRUE
        /\ result' = result \/ result' = run[r].edits
    BY DEF HearDone, HearFailed, HearCancelled
  <1>4. run[r].edits \in Scenario
    BY <1>1 DEF IInv, Knows
  <1>5. /\ modal' \in BOOLEAN /\ (modal' => modal) /\ error' \in BOOLEAN
        /\ result' \in Scenario \cup {None} /\ jobId' \in Run \cup {None}
    <2>1. /\ modal \in BOOLEAN /\ error \in BOOLEAN
          /\ result \in Scenario \cup {None} /\ jobId \in Run \cup {None}
      BY DEF IInv, TabTypeOK
    <2>2. modal' \in BOOLEAN /\ (modal' => modal)
      <3>1. CASE modal' = modal    BY <2>1, <3>1
      <3>2. CASE modal' = FALSE    BY <3>2
      <3> QED  BY <1>3, <3>1, <3>2
    <2>3. error' \in BOOLEAN
      BY <1>3, <2>1
    <2>4. result' \in Scenario \cup {None} /\ jobId' \in Run \cup {None}
      BY <1>1, <1>3, <1>4, <2>1
    <2> QED  BY <2>2, <2>3, <2>4
  <1> QED
    BY <1>1, <1>2, <1>3, <1>5, LoopEnds

-----------------------------------------------------------------------------
(* A loop that goes on. *)

\* Every step but the end of a loop: what it hears, and the modal it opens.
LEMMA LoopGoesOn ==
  ASSUME IInv, NEW r \in Run, Live(r),
         NEW stage \in {"posted", "poll", "heard"},
         NEW next \in Loop, run' = [run EXCEPT ![r] = next],
         next.at = stage, next.edits = run[r].edits,
         \/ next.opened = run[r].opened /\ UNCHANGED <<modal, jobState>>
         \/ /\ next.opened /\ ~run[r].opened
            /\ modal' = TRUE /\ jobState' = "running",
         stage = "posted" =>
            /\ run[r].at = "post" /\ next.heard \in {"none", "refused", "lost"}
            /\ next.heard = "refused" => job'[r] = "none",
         stage = "poll" => next.heard = "none",
         stage = "heard" =>
            /\ next.heard \in {"blip", "running", "done", "failed", "cancelled"}
            /\ next.heard \in {"done", "failed", "cancelled"} => job[r] # "running",
         ~cancelled \/ (run[r].at = "heard" /\ stage = "poll") \/ stage = "posted",
         stage # "posted" => job' = job,
         job' = job \/ job' = [job EXCEPT ![r] = "running"],
         stage # "posted" /\ ~overlapped => jobId' = r,
         jobId' \in Run \cup {None},
         UNCHANGED <<scenario, result, loading, error, cancelled, shared, autoRun, overlapped,
                     cancels, unconfirmed>>
  PROVE  IInv'
  <1>1. /\ run'[r] = next /\ Live(r)'
        /\ \A q \in Run \ {r} : run'[q] = run[q] /\ (Live(q)' <=> Live(q))
    BY DEF IInv, TabTypeOK, Live
  <1>2. \A q \in Run \ {r} : job'[q] = job[q]
    BY DEF IInv, TabTypeOK
  <1>3. TabTypeOK'
    <2>1. modal' \in BOOLEAN /\ jobState' \in {"confirming", "running", "done", "error"}
      BY DEF IInv, TabTypeOK
    <2>2. /\ run' \in [Run -> Loop]
          /\ job' \in [Run -> {"none", "running", "cancelling", "over", "cancelled"}]
      BY DEF IInv, TabTypeOK
    <2> QED  BY <2>1, <2>2 DEF IInv, TabTypeOK
  <1>4. Mounted'
    BY DEF IInv, Mounted, Live
  <1>5. Unseen'
    BY <1>1 DEF IInv, Unseen, Live
  <1>6. Single'
    BY <1>1 DEF IInv, Single, Live
  <1>7. Seen'
    BY <1>1 DEF IInv, Seen, Single, Unseen
  <1>8. Knows'
    BY <1>1, <1>2 DEF IInv, TabTypeOK, Knows, LetGo, Live
  <1>9. BusyIsLive'
    BY <1>1 DEF IInv, BusyIsLive, AnyLive, RunningCard, SharedLoader, Unseen, Seen
  <1>10. JobsTracked'
    BY <1>1, <1>2 DEF IInv, JobsTracked, Tracked
  <1> QED
    BY <1>3, <1>4, <1>5, <1>6, <1>7, <1>8, <1>9, <1>10 DEF IInv

LEMMA PostLanding ==
  ASSUME IInv, NEW r \in Run, PostLands(r)
  PROVE  IInv'
  <1>1. /\ run[r].at = "post" /\ Live(r) /\ run[r] \in Loop /\ job[r] = "none"
        /\ UNCHANGED <<shown, refs, cancels, unconfirmed>>
    BY DEF PostLands, Live, IInv, TabTypeOK, Knows
  <1>2. run[r].heard = "none"
    BY <1>1 DEF IInv, Knows
  <1>3. PICK heard \in {"none", "refused", "lost"} :
           /\ run' = [run EXCEPT ![r] = [run[r] EXCEPT !.at = "posted", !.heard = heard]]
           /\ job' = IF heard = "refused" THEN job ELSE [job EXCEPT ![r] = "running"]
    <2>1. CASE /\ job' = [job EXCEPT ![r] = "running"]
               /\ run' = [run EXCEPT ![r].at = "posted"]
      <3>1. [run[r] EXCEPT !.at = "posted"] = [run[r] EXCEPT !.at = "posted", !.heard = "none"]
        BY <1>1, <1>2 DEF Loop
      <3> QED  BY <2>1, <3>1
    <2>2. CASE /\ run' = [run EXCEPT ![r].at = "posted", ![r].heard = "refused"]
               /\ UNCHANGED job
      BY <1>1, <2>2 DEF IInv, TabTypeOK, Loop
    <2>3. CASE /\ job' = [job EXCEPT ![r] = "running"]
               /\ run' = [run EXCEPT ![r].at = "posted", ![r].heard = "lost"]
      BY <1>1, <2>3 DEF IInv, TabTypeOK, Loop
    <2> QED  BY <2>1, <2>2, <2>3 DEF PostLands
  <1> DEFINE next == [run[r] EXCEPT !.at = "posted", !.heard = heard]
  <1>4. /\ next \in Loop /\ next.at = "posted" /\ next.edits = run[r].edits
        /\ next.heard = heard /\ next.opened = run[r].opened
    BY <1>1, <1>3 DEF Loop
  <1>5. UNCHANGED <<scenario, result, loading, error, modal, jobState, cancelled, jobId, shared,
                    autoRun, overlapped, cancels, unconfirmed>>
    BY <1>1 DEF shown, refs
  <1>6. jobId \in Run \cup {None} /\ run' = [run EXCEPT ![r] = next]
    BY <1>3 DEF IInv, TabTypeOK
  <1> HIDE DEF next
  <1> QED
    BY <1>1, <1>2, <1>3, <1>4, <1>5, <1>6, LoopGoesOn

LEMMA Starting ==
  ASSUME IInv, NEW r \in Run, Started(r)
  PROVE  IInv'
  <1>1. /\ run[r].at = "posted" /\ run[r].heard = "none" /\ Live(r) /\ jobId' = r
        /\ UNCHANGED <<scenario, result, error, modal, jobState, cancelled, shared, autoRun,
                       overlapped, job, unconfirmed>>
    BY DEF Started, Live
  <1>2. CASE cancelled /\ cancels' = Asked(r) /\ Ends(r)
    BY <1>1, <1>2, LoopEnds DEF IInv, TabTypeOK, Seen
  <1>3. CASE ~cancelled /\ run' = [run EXCEPT ![r].at = "poll"] /\ UNCHANGED <<loading, cancels>>
    <2> DEFINE next == [run[r] EXCEPT !.at = "poll"]
    <2>1. /\ next \in Loop /\ next.at = "poll" /\ next.edits = run[r].edits
          /\ next.heard = "none" /\ next.opened = run[r].opened
      BY <1>1 DEF Loop, IInv, TabTypeOK
    <2>2. run' = [run EXCEPT ![r] = next]
      BY <1>3
    <2> HIDE DEF next
    <2> QED  BY <1>1, <1>3, <2>1, <2>2, LoopGoesOn
  <1> QED
    BY <1>2, <1>3 DEF Started

LEMMA Polling ==
  ASSUME IInv, NEW r \in Run, PollLands(r)
  PROVE  IInv'
  <1>1. /\ run[r].at = "poll" /\ Live(r) /\ run[r] \in Loop /\ ~cancelled
        /\ UNCHANGED <<shown, refs, service>>
    BY DEF PollLands, Live, IInv, TabTypeOK
  <1>2. PICK answer \in {"blip", "running", "done", "failed", "cancelled"} :
           /\ answer \in {"done", "failed", "cancelled"} => job[r] # "running"
           /\ run' = [run EXCEPT ![r].at = "heard", ![r].heard = answer]
    BY DEF PollLands, Reads
  <1> DEFINE next == [run[r] EXCEPT !.at = "heard", !.heard = answer]
  <1>3. /\ next \in Loop /\ next.at = "heard" /\ next.edits = run[r].edits
        /\ next.heard = answer /\ next.opened = run[r].opened
    BY <1>1 DEF Loop
  <1>4. run' = [run EXCEPT ![r] = next]
    BY <1>1, <1>2 DEF IInv, TabTypeOK, Loop
  <1>5. UNCHANGED <<scenario, result, loading, error, modal, jobState, cancelled, jobId, shared,
                    autoRun, overlapped, job, cancels, unconfirmed>>
    BY <1>1 DEF shown, refs, service
  <1>6. jobId \in Run \cup {None} /\ (~overlapped => jobId = r)
    BY <1>1 DEF IInv, TabTypeOK, Single
  <1> HIDE DEF next
  <1> QED
    BY <1>1, <1>2, <1>3, <1>4, <1>5, <1>6, LoopGoesOn

\* Back to polling, after an answer or a failed call.
LEMMA Rearms ==
  ASSUME IInv, NEW r \in Run, HearRunning(r) \/ (HearBlip(r) /\ run'[r].at = "poll")
  PROVE  IInv'
  <1>1. /\ run[r].at = "heard" /\ Live(r) /\ run[r] \in Loop
        /\ UNCHANGED <<scenario, result, loading, cancelled, jobId, shared, autoRun, overlapped,
                       job, cancels, unconfirmed>>
        /\ error' = error
    BY DEF HearRunning, HearBlip, Ends, Idle, Live, IInv, TabTypeOK, refs, service
  <1>2. PICK fails \in 0..MaxPollFailures - 1, opened \in BOOLEAN :
           /\ run' = [run EXCEPT ![r] = [run[r] EXCEPT !.at = "poll", !.heard = "none",
                                                       !.fails = fails, !.opened = opened]]
           /\ \/ opened = run[r].opened /\ UNCHANGED <<modal, jobState>>
              \/ /\ opened /\ ~run[r].opened
                 /\ modal' = TRUE /\ jobState' = "running"
    <2>1. CASE HearRunning(r)
      BY <1>1, <2>1, Bounds DEF HearRunning, IInv, TabTypeOK, Loop
    <2>2. CASE HearBlip(r) /\ run'[r].at = "poll"
      <3>1. /\ Strikes(r) < MaxPollFailures /\ UNCHANGED <<modal, jobState>>
            /\ run' = [run EXCEPT ![r].at = "poll", ![r].heard = "none", ![r].fails = Strikes(r)]
        BY <1>1, <2>2 DEF HearBlip, Ends, Idle, IInv, TabTypeOK
      <3>2. /\ Strikes(r) \in 0..MaxPollFailures - 1 /\ run[r].opened \in BOOLEAN
            /\ run' = [run EXCEPT ![r] = [run[r] EXCEPT !.at = "poll", !.heard = "none",
                                              !.fails = Strikes(r), !.opened = run[r].opened]]
        BY <1>1, <3>1, TabAssumption DEF Strikes, IInv, TabTypeOK, Loop
      <3> QED  BY <3>1, <3>2
    <2> QED  BY <2>1, <2>2
  <1> DEFINE next == [run[r] EXCEPT !.at = "poll", !.heard = "none", !.fails = fails, !.opened = opened]
  <1>3. /\ next \in Loop /\ next.at = "poll" /\ next.edits = run[r].edits
        /\ next.heard = "none" /\ next.opened = opened
    BY <1>1 DEF Loop
  <1>4. jobId \in Run \cup {None} /\ (~overlapped => jobId = r)
    BY <1>1 DEF IInv, TabTypeOK, Single
  <1>5. run' = [run EXCEPT ![r] = next]
    BY <1>2
  <1> HIDE DEF next
  <1> QED
    BY <1>1, <1>2, <1>3, <1>4, <1>5, LoopGoesOn

LEMMA Blips ==
  ASSUME IInv, NEW r \in Run, HearBlip(r)
  PROVE  IInv'
  <1>1. /\ run[r].at = "heard" /\ Live(r)
        /\ UNCHANGED <<scenario, result, modal, cancelled, jobId, shared, autoRun, overlapped,
                       job, unconfirmed>>
    BY DEF HearBlip, Live, refs
  <1>2. CASE cancelled /\ Ends(r) /\ UNCHANGED <<error, jobState, cancels>>
    <2>1. ~overlapped => LetGo(r)
      BY <1>1, <1>2 DEF IInv, Knows
    <2> QED  BY <1>1, <1>2, <2>1, LoopEnds DEF IInv, TabTypeOK, Seen
  <1>3. CASE cancels' = Asked(r) /\ error' = TRUE /\ jobState' = "error" /\ Ends(r)
    BY <1>1, <1>3, LoopEnds DEF IInv, TabTypeOK
  <1>4. CASE run' = [run EXCEPT ![r].at = "poll", ![r].heard = "none", ![r].fails = Strikes(r)]
    <2>1. run'[r].at = "poll"
      BY <1>4 DEF IInv, TabTypeOK, Loop
    <2> QED  BY <2>1, Rearms
  <1> QED
    BY <1>2, <1>3, <1>4 DEF HearBlip

-----------------------------------------------------------------------------
(* The service. *)

LEMMA Cancelling ==
  ASSUME IInv, NEW r \in Run, CancelTried(r)
  PROVE  IInv'
  <1>1. UNCHANGED <<scenario, result, loading, error, modal, jobState, cancelled, jobId, shared,
                    autoRun, overlapped, run>> /\ cancels[r] > 0
    BY DEF CancelTried, shown, refs
  <1>2. /\ job' \in [Run -> {"none", "running", "cancelling", "over", "cancelled"}]
        /\ cancels' \in [Run -> 0..MaxCancelAttempts]
        /\ unconfirmed \subseteq unconfirmed' /\ unconfirmed' \subseteq Run
    <2>1. cancels[r] - 1 \in 0..MaxCancelAttempts /\ 0 \in 0..MaxCancelAttempts
      BY <1>1, TabAssumption DEF IInv, TabTypeOK
    <2>2. CASE /\ cancels' = [cancels EXCEPT ![r] = 0]
               /\ job' = [job EXCEPT ![r] = IF @ = "running" THEN "cancelling" ELSE @]
               /\ UNCHANGED unconfirmed
      BY <2>1, <2>2 DEF IInv, TabTypeOK
    <2>3. CASE /\ cancels' = [cancels EXCEPT ![r] = @ - 1]
               /\ unconfirmed' = IF cancels[r] = 1 THEN unconfirmed \cup {r} ELSE unconfirmed
               /\ UNCHANGED job
      BY <2>1, <2>3 DEF IInv, TabTypeOK
    <2> QED  BY <2>2, <2>3 DEF CancelTried
  <1>3. /\ \A q \in Run : job'[q] = job[q] \/ (job[q] = "running" /\ job'[q] = "cancelling")
        /\ \A q \in Run : LetGo(q) => LetGo(q)'
    BY <1>1 DEF CancelTried, LetGo, IInv, TabTypeOK
  <1>4. TabTypeOK' /\ Mounted' /\ Unseen' /\ Seen' /\ Single'
    BY <1>1, <1>2 DEF IInv, TabTypeOK, Mounted, Unseen, Seen, Single, Live
  <1>5. Knows'
    BY <1>1, <1>3 DEF IInv, Knows, Live
  <1>6. BusyIsLive'
    BY <1>1 DEF IInv, BusyIsLive, AnyLive, Live, RunningCard, SharedLoader
  <1>7. JobsTracked'
    BY <1>1, <1>3 DEF IInv, JobsTracked, Tracked, LetGo, Live
  <1> QED
    BY <1>4, <1>5, <1>6, <1>7 DEF IInv

LEMMA Settling ==
  ASSUME IInv, NEW r \in Run, JobSettles(r)
  PROVE  IInv'
  <1>1. UNCHANGED <<scenario, result, loading, error, modal, jobState, cancelled, jobId, shared,
                    autoRun, overlapped, run, cancels, unconfirmed>>
    BY DEF JobSettles, shown, refs
  <1>2. /\ job[r] # "none"
        /\ \E over \in {"over", "cancelled"} : job' = [job EXCEPT ![r] = over]
    BY DEF JobSettles
  <1>3. TabTypeOK' /\ Mounted' /\ Unseen' /\ Seen' /\ Single'
    BY <1>1, <1>2 DEF IInv, TabTypeOK, Mounted, Unseen, Seen, Single, Live
  <1>4. Knows'
    BY <1>1, <1>2 DEF IInv, TabTypeOK, Knows, LetGo, Live
  <1>5. BusyIsLive'
    BY <1>1 DEF IInv, BusyIsLive, AnyLive, Live, RunningCard, SharedLoader
  <1>6. JobsTracked'
    BY <1>1, <1>2 DEF IInv, TabTypeOK, JobsTracked, Tracked, Live
  <1> QED
    BY <1>3, <1>4, <1>5, <1>6 DEF IInv

-----------------------------------------------------------------------------

LEMMA NextIInv == IInv /\ [TabNext]_tabVars => IInv'
  <1> SUFFICES ASSUME IInv, [TabNext]_tabVars PROVE IInv'
    OBVIOUS
  <1>1. CASE UserStep
    BY <1>1, RunsShared, OpensModal, Confirms, Edits, CancelsInModal, ClosesModal DEF UserStep
  <1>2. ASSUME NEW r \in Run, LoopStep(r) PROVE IInv'
    BY <1>2, PostLanding, StartFailing, Starting, Polling, CancelEnds, VerdictEnds, Rearms, Blips
    DEF LoopStep
  <1>3. ASSUME NEW r \in Run, ServiceStep(r) PROVE IInv'
    BY <1>3, Cancelling, Settling DEF ServiceStep
  <1>4. CASE UNCHANGED tabVars
    BY <1>4 DEF tabVars, shown, refs, service, IInv, TabTypeOK, Mounted, Unseen, Seen, Single,
       Knows, LetGo, BusyIsLive, JobsTracked, Tracked, Live, AnyLive, RunningCard, SharedLoader
  <1> QED
    BY <1>1, <1>2, <1>3, <1>4 DEF TabNext

\* The invariant, which the theorems below take apart.
THEOREM Invariance == TabSpec => []IInv
  <1> QED
    BY InitIInv, NextIInv, PTL DEF TabSpec

\* The variables keep their types: no loop polls on after as many failures in a
\* row as end it.
THEOREM TypeCorrect == TabSpec => []TabTypeOK
  <1>1. IInv => TabTypeOK
    BY DEF IInv
  <1> QED
    BY <1>1, Invariance, PTL

\* The tab is locked, and a modal or a loader says "computing", only while a
\* loop is alive; and one run at a time is never invisible.
THEOREM BusyCorrect == TabSpec => []BusyIsLive
  <1>1. IInv => BusyIsLive
    BY DEF IInv
  <1> QED
    BY <1>1, Invariance, PTL

\* While one run at a time is started, every running job is polled or was asked
\* to cancel.
THEOREM TrackedCorrect == TabSpec => []JobsTracked
  <1>1. IInv => JobsTracked
    BY DEF IInv
  <1> QED
    BY <1>1, Invariance, PTL

\* A loop that nobody cancelled ends with its result, an error, or the editor
\* again for a job cancelled elsewhere.
THEOREM VerdictCorrect == TabSpec => EndsWithVerdict
  <1> DEFINE Verdict == \A r \in Run : Live(r) /\ ~Live(r)' /\ ~cancelled =>
                \/ ResultsCard' /\ result' = run[r].edits /\ jobState' = "done"
                \/ ErrorCard' /\ jobState' = "error"
                \/ ~modal' /\ run[r].heard = "cancelled"
  <1>1. IInv /\ [TabNext]_tabVars => [Verdict]_tabVars
    <2> SUFFICES ASSUME IInv, TabNext, NEW r \in Run, Live(r), ~Live(r)', ~cancelled
                 PROVE  \/ ResultsCard' /\ result' = run[r].edits /\ jobState' = "done"
                        \/ ErrorCard' /\ jobState' = "error"
                        \/ ~modal' /\ run[r].heard = "cancelled"
      OBVIOUS
    <2>1. run[r].edits \in Scenario
      BY DEF IInv, Knows
    <2>2. PICK q \in Run : LoopStep(q)
      <3>1. CASE UserStep
        BY <3>1 DEF UserStep, AutoRun, OpenModal, Confirm, EditScenario, ModalCancel, CloseModal,
           Begin, refs, service, Live, IInv, TabTypeOK
      <3>2. ASSUME NEW q \in Run, ServiceStep(q) PROVE run' = run
        BY <3>2 DEF ServiceStep, CancelTried, JobSettles
      <3> QED  BY <3>1, <3>2 DEF TabNext, Live
    <2>3. q = r
      BY <2>2 DEF LoopStep, PostLands, StartFails, Started, PollLands, LoopCancelled, HearDone,
         HearFailed, HearCancelled, HearRunning, HearBlip, Ends, Live, IInv, TabTypeOK
    <2>4. CASE HearDone(r)
      BY <2>1, <2>4, Bounds DEF HearDone, ResultsCard
    <2>5. CASE HearFailed(r)
      BY <2>5 DEF HearFailed, ErrorCard
    <2>6. CASE HearCancelled(r)
      BY <2>6 DEF HearCancelled
    <2>7. CASE StartFails(r)
      BY <2>7 DEF StartFails, ErrorCard
    <2>8. CASE HearBlip(r)
      BY <2>8 DEF HearBlip, ErrorCard, Live, IInv, TabTypeOK, Loop
    \* The others go on, or end a loop that was cancelled.
    <2>9. CASE PostLands(r) \/ PollLands(r)
      BY <2>9 DEF PostLands, PollLands, Live, IInv, TabTypeOK, Loop
    <2>10. CASE Started(r) \/ LoopCancelled(r)
      BY <2>10 DEF Started, LoopCancelled, Live, IInv, TabTypeOK, Loop
    <2>11. CASE HearRunning(r)
      BY <2>11 DEF HearRunning, Live, IInv, TabTypeOK, Loop
    <2> QED  BY <2>2, <2>3, <2>4, <2>5, <2>6, <2>7, <2>8, <2>9, <2>10, <2>11 DEF LoopStep
  <1> QED
    BY <1>1, Invariance, PTL DEF TabSpec, EndsWithVerdict

-----------------------------------------------------------------------------
(* The link estimate.                                                      *)

\* Stages before the service has seen an effect's submission.
Early == {"unused", "post"}

\* The pair under which values are kept is the pair they are of.
Filed == \A v \in Viewer : fetched[v].data \in {NoPair, fetched[v].pair}

\* What an effect holds at each stage.
EffectKnows == \A e \in Effect :
    /\ effect[e].at \in {"post", "posted", "poll", "heard"} =>
          effect[e].viewer \in Viewer /\ effect[e].pair \in Pair
    /\ effect[e].at = "posted" => (effect[e].job = NoEffect <=> effect[e].heard # "none")
    /\ effect[e].at = "post" => effect[e].heard = "none"
    /\ effect[e].at = "poll" => effect[e].heard = "none" /\ ~effect[e].cancelled
    /\ effect[e].at = "heard" => effect[e].heard \in {"blip", "unread", "running", "done", "failed"}
    /\ effect[e].at \in {"poll", "heard"} => effect[e].job # NoEffect
    /\ effect[e].heard = "lost" => effect[e].at \in {"posted", "ended"}

\* What it may rely on about its job.
Holds == \A e \in Effect :
    /\ effect[e].job # NoEffect =>
          /\ effect[e].at \in {"posted", "poll", "heard"}
          /\ estimate[effect[e].job].pair = effect[e].pair
          /\ effect[effect[e].job].at \notin Early
    /\ effect[e].at = "heard" /\ effect[e].heard \in {"done", "failed"} =>
          ~Running(effect[e].job)
    /\ effect[e].at = "heard" /\ effect[e].cancelled => effect[e].job \in deleted
    /\ estimate[e].state # "none" => effect[e].at \notin Early

EstIInv == EstTypeOK /\ Filed /\ EffectKnows /\ Holds /\ EstimatesTracked

LEMMA EffectFacts == NoEffect \notin Effect /\ NoPair \notin Pair /\ 0 \in 0..MaxEstFailures - 1
  BY EstAssumption DEF NoEffect, Effect

LEMMA EstInitIInv == EstInit => EstIInv
  BY EffectFacts DEF EstInit, EstIInv, EstTypeOK, Filed, EffectKnows, Holds, Early, EstimatesTracked,
      Running, NoFetch, Fresh, Closure

-----------------------------------------------------------------------------

LEMMA Selects ==
  ASSUME EstIInv, NEW v \in Viewer, NEW p \in Pair \cup {NoPair}, Select(v, p)
  PROVE  EstIInv'
  BY DEF Select, EstIInv, EstTypeOK, Filed, EffectKnows, Holds, Early, EstimatesTracked, Running

\* The end of an effect that has let go of its job.
LEMMA EffectEnds ==
  ASSUME EstIInv, NEW e \in Effect, effect[e].at \in {"posted", "heard"}, Ended(e),
         effect[e].job # NoEffect => effect[e].job \in deleted' \/ ~Running(effect[e].job),
         deleted \subseteq deleted', deleted' \subseteq Effect,
         fetched' \in [Viewer -> [pair : Pair \cup {NoPair}, data : Pair \cup {NoPair},
                                  error : BOOLEAN, inFlight : BOOLEAN]],
         Filed',
         UNCHANGED <<selected, due, current, estimate>>
  PROVE  EstIInv'
  <1>1. effect' = [effect EXCEPT ![e] = Over(effect[e])]
    BY DEF Ended
  <1>2. /\ Over(effect[e]) \in Closure
        /\ Over(effect[e]).at = "ended"
        /\ Over(effect[e]).job = NoEffect
        /\ effect[e].heard = "lost" => Over(effect[e]).heard = "lost"
    BY EffectFacts DEF Over, Fresh, Closure, EstIInv, EstTypeOK
  <1>3. EstTypeOK'
    BY <1>1, <1>2 DEF EstIInv, EstTypeOK
  <1>4. EffectKnows'
    BY <1>1, <1>2, EffectFacts DEF EstIInv, EstTypeOK, EffectKnows
  <1>5. Holds'
    BY <1>1, <1>2, EffectFacts DEF EstIInv, EstTypeOK, Holds, Early, Running
  <1>6. EstimatesTracked'
    BY <1>1, <1>2, EffectFacts DEF EstIInv, EstTypeOK, EffectKnows, EstimatesTracked, Running
  <1> QED
    BY <1>3, <1>4, <1>5, <1>6 DEF EstIInv

-----------------------------------------------------------------------------
(* A viewer's next effect. *)

\* The cleanup ends an effect between two polls and flags any other.
LEMMA CleanedFacts ==
  ASSUME EstIInv, NEW e \in Effect
  PROVE  /\ Cleaned(e) \in Closure
         /\ effect[e].at \in {"poll", "ended"} =>
               /\ Cleaned(e).at = "ended" /\ Cleaned(e).job = NoEffect
               /\ Cleaned(e).heard = IF effect[e].heard = "lost" THEN "lost" ELSE "none"
         /\ effect[e].at \notin {"poll", "ended"} =>
               Cleaned(e) = [effect[e] EXCEPT !.cancelled = TRUE]
  <1>1. effect[e] \in Closure
    BY DEF EstIInv, EstTypeOK
  <1> DEFINE closure == [effect[e] EXCEPT !.cancelled = TRUE]
  <1>2. /\ closure \in Closure
        /\ closure.at = effect[e].at /\ closure.heard = effect[e].heard
        /\ closure.cancelled = TRUE
    BY <1>1 DEF Closure
  <1>3. /\ Over(closure) \in Closure
        /\ Over(closure).at = "ended" /\ Over(closure).job = NoEffect
        /\ Over(closure).heard = IF closure.heard = "lost" THEN "lost" ELSE "none"
    <2> HIDE DEF closure
    <2> QED  BY <1>2, EffectFacts DEF Over, Fresh, Closure
  <1>4. Cleaned(e) = IF closure.at \in {"poll", "ended"} THEN Over(closure) ELSE closure
    BY DEF Cleaned
  <1> HIDE DEF closure
  <1>5. CASE effect[e].at \in {"poll", "ended"}
    BY <1>2, <1>3, <1>4, <1>5
  <1>6. CASE effect[e].at \notin {"poll", "ended"}
    BY <1>2, <1>4, <1>6 DEF closure
  <1> QED
    BY <1>5, <1>6

\* What becomes of each effect when a viewer's next one runs.
Kept(f) == effect'[f] = effect[f]
Stopped(f) ==
    /\ effect[f].at \in {"poll", "ended"}
    /\ effect'[f].at = "ended" /\ effect'[f].job = NoEffect
    /\ effect'[f].heard = IF effect[f].heard = "lost" THEN "lost" ELSE "none"
    /\ effect[f].job = NoEffect \/ effect[f].job \in deleted'
Flagged(f) ==
    /\ effect[f].at \notin {"poll", "ended"}
    /\ effect'[f] = [effect[f] EXCEPT !.cancelled = TRUE]
    /\ effect[f].at = "heard" => effect[f].job \in deleted'
Submits(f) ==
    /\ effect[f].at = "unused"
    /\ effect'[f].at = "post" /\ effect'[f].job = NoEffect /\ effect'[f].heard = "none"
    /\ effect'[f].viewer \in Viewer /\ effect'[f].pair \in Pair

LEMMA Replaces ==
  ASSUME EstIInv, effect' \in [Effect -> Closure],
         \A f \in Effect : Kept(f) \/ Stopped(f) \/ Flagged(f) \/ Submits(f),
         deleted \subseteq deleted', UNCHANGED estimate
  PROVE  EffectKnows' /\ Holds' /\ EstimatesTracked'
  <1>1. ASSUME NEW f \in Effect
        PROVE  /\ effect'[f].job # NoEffect => effect'[f].job = effect[f].job /\ effect'[f].pair = effect[f].pair
               /\ effect[f].at \notin Early => effect'[f].at \notin Early
               /\ effect'[f].at \in {"posted", "poll", "heard"} => effect'[f].at = effect[f].at
    BY <1>1 DEF Kept, Stopped, Flagged, Submits, Early, EstIInv, EstTypeOK, Closure
  <1>2. EffectKnows'
    <2> SUFFICES ASSUME NEW f \in Effect
                 PROVE  /\ effect'[f].at \in {"post", "posted", "poll", "heard"} =>
                              effect'[f].viewer \in Viewer /\ effect'[f].pair \in Pair
                        /\ effect'[f].at = "posted" => (effect'[f].job = NoEffect <=> effect'[f].heard # "none")
                        /\ effect'[f].at = "post" => effect'[f].heard = "none"
                        /\ effect'[f].at = "poll" => effect'[f].heard = "none" /\ ~effect'[f].cancelled
                        /\ effect'[f].at = "heard" => effect'[f].heard \in {"blip", "unread", "running", "done", "failed"}
                        /\ effect'[f].at \in {"poll", "heard"} => effect'[f].job # NoEffect
                        /\ effect'[f].heard = "lost" => effect'[f].at \in {"posted", "ended"}
      BY DEF EffectKnows
    <2>1. CASE Kept(f)      BY <2>1 DEF Kept, EstIInv, EffectKnows
    <2>2. CASE Stopped(f)   BY <2>2 DEF Stopped, EstIInv, EffectKnows
    <2>3. CASE Flagged(f)   BY <2>3 DEF Flagged, EstIInv, EffectKnows, EstTypeOK, Closure
    <2>4. CASE Submits(f)   BY <2>4 DEF Submits
    <2> QED  BY <2>1, <2>2, <2>3, <2>4
  <1>3. Holds'
    <2> SUFFICES ASSUME NEW f \in Effect
                 PROVE  /\ effect'[f].job # NoEffect =>
                              /\ effect'[f].at \in {"posted", "poll", "heard"}
                              /\ estimate[effect'[f].job].pair = effect'[f].pair
                              /\ effect'[effect'[f].job].at \notin Early
                        /\ effect'[f].at = "heard" /\ effect'[f].heard \in {"done", "failed"} =>
                              estimate[effect'[f].job].state # "running"
                        /\ effect'[f].at = "heard" /\ effect'[f].cancelled => effect'[f].job \in deleted'
                        /\ estimate[f].state # "none" => effect'[f].at \notin Early
      BY DEF Holds, Early, Running
    <2>1. estimate[f].state # "none" => effect'[f].at \notin Early
      BY <1>1 DEF EstIInv, Holds
    <2>2. effect[f].job # NoEffect => effect'[effect[f].job].at \notin Early
      BY <1>1 DEF EstIInv, Holds, EstTypeOK, Closure
    <2>3. CASE Kept(f)      BY <2>1, <2>2, <2>3 DEF Kept, EstIInv, Holds, Running
    <2>4. CASE Stopped(f)   BY <2>1, <2>4 DEF Stopped
    <2>5. CASE Flagged(f)
      BY <2>1, <2>2, <2>5 DEF Flagged, EstIInv, Holds, Running, Early, EstTypeOK, Closure
    <2>6. CASE Submits(f)   BY <2>1, <2>6 DEF Submits
    <2> QED  BY <2>3, <2>4, <2>5, <2>6
  <1>4. EstimatesTracked'
    <2> SUFFICES ASSUME NEW j \in Effect, estimate[j].state = "running", j \notin deleted'
                 PROVE  \/ effect'[j].heard = "lost"
                        \/ \E e \in Effect : effect'[e].job = j /\ effect'[e].at \in {"posted", "poll", "heard"}
      BY DEF EstimatesTracked
    <2>1. CASE effect[j].heard = "lost"
      BY <2>1, <1>1 DEF Kept, Stopped, Flagged, Submits, EstIInv, EstTypeOK, Closure, EffectKnows
    <2>2. ASSUME NEW e \in Effect, effect[e].job = j, effect[e].at \in {"posted", "poll", "heard"}
          PROVE  effect'[e].job = j /\ effect'[e].at \in {"posted", "poll", "heard"}
      BY <2>2, EffectFacts DEF Kept, Stopped, Flagged, Submits, EstIInv, EstTypeOK, Closure
    <2> QED  BY <2>1, <2>2 DEF EstIInv, EstimatesTracked
  <1> QED
    BY <1>2, <1>3, <1>4

LEMMA RunsEffect ==
  ASSUME EstIInv, NEW v \in Viewer, RunEffect(v)
  PROVE  EstIInv'
  <1> DEFINE c == current[v]
             p == selected[v]
             cleaned == [e \in Effect |-> IF e = c THEN Cleaned(e) ELSE effect[e]]
  <1>1. /\ deleted' = IF Known(c) = NoEffect THEN deleted ELSE deleted \cup {Known(c)}
        /\ UNCHANGED <<selected, estimate>>
    BY DEF RunEffect, CancelJob
  <1>2. c \in Effect /\ effect[c].at \in {"poll", "heard"} =>
           Known(c) = effect[c].job /\ effect[c].job \in deleted'
    BY <1>1, EffectFacts DEF Known, EstIInv, EffectKnows
  <1>3. deleted \subseteq deleted' /\ deleted' \subseteq Effect
    BY <1>1 DEF Known, EstIInv, EstTypeOK, Closure
  <1>4. \A e \in Effect : cleaned[e] \in Closure
    BY CleanedFacts DEF EstIInv, EstTypeOK
  <1>5. ASSUME NEW f \in Effect, effect'[f] = cleaned[f]
        PROVE  Kept(f) \/ Stopped(f) \/ Flagged(f)
    <2>1. CASE f # c
      BY <1>5, <2>1 DEF Kept
    <2>2. CASE f = c /\ effect[f].at \in {"poll", "ended"}
      <3>1. effect[f].job = NoEffect \/ effect[f].job \in deleted'
        BY <1>2, <2>2 DEF EstIInv, Holds
      <3> QED  BY <1>5, <2>2, <3>1, CleanedFacts DEF Stopped
    <2>3. CASE f = c /\ effect[f].at \notin {"poll", "ended"}
      BY <1>2, <1>5, <2>3, CleanedFacts DEF Flagged
    <2> QED  BY <2>1, <2>2, <2>3
  <1>6. CASE /\ p = NoPair
             /\ effect' = cleaned
             /\ current' = [current EXCEPT ![v] = NoEffect]
             /\ UNCHANGED fetched
             /\ due' = [due EXCEPT ![v] = FALSE]
    <2>1. effect' \in [Effect -> Closure]
      BY <1>4, <1>6
    <2>2. EffectKnows' /\ Holds' /\ EstimatesTracked'
      <3>1. \A f \in Effect : Kept(f) \/ Stopped(f) \/ Flagged(f)
        BY <1>5, <1>6
      <3> QED  BY <1>1, <1>3, <2>1, <3>1, Replaces
    <2>3. EstTypeOK' /\ Filed'
      BY <1>1, <1>3, <1>6, <2>1 DEF EstIInv, EstTypeOK, Filed
    <2> QED  BY <2>2, <2>3 DEF EstIInv
  <1>7. ASSUME NEW e \in Effect, p # NoPair, effect[e].at = "unused",
               effect' = [cleaned EXCEPT ![e] = [Fresh EXCEPT !.viewer = v, !.pair = p, !.at = "post"]],
               current' = [current EXCEPT ![v] = e],
               fetched' = [fetched EXCEPT ![v] = [NoFetch EXCEPT !.pair = p, !.inFlight = TRUE]],
               \E again \in BOOLEAN : due' = [due EXCEPT ![v] = again]
        PROVE  EstIInv'
    <2> DEFINE fresh == [Fresh EXCEPT !.viewer = v, !.pair = p, !.at = "post"]
               fetching == [NoFetch EXCEPT !.pair = p, !.inFlight = TRUE]
    <2>1. /\ fresh \in Closure
          /\ fresh.at = "post" /\ fresh.job = NoEffect /\ fresh.heard = "none"
          /\ fresh.viewer = v /\ fresh.pair = p /\ p \in Pair
      BY <1>7, EffectFacts DEF Fresh, Closure, EstIInv, EstTypeOK
    <2>2. /\ fetching \in [pair : Pair \cup {NoPair}, data : Pair \cup {NoPair},
                           error : BOOLEAN, inFlight : BOOLEAN]
          /\ fetching.data = NoPair
      BY <2>1 DEF NoFetch
    <2> HIDE DEF fresh, fetching, cleaned
    <2>3. /\ effect' \in [Effect -> Closure]
          /\ effect'[e] = fresh
          /\ \A f \in Effect \ {e} : effect'[f] = cleaned[f]
      BY <1>4, <1>7, <2>1 DEF cleaned, fresh
    <2>4. \A f \in Effect : Kept(f) \/ Stopped(f) \/ Flagged(f) \/ Submits(f)
      BY <1>5, <1>7, <2>1, <2>3 DEF Submits
    <2>5. EffectKnows' /\ Holds' /\ EstimatesTracked'
      BY <1>1, <1>3, <2>3, <2>4, Replaces
    <2>6. EstTypeOK'
      BY <1>1, <1>3, <1>7, <2>2, <2>3 DEF EstIInv, EstTypeOK, fetching
    <2>7. Filed'
      BY <1>7, <2>2 DEF EstIInv, EstTypeOK, Filed, fetching
    <2> QED  BY <2>5, <2>6, <2>7 DEF EstIInv
  <1> QED
    BY <1>6, <1>7 DEF RunEffect

-----------------------------------------------------------------------------
(* The steps of one effect. *)

\* Jobs stay tracked while no effect that holds one lets go of it.
LEMMA TrackersStay ==
  ASSUME EstIInv,
         \A f \in Effect :
            /\ effect[f].heard = "lost" => effect'[f].heard = "lost"
            /\ effect[f].at \in {"posted", "poll", "heard"} =>
                  effect'[f].at \in {"posted", "poll", "heard"} /\ effect'[f].job = effect[f].job,
         deleted \subseteq deleted',
         \A j \in Effect : estimate'[j].state = "running" =>
            \/ estimate[j].state = "running"
            \/ effect'[j].heard = "lost"
            \/ effect'[j].at = "posted" /\ effect'[j].job = j
  PROVE  EstimatesTracked'
  <1> SUFFICES ASSUME NEW j \in Effect, estimate'[j].state = "running", j \notin deleted'
               PROVE  \/ effect'[j].heard = "lost"
                      \/ \E e \in Effect : effect'[e].job = j /\ effect'[e].at \in {"posted", "poll", "heard"}
    BY DEF EstimatesTracked
  <1>1. CASE estimate[j].state = "running"
    <2>1. \/ effect[j].heard = "lost"
          \/ \E e \in Effect : effect[e].job = j /\ effect[e].at \in {"posted", "poll", "heard"}
      BY <1>1 DEF EstIInv, EstimatesTracked
    <2> QED  BY <2>1
  <1>2. CASE estimate[j].state # "running"
    BY <1>2
  <1> QED  BY <1>1, <1>2

Answered(e, heard, j) ==
    [effect[e] EXCEPT !.at = "posted", !.heard = heard, !.job = j]

\* The answer to a submission: no job's id, or that of a job of its pair.
LEMMA Posted ==
  ASSUME EstIInv, NEW e \in Effect,
         NEW heard \in {"rejected", "lost", "none"}, NEW j \in Effect \cup {NoEffect},
         heard = "none" <=> j # NoEffect,
         effect[e].at = "post",
         effect' = [effect EXCEPT ![e] = Answered(e, heard, j)],
         estimate' \in [Effect -> [pair : Pair \cup {NoPair}, state : {"none", "running", "over"}]],
         \A f \in Effect \ {e} : estimate'[f] = estimate[f],
         estimate'[e].state = "running" => heard = "lost" \/ j = e,
         j # NoEffect => estimate'[j].state # "none" /\ estimate'[j].pair = effect[e].pair,
         UNCHANGED <<selected, due, current, fetched, deleted>>
  PROVE  EstIInv'
  <1>0. /\ effect[e].heard = "none" /\ effect[e].job = NoEffect
        /\ effect[e].viewer \in Viewer /\ effect[e].pair \in Pair
        /\ estimate[e].state = "none"
        /\ \A f \in Effect : effect[f].job # e
    BY EffectFacts DEF EstIInv, EffectKnows, Holds, Early
  <1>1. /\ Answered(e, heard, j) \in Closure
        /\ Answered(e, heard, j).at = "posted"
        /\ Answered(e, heard, j).heard = heard
        /\ Answered(e, heard, j).job = j
        /\ Answered(e, heard, j).pair = effect[e].pair
        /\ Answered(e, heard, j).viewer = effect[e].viewer
    <2>1. effect[e] \in Closure
      BY DEF EstIInv, EstTypeOK
    <2> QED  BY <2>1 DEF Answered, Closure
  <1>2. EstTypeOK' /\ Filed'
    BY <1>1 DEF EstIInv, EstTypeOK, Filed
  <1>3. EffectKnows'
    BY <1>0, <1>1, EffectFacts DEF EstIInv, EstTypeOK, EffectKnows
  <1>4. Holds'
    <2> SUFFICES ASSUME NEW f \in Effect
                 PROVE  /\ effect'[f].job # NoEffect =>
                              /\ effect'[f].at \in {"posted", "poll", "heard"}
                              /\ estimate'[effect'[f].job].pair = effect'[f].pair
                              /\ effect'[effect'[f].job].at \notin Early
                        /\ effect'[f].at = "heard" /\ effect'[f].heard \in {"done", "failed"} =>
                              estimate'[effect'[f].job].state # "running"
                        /\ effect'[f].at = "heard" /\ effect'[f].cancelled => effect'[f].job \in deleted'
                        /\ estimate'[f].state # "none" => effect'[f].at \notin Early
      BY DEF Holds, Early, Running
    <2>1. CASE f = e
      BY <1>0, <1>1, <2>1, EffectFacts DEF EstIInv, EstTypeOK, Holds, Early
    <2>2. CASE f # e
      <3>1. effect'[f] = effect[f] /\ effect[f].job # e /\ estimate'[f] = estimate[f]
        BY <1>0, <2>2 DEF EstIInv, EstTypeOK
      <3>2. effect[f].job # NoEffect => effect[f].job \in Effect \ {e}
        BY <1>0, <3>1 DEF EstIInv, EstTypeOK, Closure
      <3>3. effect[f].at = "heard" => effect[f].job # NoEffect
        BY DEF EstIInv, EffectKnows
      <3> QED  BY <2>2, <3>1, <3>2, <3>3 DEF EstIInv, EstTypeOK, Holds, Running
    <2> QED  BY <2>1, <2>2
  <1>5. EstimatesTracked'
    <2>1. \A f \in Effect :
            /\ effect[f].heard = "lost" => effect'[f].heard = "lost"
            /\ effect[f].at \in {"posted", "poll", "heard"} =>
                  effect'[f].at \in {"posted", "poll", "heard"} /\ effect'[f].job = effect[f].job
      BY <1>0 DEF EstIInv, EstTypeOK
    <2>2. \A f \in Effect : estimate'[f].state = "running" =>
            \/ estimate[f].state = "running"
            \/ effect'[f].heard = "lost"
            \/ effect'[f].at = "posted" /\ effect'[f].job = f
      BY <1>1 DEF EstIInv, EstTypeOK
    <2> QED  BY <2>1, <2>2, TrackersStay
  <1> QED
    BY <1>2, <1>3, <1>4, <1>5 DEF EstIInv

LEMMA SubmissionLands ==
  ASSUME EstIInv, NEW e \in Effect, EstPostLands(e)
  PROVE  EstIInv'
  <1> DEFINE p == effect[e].pair
  <1>1. /\ effect[e].at = "post" /\ p \in Pair
        /\ effect[e].job = NoEffect /\ effect[e].heard = "none"
        /\ estimate[e].state = "none"
    BY DEF EstPostLands, EstIInv, EffectKnows, Holds, Early
  <1>2. /\ UNCHANGED <<selected, due, current, fetched, deleted>>
        /\ estimate \in [Effect -> [pair : Pair \cup {NoPair}, state : {"none", "running", "over"}]]
        /\ effect \in [Effect -> Closure]
    BY DEF EstPostLands, EstIInv, EstTypeOK
  <1>a. ASSUME NEW j \in Effect
        PROVE  [effect[e] EXCEPT !.at = "posted", !.job = j]
                  = [effect[e] EXCEPT !.at = "posted", !.heard = "none", !.job = j]
    <2>1. effect[e] \in Closure /\ effect[e].heard = "none"
      BY <1>1, <1>2
    <2> QED  BY <2>1 DEF Closure
  <1>3. ASSUME NEW heard \in {"rejected", "lost"},
               effect' = [effect EXCEPT ![e].at = "posted", ![e].heard = heard],
               estimate' = estimate
        PROVE  EstIInv'
    <2>1. effect' = [effect EXCEPT ![e] = Answered(e, heard, NoEffect)]
      BY <1>1, <1>2, <1>3 DEF Answered, Closure
    <2> QED  BY <1>1, <1>2, <1>3, <2>1, Posted
  <1>4. ASSUME NEW j \in Effect, Running(j), estimate[j].pair = p,
               effect' = [effect EXCEPT ![e].at = "posted", ![e].job = j],
               estimate' = estimate
        PROVE  EstIInv'
    <2>1. effect' = [effect EXCEPT ![e] = Answered(e, "none", j)]
      BY <1>a, <1>4 DEF Answered
    <2> QED  BY <1>1, <1>2, <1>4, <2>1, Posted, EffectFacts DEF Running
  <1>5. ASSUME estimate' = [estimate EXCEPT ![e] = [pair |-> p, state |-> "running"]],
               effect' = [effect EXCEPT ![e].at = "posted", ![e].heard = "lost"]
        PROVE  EstIInv'
    <2>1. effect' = [effect EXCEPT ![e] = Answered(e, "lost", NoEffect)]
      BY <1>1, <1>2, <1>5 DEF Answered, Closure
    <2> QED  BY <1>1, <1>2, <1>5, <2>1, Posted
  <1>6. ASSUME estimate' = [estimate EXCEPT ![e] = [pair |-> p, state |-> "running"]],
               effect' = [effect EXCEPT ![e].at = "posted", ![e].job = e]
        PROVE  EstIInv'
    <2>1. effect' = [effect EXCEPT ![e] = Answered(e, "none", e)]
      BY <1>a, <1>6 DEF Answered
    <2> QED  BY <1>1, <1>2, <1>6, <2>1, Posted, EffectFacts
  <1> QED
    BY <1>3, <1>4, <1>5, <1>6 DEF EstPostLands

\* An error is filed without values.
LEMMA FailKeeps ==
  ASSUME EstIInv, NEW e \in Effect, Fail(e), effect[e].viewer \in Viewer, effect[e].pair \in Pair
  PROVE  /\ fetched' \in [Viewer -> [pair : Pair \cup {NoPair}, data : Pair \cup {NoPair},
                                     error : BOOLEAN, inFlight : BOOLEAN]]
         /\ Filed'
  <1> DEFINE failure == [NoFetch EXCEPT !.pair = effect[e].pair, !.error = TRUE]
  <1>1. /\ failure \in [pair : Pair \cup {NoPair}, data : Pair \cup {NoPair},
                        error : BOOLEAN, inFlight : BOOLEAN]
        /\ failure.data = NoPair
    BY DEF NoFetch
  <1>2. fetched' = fetched \/ fetched' = [fetched EXCEPT ![effect[e].viewer] = failure]
    BY DEF Fail
  <1> HIDE DEF failure
  <1> QED
    BY <1>1, <1>2 DEF EstIInv, EstTypeOK, Filed

Moved(e, stage, heard, fails) ==
    [effect[e] EXCEPT !.at = stage, !.heard = heard, !.fails = fails]

\* A loop that goes on with its job, to a poll or with the answer to one.
LEMMA Moves ==
  ASSUME EstIInv, NEW e \in Effect, NEW stage \in {"poll", "heard"},
         NEW heard \in {"none", "blip", "unread", "running", "done", "failed"},
         NEW fails \in 0..MaxEstFailures - 1,
         effect' = [effect EXCEPT ![e] = Moved(e, stage, heard, fails)],
         effect[e].at \in {"posted", "poll", "heard"}, ~effect[e].cancelled,
         effect[e].at = "posted" => effect[e].heard = "none",
         stage = "poll" <=> heard = "none",
         heard \in {"done", "failed"} => ~Running(effect[e].job),
         UNCHANGED <<selected, due, current, fetched, estimate, deleted>>
  PROVE  EstIInv'
  <1>1. effect[e] \in Closure
    BY DEF EstIInv, EstTypeOK
  <1>2. /\ effect[e].viewer \in Viewer /\ effect[e].pair \in Pair
        /\ effect[e].job # NoEffect /\ effect[e].heard # "lost"
    BY DEF EstIInv, EffectKnows
  <1>3. /\ Moved(e, stage, heard, fails) \in Closure
        /\ Moved(e, stage, heard, fails).at = stage
        /\ Moved(e, stage, heard, fails).heard = heard
        /\ Moved(e, stage, heard, fails).job = effect[e].job
        /\ Moved(e, stage, heard, fails).pair = effect[e].pair
        /\ Moved(e, stage, heard, fails).viewer = effect[e].viewer
        /\ Moved(e, stage, heard, fails).cancelled = effect[e].cancelled
    BY <1>1 DEF Moved, Closure
  <1>4. EstTypeOK' /\ Filed'
    BY <1>3 DEF EstIInv, EstTypeOK, Filed
  <1>5. EffectKnows'
    BY <1>2, <1>3 DEF EstIInv, EstTypeOK, EffectKnows
  <1>6. Holds'
    BY <1>2, <1>3 DEF EstIInv, EstTypeOK, Closure, Holds, Early, Running
  <1>7. EstimatesTracked'
    <2>1. \A f \in Effect :
            /\ effect[f].heard = "lost" => effect'[f].heard = "lost"
            /\ effect[f].at \in {"posted", "poll", "heard"} =>
                  effect'[f].at \in {"posted", "poll", "heard"} /\ effect'[f].job = effect[f].job
      BY <1>2, <1>3 DEF EstIInv, EstTypeOK
    <2> QED  BY <2>1, TrackersStay
  <1> QED
    BY <1>4, <1>5, <1>6, <1>7 DEF EstIInv

LEMMA EffectBegins ==
  ASSUME EstIInv, NEW e \in Effect, EstStarted(e)
  PROVE  EstIInv'
  <1>1. /\ effect[e].at = "posted" /\ effect[e].viewer \in Viewer /\ effect[e].pair \in Pair
        /\ UNCHANGED <<selected, due, current, estimate>>
    BY DEF EstStarted, EstIInv, EffectKnows
  <1>2. CASE effect[e].heard # "none" /\ Fail(e) /\ Ended(e) /\ UNCHANGED deleted
    <2>1. effect[e].job = NoEffect
      BY <1>1, <1>2 DEF EstIInv, EffectKnows
    <2> QED  BY <1>1, <1>2, <2>1, FailKeeps, EffectEnds DEF EstIInv, EstTypeOK
  <1>3. CASE /\ effect[e].heard = "none" /\ effect[e].cancelled
             /\ CancelJob(effect[e].job) /\ Ended(e) /\ UNCHANGED fetched
    <2>1. /\ effect[e].job # NoEffect => effect[e].job \in deleted'
          /\ deleted \subseteq deleted' /\ deleted' \subseteq Effect
      BY <1>3 DEF CancelJob, EstIInv, EstTypeOK, Closure
    <2>2. Filed'
      BY <1>3 DEF EstIInv, Filed
    <2> QED  BY <1>1, <1>3, <2>1, <2>2, EffectEnds DEF EstIInv, EstTypeOK
  <1>4. CASE /\ effect[e].heard = "none" /\ ~effect[e].cancelled
             /\ Goes(e, "poll") /\ UNCHANGED <<fetched, deleted>>
    <2>1. effect' = [effect EXCEPT ![e] = Moved(e, "poll", "none", effect[e].fails)]
      BY <1>1, <1>4 DEF Goes, Moved, EstIInv, EstTypeOK, Closure
    <2>2. effect[e].fails \in 0..MaxEstFailures - 1
      BY DEF EstIInv, EstTypeOK, Closure
    <2> QED  BY <1>1, <1>4, <2>1, <2>2, Moves
  <1> QED
    BY <1>2, <1>3, <1>4 DEF EstStarted

LEMMA Polls ==
  ASSUME EstIInv, NEW e \in Effect, EstPollLands(e)
  PROVE  EstIInv'
  <1>1. /\ effect[e].at = "poll"
        /\ UNCHANGED <<selected, due, current, fetched, estimate, deleted>>
    BY DEF EstPollLands
  <1>2. PICK answer \in {"blip", "unread", "running", "done", "failed"} :
           /\ answer \in {"done", "failed"} => ~Running(effect[e].job)
           /\ effect' = [effect EXCEPT ![e].at = "heard", ![e].heard = answer]
    BY DEF EstPollLands
  <1>3. effect' = [effect EXCEPT ![e] = Moved(e, "heard", answer, effect[e].fails)]
    BY <1>1, <1>2 DEF Moved, EstIInv, EstTypeOK, Closure
  <1>4. /\ effect[e].fails \in 0..MaxEstFailures - 1
        /\ ~effect[e].cancelled
    BY <1>1 DEF EstIInv, EstTypeOK, Closure, EffectKnows
  <1> QED
    BY <1>1, <1>2, <1>3, <1>4, Moves

LEMMA Hears ==
  ASSUME EstIInv, NEW e \in Effect, EstHear(e)
  PROVE  EstIInv'
  <1>1. /\ effect[e].at = "heard" /\ effect[e].viewer \in Viewer /\ effect[e].pair \in Pair
        /\ effect[e].job \in Effect
        /\ UNCHANGED <<selected, due, current, estimate>>
    BY DEF EstHear, EstIInv, EstTypeOK, Closure, EffectKnows
  <1>2. CASE effect[e].cancelled /\ Ended(e) /\ UNCHANGED <<fetched, deleted>>
    <2>1. effect[e].job \in deleted /\ Filed'
      BY <1>1, <1>2 DEF EstIInv, Holds, Filed
    <2> QED  BY <1>1, <1>2, <2>1, EffectEnds DEF EstIInv, EstTypeOK
  <1>3. CASE /\ effect[e].heard = "done" /\ Succeed(e, estimate[effect[e].job].pair)
             /\ Ended(e) /\ UNCHANGED deleted
    <2>1. ~Running(effect[e].job) /\ estimate[effect[e].job].pair = effect[e].pair
      BY <1>1, <1>3, EffectFacts DEF EstIInv, Holds
    <2>2. fetched' \in [Viewer -> [pair : Pair \cup {NoPair}, data : Pair \cup {NoPair},
                                   error : BOOLEAN, inFlight : BOOLEAN]] /\ Filed'
      <3> DEFINE values == [NoFetch EXCEPT !.pair = effect[e].pair, !.data = effect[e].pair]
      <3>1. /\ values \in [pair : Pair \cup {NoPair}, data : Pair \cup {NoPair},
                           error : BOOLEAN, inFlight : BOOLEAN]
            /\ values.data = values.pair
        BY <1>1 DEF NoFetch
      <3>2. fetched' = fetched \/ fetched' = [fetched EXCEPT ![effect[e].viewer] = values]
        BY <1>3, <2>1 DEF Succeed
      <3> HIDE DEF values
      <3>3. fetched \in [Viewer -> [pair : Pair \cup {NoPair}, data : Pair \cup {NoPair},
                                    error : BOOLEAN, inFlight : BOOLEAN]] /\ Filed
        BY DEF EstIInv, EstTypeOK
      <3>4. CASE fetched' = fetched
        BY <3>3, <3>4 DEF Filed
      <3>5. CASE fetched' = [fetched EXCEPT ![effect[e].viewer] = values]
        BY <1>1, <3>1, <3>3, <3>5 DEF Filed
      <3> QED  BY <3>2, <3>4, <3>5
    <2> QED  BY <1>1, <1>3, <2>1, <2>2, EffectEnds DEF EstIInv, EstTypeOK
  <1>4. CASE effect[e].heard = "failed" /\ Fail(e) /\ Ended(e) /\ UNCHANGED deleted
    <2>1. ~Running(effect[e].job)
      BY <1>1, <1>4 DEF EstIInv, Holds
    <2> QED  BY <1>1, <1>4, <2>1, FailKeeps, EffectEnds DEF EstIInv, EstTypeOK
  <1>5. ASSUME NEW fails \in 0..MaxEstFailures - 1, ~effect[e].cancelled,
               effect' = [effect EXCEPT ![e].at = "poll", ![e].heard = "none", ![e].fails = fails],
               UNCHANGED <<fetched, deleted>>
        PROVE  EstIInv'
    <2>1. effect' = [effect EXCEPT ![e] = Moved(e, "poll", "none", fails)]
      BY <1>1, <1>5 DEF Moved, EstIInv, EstTypeOK, Closure
    <2> QED  BY <1>1, <1>5, <2>1, Moves
  <1>6. CASE CancelJob(effect[e].job) /\ Fail(e) /\ Ended(e)
    <2>1. effect[e].job \in deleted' /\ deleted \subseteq deleted' /\ deleted' \subseteq Effect
      BY <1>1, <1>6, EffectFacts DEF CancelJob, EstIInv, EstTypeOK
    <2> QED  BY <1>1, <1>6, <2>1, FailKeeps, EffectEnds
  <1>7. ~EstGivesUp(e) => EstFails(e) \in 0..MaxEstFailures - 1
    BY EstAssumption DEF EstGivesUp, EstFails, EstIInv, EstTypeOK, Closure
  <1>8. \/ effect[e].cancelled /\ Ended(e) /\ UNCHANGED <<fetched, deleted>>
        \/ /\ effect[e].heard = "done" /\ Succeed(e, estimate[effect[e].job].pair)
           /\ Ended(e) /\ UNCHANGED deleted
        \/ effect[e].heard = "failed" /\ Fail(e) /\ Ended(e) /\ UNCHANGED deleted
        \/ \E fails \in {0, EstFails(e)} :
              /\ fails \in 0..MaxEstFailures - 1 /\ ~effect[e].cancelled
              /\ effect' = [effect EXCEPT ![e].at = "poll", ![e].heard = "none", ![e].fails = fails]
              /\ UNCHANGED <<fetched, deleted>>
        \/ CancelJob(effect[e].job) /\ Fail(e) /\ Ended(e)
    BY <1>1, <1>7, EffectFacts DEF EstHear, EstIInv, EstTypeOK
  <1> QED
    BY <1>2, <1>3, <1>4, <1>5, <1>6, <1>8

LEMMA Settles ==
  ASSUME EstIInv, NEW j \in Effect, EstimateSettles(j)
  PROVE  EstIInv'
  <1>1. UNCHANGED <<selected, due, current, fetched, effect>> /\ estimate[j].state = "running"
    BY DEF EstimateSettles, Running
  <1>2. CASE /\ \E e \in Effect : effect[e].job = j
             /\ estimate' = [estimate EXCEPT ![j].state = "over"]
             /\ UNCHANGED deleted
    BY <1>1, <1>2
    DEF EstIInv, EstTypeOK, Filed, EffectKnows, Holds, Early, EstimatesTracked, Running
  <1>3. CASE /\ \A e \in Effect : effect[e].job # j
             /\ estimate' = [estimate EXCEPT ![j] = [pair |-> NoPair, state |-> "none"]]
             /\ deleted' = deleted \ {j}
    BY <1>1, <1>3, EffectFacts
    DEF EstIInv, EstTypeOK, Filed, EffectKnows, Holds, Early, EstimatesTracked, Running
  <1> QED
    BY <1>2, <1>3 DEF EstimateSettles

-----------------------------------------------------------------------------

LEMMA EstNextIInv == EstIInv /\ [EstNext]_estVars => EstIInv'
  <1> SUFFICES ASSUME EstIInv, [EstNext]_estVars PROVE EstIInv'
    OBVIOUS
  <1>1. ASSUME NEW v \in Viewer, RunEffect(v) PROVE EstIInv'
    BY <1>1, RunsEffect
  <1>2. ASSUME NEW v \in Viewer, NEW p \in Pair \cup {NoPair}, Select(v, p) PROVE EstIInv'
    BY <1>2, Selects
  <1>3. ASSUME NEW e \in Effect, EffectStep(e) PROVE EstIInv'
    BY <1>3, SubmissionLands, EffectBegins, Polls, Hears DEF EffectStep
  <1>4. ASSUME NEW e \in Effect, EstimateSettles(e) PROVE EstIInv'
    BY <1>4, Settles
  <1>5. CASE UNCHANGED estVars
    BY <1>5 DEF estVars, EstIInv, EstTypeOK, Filed, EffectKnows, Holds, Early, EstimatesTracked, Running
  <1> QED
    BY <1>1, <1>2, <1>3, <1>4, <1>5 DEF EstNext

\* The invariant, which the three theorems below take apart.
THEOREM EstInvariance == EstSpec => []EstIInv
  <1> QED
    BY EstInitIInv, EstNextIInv, PTL DEF EstSpec

\* The variables keep their types: among them, no more polls fail in a row than
\* retryOrAbandon allows.
THEOREM EstTypeCorrect == EstSpec => []EstTypeOK
  <1>1. EstIInv => EstTypeOK
    BY DEF EstIInv
  <1> QED
    BY <1>1, EstInvariance, PTL

\* The values a viewer shows are those of the pair it has selected.
THEOREM ShownCorrect == EstSpec => []ShownIsSelected
  <1>1. EstIInv => ShownIsSelected
    BY DEF EstIInv, Filed, ShownIsSelected, Shown, IsCurrent
  <1> QED
    BY <1>1, EstInvariance, PTL

\* No job runs that nobody polls and nobody asked to cancel, as long as its id
\* was not lost on the way to the browser.
THEOREM EstTrackedCorrect == EstSpec => []EstimatesTracked
  <1>1. EstIInv => EstimatesTracked
    BY DEF EstIInv
  <1> QED
    BY <1>1, EstInvariance, PTL
=============================================================================
