------------------------------ MODULE SimulateTab ------------------------------
(****************************************************************************)
(* The what-if tab of the simulator: the edit set kept in the URL, the modal, *)
(* and the runs of handleSimulate, each a loop of its own that starts a job  *)
(* and polls it.  All runs of a tab share one cancel flag, one job id and    *)
(* one set of React states; an action is a click or the code between two     *)
(* awaits of one loop.                                                       *)
(****************************************************************************)
EXTENDS Naturals, FiniteSets

CONSTANTS
    Scenario,          \* a contributor with the edit set of the URL
    Blank,             \* those without edits
    None,
    MaxRun,            \* bound: runs of handleSimulate in one visit
    MaxPollFailures,   \* MAX_CONSECUTIVE_POLL_FAILURES
    MaxCancelAttempts  \* CANCEL_MAX_ATTEMPTS

ASSUME TabAssumption ==
    /\ Blank \subseteq Scenario
    /\ MaxRun \in Nat
    /\ None \notin Scenario \cup 1..MaxRun
    /\ MaxPollFailures \in Nat \ {0}
    /\ MaxCancelAttempts \in Nat \ {0}

Run == 1..MaxRun

VARIABLES
    scenario,   \* remove, add and demand of the URL
    result,     \* simResult: the edit set it answers, or None
    loading,    \* simLoading
    error,      \* simError is set
    modal,      \* showJobModal
    jobState,   \* what the modal shows
    cancelled,  \* cancelledRef
    jobId,      \* jobIdRef: a run stands for the job it started
    shared,     \* autoRunOnMount
    autoRun,    \* the run of a shared link has yet to be fired
    run,        \* the loops
    job,        \* the service's jobs, by the run that started them
    cancels,    \* attempts left of requestCancel, by job
    unconfirmed, \* jobs whose requestCancel ended with its warning
    overlapped  \* history: a run began while the loop of another was alive

shown == <<scenario, result, loading, error, modal, jobState>>
refs == <<cancelled, jobId, shared, autoRun, overlapped>>
service == <<job, cancels, unconfirmed>>
tabVars == <<shown, refs, run, service>>

Idle == [at |-> "unused", edits |-> None, fails |-> 0, opened |-> FALSE, heard |-> "none"]
Live(r) == run[r].at \in {"post", "posted", "poll", "heard"}
AnyLive == \E r \in Run : Live(r)
HasChanges == scenario \notin Blank
Ready == ~autoRun   \* effects run before the next click

TabInit ==
    /\ scenario \in Scenario
    /\ shared \in BOOLEAN
    /\ shared => HasChanges
    /\ autoRun = shared
    /\ loading = autoRun
    /\ jobState = IF autoRun THEN "running" ELSE "confirming"
    /\ result = None
    /\ error = FALSE
    /\ modal = FALSE
    /\ cancelled = FALSE
    /\ jobId = None
    /\ run = [r \in Run |-> Idle]
    /\ job = [r \in Run |-> "none"]
    /\ cancels = [r \in Run |-> 0]
    /\ unconfirmed = {}
    /\ overlapped = FALSE

-----------------------------------------------------------------------------
(* The cards on screen: those of the modal, and those of the page behind it. *)

ConfirmCard == modal /\ jobState = "confirming"
RunningCard == modal /\ jobState = "running"
DoneCard == modal /\ jobState = "done" /\ result # None
FailedCard == modal /\ jobState = "error"
ReviewCard == HasChanges /\ result = None
ErrorCard == error
SharedLoader == shared /\ loading /\ result = None /\ ~modal
ResultsCard == result # None
CalculateEnabled == HasChanges /\ ~loading

-----------------------------------------------------------------------------
(* The user. *)

\* handleSimulate up to its POST.
Begin(r, deferred) ==
    /\ run[r].at = "unused"
    /\ \A q \in Run : q < r => run[q].at # "unused"
    /\ run' = [run EXCEPT ![r] = [Idle EXCEPT !.at = "post", !.edits = scenario, !.opened = ~deferred]]
    /\ loading' = TRUE
    /\ error' = FALSE
    /\ result' = None
    /\ cancelled' = FALSE
    /\ jobId' = None
    /\ overlapped' = (overlapped \/ AnyLive)

AutoRun ==
    /\ autoRun
    /\ autoRun' = FALSE
    /\ \E r \in Run : Begin(r, TRUE)
    /\ UNCHANGED <<scenario, modal, jobState, shared, service>>

\* The Calculate button: it only opens the modal.
OpenModal ==
    /\ Ready
    /\ ~modal
    /\ CalculateEnabled
    /\ modal' = TRUE
    /\ jobState' = "confirming"
    /\ UNCHANGED <<scenario, result, loading, error, refs, run, service>>

Confirm ==
    /\ ConfirmCard
    /\ jobState' = "running"
    /\ \E r \in Run : Begin(r, FALSE)
    /\ UNCHANGED <<scenario, modal, shared, autoRun, service>>

\* Every edit handler; a modal in front of the page leaves only the browser's
\* history.  A changed edit set clears what was shown for the old one.
EditScenario ==
    /\ Ready
    /\ \E s \in Scenario \ {scenario} : scenario' = s
    /\ result' = None
    /\ error' = FALSE
    /\ UNCHANGED <<loading, modal, jobState, refs, run, service>>

Asked(id) == IF id = None THEN cancels ELSE [cancels EXCEPT ![id] = MaxCancelAttempts]

\* Cancel and Dismiss of the modal.
ModalCancel ==
    /\ modal' = FALSE
    /\ jobState' = "confirming"
    /\ \/ /\ ConfirmCard \/ FailedCard
          /\ error' = (error /\ jobState # "error")
          /\ UNCHANGED <<loading, cancelled, cancels>>
       \/ /\ RunningCard
          /\ cancelled' = TRUE
          /\ loading' = FALSE
          /\ cancels' = Asked(jobId)
          /\ UNCHANGED error
    /\ UNCHANGED <<scenario, result, jobId, shared, autoRun, overlapped, run, job, unconfirmed>>

\* Close, Escape or a click outside: blocked while a job runs.
CloseModal ==
    /\ modal
    /\ jobState # "running"
    /\ modal' = FALSE
    /\ UNCHANGED <<scenario, result, loading, error, jobState, refs, run, service>>

-----------------------------------------------------------------------------
(* A loop: POST, then GET until the job ends. *)

\* The finally clause runs whatever ends the loop; its local variables are gone,
\* but a lost job id is remembered for JobsTracked.  Mutant: no finally.
EndsLocked(r) ==
    /\ run' = [run EXCEPT ![r] = [Idle EXCEPT !.at = "ended"]]
    /\ UNCHANGED loading
Ends(r) ==
    /\ run' = [run EXCEPT ![r] = [Idle EXCEPT !.at = "ended",
                                  !.heard = IF run[r].heard = "lost" THEN "lost" ELSE "none"]]
    /\ loading' = FALSE

\* The service takes the job, or the route turns it down (at "refused").
PostLands(r) ==
    /\ run[r].at = "post"
    /\ \/ /\ job' = [job EXCEPT ![r] = "running"]
          /\ run' = [run EXCEPT ![r].at = "posted"]
       \/ /\ run' = [run EXCEPT ![r].at = "posted", ![r].heard = "refused"]
          /\ UNCHANGED job
       \/ /\ job' = [job EXCEPT ![r] = "running"]   \* the answer is lost
          /\ run' = [run EXCEPT ![r].at = "posted", ![r].heard = "lost"]
    /\ UNCHANGED <<shown, refs, cancels, unconfirmed>>

StartFails(r) ==
    /\ run[r].at = "posted"
    /\ run[r].heard # "none"
    /\ Ends(r)
    /\ error' = (error \/ ~cancelled)
    /\ jobState' = IF cancelled THEN jobState ELSE "error"
    /\ UNCHANGED <<scenario, result, modal, refs, service>>

\* Mutant: the cancel of a job not yet known is forgotten.
StartedForgetful(r) ==
    /\ run[r].at = "posted"
    /\ run[r].heard = "none"
    /\ jobId' = r
    /\ IF cancelled THEN Ends(r) ELSE run' = [run EXCEPT ![r].at = "poll"] /\ UNCHANGED loading
    /\ UNCHANGED <<scenario, result, error, modal, jobState, cancelled, shared, autoRun, overlapped, service>>
Started(r) ==
    /\ run[r].at = "posted"
    /\ run[r].heard = "none"
    /\ jobId' = r
    /\ \/ /\ cancelled
          /\ cancels' = Asked(r)
          /\ Ends(r)
       \/ /\ ~cancelled
          /\ run' = [run EXCEPT ![r].at = "poll"]
          /\ UNCHANGED <<loading, cancels>>
    /\ UNCHANGED <<scenario, result, error, modal, jobState, cancelled, shared, autoRun, overlapped, job, unconfirmed>>

\* What a GET may say of a job: a solve that failed and a job whose state has
\* aged out read alike.
Reads(r) ==
    CASE job[r] = "over" -> {"done", "failed"}
      [] job[r] = "cancelled" -> {"cancelled", "failed"}
      [] OTHER -> {"running"}

\* A GET reaches the service, or fails on the way.
PollLands(r) ==
    /\ run[r].at = "poll"
    /\ ~cancelled
    /\ \E answer \in Reads(r) \cup {"blip"} :
          run' = [run EXCEPT ![r].at = "heard", ![r].heard = answer]
    /\ UNCHANGED <<shown, refs, service>>

LoopCancelled(r) ==
    /\ run[r].at = "poll"
    /\ cancelled
    /\ Ends(r)
    /\ UNCHANGED <<scenario, result, error, modal, jobState, refs, service>>

HearDone(r) ==
    /\ run[r].at = "heard"
    /\ run[r].heard = "done"
    /\ result' = run[r].edits
    /\ jobState' = "done"
    /\ Ends(r)
    /\ UNCHANGED <<scenario, error, modal, refs, service>>

\* Mutant: the modal goes on computing.
HearFailedUnseen(r) ==
    /\ run[r].at = "heard"
    /\ run[r].heard = "failed"
    /\ error' = TRUE
    /\ Ends(r)
    /\ UNCHANGED <<scenario, result, modal, jobState, refs, service>>
HearFailed(r) ==
    /\ run[r].at = "heard"
    /\ run[r].heard = "failed"
    /\ error' = TRUE
    /\ jobState' = "error"
    /\ Ends(r)
    /\ UNCHANGED <<scenario, result, modal, refs, service>>

HearCancelled(r) ==
    /\ run[r].at = "heard"
    /\ run[r].heard = "cancelled"
    /\ modal' = FALSE
    /\ jobState' = "confirming"
    /\ Ends(r)
    /\ UNCHANGED <<scenario, result, error, refs, service>>

\* Still computing: a deferred run now shows the modal.
HearRunning(r) ==
    /\ run[r].at = "heard"
    /\ run[r].heard = "running"
    /\ run' = [run EXCEPT ![r].at = "poll", ![r].heard = "none",
                          ![r].fails = 0, ![r].opened = TRUE]
    /\ modal' = (modal \/ ~run[r].opened)
    /\ jobState' = IF run[r].opened THEN jobState ELSE "running"
    /\ UNCHANGED <<scenario, result, loading, error, refs, service>>

\* Failures in a row, this one included.  Mutant: they are not counted.
StrikesForgotten(r) == run[r].fails
Strikes(r) == run[r].fails + 1

HearBlip(r) ==
    /\ run[r].at = "heard"
    /\ run[r].heard = "blip"
    /\ \/ /\ cancelled
          /\ Ends(r)
          /\ UNCHANGED <<error, jobState, cancels>>
       \/ /\ ~cancelled
          /\ Strikes(r) < MaxPollFailures
          /\ run' = [run EXCEPT ![r].at = "poll", ![r].heard = "none", ![r].fails = Strikes(r)]
          /\ UNCHANGED <<loading, error, jobState, cancels>>
       \/ /\ ~cancelled
          /\ Strikes(r) >= MaxPollFailures
          /\ cancels' = Asked(r)
          /\ error' = TRUE
          /\ jobState' = "error"
          /\ Ends(r)
    /\ UNCHANGED <<scenario, result, modal, refs, job, unconfirmed>>

-----------------------------------------------------------------------------
(* requestCancel retries in the background; the service settles its jobs. *)

CancelTried(r) ==
    /\ cancels[r] > 0
    /\ \/ /\ cancels' = [cancels EXCEPT ![r] = 0]
          /\ job' = [job EXCEPT ![r] = IF @ = "running" THEN "cancelling" ELSE @]
          /\ UNCHANGED unconfirmed
       \/ /\ cancels' = [cancels EXCEPT ![r] = @ - 1]
          /\ unconfirmed' = IF cancels[r] = 1 THEN unconfirmed \cup {r} ELSE unconfirmed
          /\ UNCHANGED job
    /\ UNCHANGED <<shown, refs, run>>

\* How the job of a loop that has ended settles makes no difference.
JobSettles(r) ==
    /\ job[r] \in {"running", "cancelling"}
    /\ \/ job' = [job EXCEPT ![r] = "over"]
       \/ job[r] = "cancelling" /\ Live(r) /\ job' = [job EXCEPT ![r] = "cancelled"]
    /\ UNCHANGED <<shown, refs, run, cancels, unconfirmed>>

-----------------------------------------------------------------------------

UserStep == AutoRun \/ OpenModal \/ Confirm \/ EditScenario \/ ModalCancel \/ CloseModal

LoopStep(r) ==
    \/ PostLands(r) \/ StartFails(r) \/ Started(r)
    \/ PollLands(r) \/ LoopCancelled(r)
    \/ HearDone(r) \/ HearFailed(r) \/ HearCancelled(r) \/ HearRunning(r) \/ HearBlip(r)

ServiceStep(r) == CancelTried(r) \/ JobSettles(r)

TabNext == UserStep \/ \E r \in Run : LoopStep(r) \/ ServiceStep(r)

TabSpec == TabInit /\ [][TabNext]_tabVars

\* The browser runs the effect of a mount and the code after an await; every
\* fetch ends; the service settles the jobs it took.
TabFair ==
    /\ WF_tabVars(AutoRun)
    /\ \A r \in Run : WF_tabVars(LoopStep(r)) /\ WF_tabVars(JobSettles(r))

TabFairSpec == TabSpec /\ TabFair

-----------------------------------------------------------------------------

Loop ==
    [at : {"unused", "post", "posted", "poll", "heard", "ended"},
     edits : Scenario \cup {None},
     fails : 0..MaxPollFailures - 1,
     opened : BOOLEAN,
     heard : {"none", "refused", "lost", "blip", "running", "done", "failed", "cancelled"}]
TabTypeOK ==
    /\ scenario \in Scenario
    /\ result \in Scenario \cup {None}
    /\ loading \in BOOLEAN /\ error \in BOOLEAN /\ modal \in BOOLEAN
    /\ jobState \in {"confirming", "running", "done", "error"}
    /\ cancelled \in BOOLEAN
    /\ jobId \in Run \cup {None}
    /\ shared \in BOOLEAN /\ autoRun \in BOOLEAN
    /\ run \in [Run -> Loop]
    /\ job \in [Run -> {"none", "running", "cancelling", "over", "cancelled"}]
    /\ cancels \in [Run -> 0..MaxCancelAttempts]
    /\ unconfirmed \subseteq Run
    /\ overlapped \in BOOLEAN

\* What only a loop can undo is undone: the Calculate button is only locked, and
\* a modal that says "computing" (its Cancel button alone closes it) only shown,
\* while a loop is alive that will change it.  And while one run at a time is
\* started, no loop works unseen: until it is cancelled the reader sees a loader
\* or the modal's progress.
BusyIsLive ==
    /\ loading => autoRun \/ AnyLive
    /\ RunningCard => AnyLive
    /\ AnyLive /\ ~cancelled /\ ~overlapped => SharedLoader \/ RunningCard

\* As long as one run is started at a time, no worker computes a result nobody
\* tracks: a job is polled, or its cancellation is under way, has landed or was
\* tried the allowed number of times, or its id never reached the tab.
Tracked(r) ==
    \/ Live(r)
    \/ cancels[r] > 0 \/ r \in unconfirmed
    \/ run[r].heard = "lost"

JobsTracked == ~overlapped => \A r \in Run : job[r] = "running" => Tracked(r)

\* A loop that nobody cancelled ends with a verdict on screen: its own result,
\* an error, or the editor again for a job cancelled elsewhere.
EndsWithVerdict ==
    [][\A r \in Run : Live(r) /\ ~Live(r)' /\ ~cancelled =>
          \/ ResultsCard' /\ result' = run[r].edits /\ jobState' = "done"
          \/ ErrorCard' /\ jobState' = "error"
          \/ ~modal' /\ run[r].heard = "cancelled"]_tabVars

\* No loop goes on for ever, however often polls fail and whatever the user does.
LoopsEnd == \A r \in Run : []<>~Live(r)

\* "A stale result never paints over a different scenario" (simulate-tab.tsx).
ResultIsCurrent == result \in {None, scenario}
=============================================================================
