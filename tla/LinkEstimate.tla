----------------------------- MODULE LinkEstimate -----------------------------
(****************************************************************************)
(* The useLinkEstimate hook: viewers that select a (contributor, epoch) pair *)
(* each, one effect per selection that submits a link estimate and polls it, *)
(* and the service, which attaches a submission to the job already running  *)
(* for the same pair.  An effect outlives its selection while a fetch of it  *)
(* is in flight.                                                             *)
(****************************************************************************)
EXTENDS Naturals, FiniteSets

CONSTANTS
    Viewer,           \* mounted components, in one browser or several
    Pair,             \* (contributor, epoch) pairs
    Unsolvable,       \* those the service turns down or fails
    NoPair,
    MaxEffect,        \* bound: selections in all
    MaxEstFailures    \* MAX_CONSECUTIVE_POLL_FAILURES

ASSUME EstAssumption ==
    /\ Unsolvable \subseteq Pair
    /\ NoPair \notin Pair
    /\ MaxEffect \in Nat
    /\ MaxEstFailures \in Nat \ {0}

Effect == 1..MaxEffect
NoEffect == 0

VARIABLES
    selected,   \* the pair a viewer looks at, or NoPair
    due,        \* its effect has yet to run
    current,    \* the effect that ran last
    fetched,    \* fetchState of a viewer
    effect,     \* the closures
    estimate,   \* jobs of the service, by the effect that created them
    deleted     \* jobs a DELETE was sent for

estVars == <<selected, due, current, fetched, effect, estimate, deleted>>

NoFetch == [pair |-> NoPair, data |-> NoPair, error |-> FALSE, inFlight |-> FALSE]
Fresh == [viewer |-> NoPair, pair |-> NoPair, at |-> "unused", cancelled |-> FALSE,
          job |-> NoEffect, fails |-> 0, heard |-> "none"]

EstInit ==
    /\ selected = [v \in Viewer |-> NoPair]
    /\ due = [v \in Viewer |-> FALSE]
    /\ current = [v \in Viewer |-> NoEffect]
    /\ fetched = [v \in Viewer |-> NoFetch]
    /\ effect = [e \in Effect |-> Fresh]
    /\ estimate = [e \in Effect |-> [pair |-> NoPair, state |-> "none"]]
    /\ deleted = {}

\* What the hook returns: fetched state counts only for the current pair.
\* Mutant: any fetched state counts.
IsCurrentAny(v) == fetched[v].pair # NoPair
IsCurrent(v) == fetched[v].pair = selected[v]
Shown(v) == IF IsCurrent(v) /\ ~fetched[v].inFlight THEN fetched[v].data ELSE NoPair
Loading(v) == selected[v] # NoPair /\ (~IsCurrent(v) \/ fetched[v].inFlight)

Running(j) == estimate[j].state = "running"

\* A DELETE is sent once and may be lost; a cancelled job ends like a failed one.
CancelJob(j) == deleted' = IF j = NoEffect THEN deleted ELSE deleted \cup {j}

\* What is left of an effect that is over; a lost job id is remembered for
\* EstimatesTracked.
Over(closure) ==
    [Fresh EXCEPT !.at = "ended", !.cancelled = closure.cancelled,
                  !.heard = IF closure.heard = "lost" THEN "lost" ELSE "none"]

\* The job id an effect holds: none before the answer to its POST is read.
Known(e) ==
    IF e = NoEffect \/ effect[e].at \notin {"poll", "heard"} THEN NoEffect ELSE effect[e].job

\* The cleanup of an effect: its timer is cleared; a fetch in flight goes on.
\* Mutant: the fetch of a POST is dropped with it.
CleanedAtOnce(e) == Over(effect[e])
Cleaned(e) ==
    LET closure == [effect[e] EXCEPT !.cancelled = TRUE] IN
    IF closure.at \in {"poll", "ended"} THEN Over(closure) ELSE closure

\* A render with another pair (NoPair: none, or an unmount for good) precedes its effect.
Select(v, p) ==
    /\ p # selected[v]
    /\ ~due[v]
    /\ p # NoPair => \E e \in Effect : effect[e].at = "unused"
    /\ selected' = [selected EXCEPT ![v] = p]
    /\ due' = [due EXCEPT ![v] = TRUE]
    /\ UNCHANGED <<current, fetched, effect, estimate, deleted>>

\* The cleanup of the last effect and the next one up to its POST; StrictMode
\* invokes an effect again.
RunEffect(v) ==
    LET cleaned == [e \in Effect |-> IF e = current[v] THEN Cleaned(e) ELSE effect[e]]
        p == selected[v]
    IN  /\ due[v]
        /\ CancelJob(Known(current[v]))
        /\ \/ /\ p = NoPair
              /\ effect' = cleaned
              /\ current' = [current EXCEPT ![v] = NoEffect]
              /\ UNCHANGED fetched
              /\ due' = [due EXCEPT ![v] = FALSE]
           \/ \E e \in Effect :
                 /\ p # NoPair
                 /\ effect[e].at = "unused"
                 /\ \A f \in Effect : f < e => effect[f].at # "unused"
                 /\ effect' = [cleaned EXCEPT ![e] =
                                  [Fresh EXCEPT !.viewer = v, !.pair = p, !.at = "post"]]
                 /\ current' = [current EXCEPT ![v] = e]
                 /\ fetched' = [fetched EXCEPT ![v] = [NoFetch EXCEPT !.pair = p, !.inFlight = TRUE]]
                 /\ \E again \in BOOLEAN : due' = [due EXCEPT ![v] = again]
        /\ UNCHANGED <<selected, estimate>>

-----------------------------------------------------------------------------
(* One effect. *)

Goes(e, stage) == effect' = [effect EXCEPT ![e].at = stage]
Ended(e) == effect' = [effect EXCEPT ![e] = Over(effect[e])]

\* Mutant: the failure of a stale effect counts.
FailLate(e) ==
    fetched' = [fetched EXCEPT ![effect[e].viewer] =
                   [NoFetch EXCEPT !.pair = effect[e].pair, !.error = TRUE]]
Fail(e) ==
    IF effect[e].cancelled THEN UNCHANGED fetched
    ELSE fetched' = [fetched EXCEPT ![effect[e].viewer] =
                        [NoFetch EXCEPT !.pair = effect[e].pair, !.error = TRUE]]

Succeed(e, pair) ==
    IF effect[e].cancelled THEN UNCHANGED fetched
    ELSE fetched' = [fetched EXCEPT ![effect[e].viewer] =
                        [NoFetch EXCEPT !.pair = effect[e].pair, !.data = pair]]

\* The route: reject, attach to the running job of the pair, or create one; the
\* answer may be lost, after which the viewer does not know the job.
EstPostLands(e) ==
    LET p == effect[e].pair
        attachable == {j \in Effect : Running(j) /\ estimate[j].pair = p}
    IN  /\ effect[e].at = "post"
        /\ \/ /\ p \in Unsolvable
              /\ effect' = [effect EXCEPT ![e].at = "posted", ![e].heard = "rejected"]
              /\ UNCHANGED estimate
           \/ /\ effect' = [effect EXCEPT ![e].at = "posted", ![e].heard = "lost"]
              /\ estimate' = IF attachable # {} THEN estimate
                             ELSE [estimate EXCEPT ![e] = [pair |-> p, state |-> "running"]]
           \/ \E j \in attachable :
                 /\ effect' = [effect EXCEPT ![e].at = "posted", ![e].job = j]
                 /\ UNCHANGED estimate
           \/ /\ attachable = {}
              /\ estimate' = [estimate EXCEPT ![e] = [pair |-> p, state |-> "running"]]
              /\ effect' = [effect EXCEPT ![e].at = "posted", ![e].job = e]
        /\ UNCHANGED <<selected, due, current, fetched, deleted>>

EstStarted(e) ==
    /\ effect[e].at = "posted"
    /\ \/ /\ effect[e].heard # "none"
          /\ Fail(e)
          /\ Ended(e)
          /\ UNCHANGED deleted
       \/ /\ effect[e].heard = "none"
          /\ effect[e].cancelled
          /\ CancelJob(effect[e].job)
          /\ Ended(e)
          /\ UNCHANGED fetched
       \/ /\ effect[e].heard = "none"
          /\ ~effect[e].cancelled
          /\ Goes(e, "poll")
          /\ UNCHANGED <<fetched, deleted>>
    /\ UNCHANGED <<selected, due, current, estimate>>

\* A failed, a cancelled and an expired job read alike.  A poll fails ("blip") or
\* is answered with a body that cannot be read ("unread").
EstPollLands(e) ==
    /\ effect[e].at = "poll"
    /\ \E answer \in {"blip", "unread"} \cup (IF Running(effect[e].job) THEN {"running"} ELSE {"done", "failed"}) :
          effect' = [effect EXCEPT ![e].at = "heard", ![e].heard = answer]
    /\ UNCHANGED <<selected, due, current, fetched, estimate, deleted>>

\* retryOrAbandon.  The count starts anew as soon as an answer has arrived,
\* before its body is read.
EstFails(e) == IF effect[e].heard = "unread" THEN 1 ELSE effect[e].fails + 1
EstGivesUp(e) == EstFails(e) >= MaxEstFailures

EstHear(e) ==
    /\ effect[e].at = "heard"
    /\ \/ /\ effect[e].cancelled
          /\ Ended(e)
          /\ UNCHANGED <<fetched, deleted>>
       \/ /\ ~effect[e].cancelled
          /\ effect[e].heard = "done"
          /\ Succeed(e, estimate[effect[e].job].pair)
          /\ Ended(e)
          /\ UNCHANGED deleted
       \/ /\ ~effect[e].cancelled
          /\ effect[e].heard = "failed"
          /\ Fail(e)
          /\ Ended(e)
          /\ UNCHANGED deleted
       \/ /\ ~effect[e].cancelled
          /\ effect[e].heard = "running"
          /\ effect' = [effect EXCEPT ![e].at = "poll", ![e].heard = "none", ![e].fails = 0]
          /\ UNCHANGED <<fetched, deleted>>
       \/ /\ ~effect[e].cancelled
          /\ effect[e].heard \in {"blip", "unread"}
          /\ ~EstGivesUp(e)
          /\ effect' = [effect EXCEPT ![e].at = "poll", ![e].heard = "none",
                                      ![e].fails = EstFails(e)]
          /\ UNCHANGED <<fetched, deleted>>
       \/ /\ ~effect[e].cancelled
          /\ effect[e].heard \in {"blip", "unread"}
          /\ EstGivesUp(e)
          /\ CancelJob(effect[e].job)
          /\ Fail(e)
          /\ Ended(e)
    /\ UNCHANGED <<selected, due, current, estimate>>

\* A job nobody polls any more is forgotten when it settles.
EstimateSettles(j) ==
    /\ Running(j)
    /\ IF \E e \in Effect : effect[e].job = j
       THEN /\ estimate' = [estimate EXCEPT ![j].state = "over"]
            /\ UNCHANGED deleted
       ELSE /\ estimate' = [estimate EXCEPT ![j] = [pair |-> NoPair, state |-> "none"]]
            /\ deleted' = deleted \ {j}
    /\ UNCHANGED <<selected, due, current, fetched, effect>>

-----------------------------------------------------------------------------

EffectStep(e) == EstPostLands(e) \/ EstStarted(e) \/ EstPollLands(e) \/ EstHear(e)

EstNext ==
    \/ \E v \in Viewer : RunEffect(v) \/ \E p \in Pair \cup {NoPair} : Select(v, p)
    \/ \E e \in Effect : EffectStep(e) \/ EstimateSettles(e)

EstSpec == EstInit /\ [][EstNext]_estVars

EstFair ==
    /\ \A v \in Viewer : WF_estVars(RunEffect(v))
    /\ \A e \in Effect : WF_estVars(EffectStep(e)) /\ WF_estVars(EstimateSettles(e))

EstFairSpec == EstSpec /\ EstFair

-----------------------------------------------------------------------------

Closure ==
    [viewer : Viewer \cup {NoPair}, pair : Pair \cup {NoPair},
     at : {"unused", "post", "posted", "poll", "heard", "ended"}, cancelled : BOOLEAN,
     job : Effect \cup {NoEffect}, fails : 0..MaxEstFailures - 1,
     heard : {"none", "rejected", "lost", "blip", "unread", "running", "done", "failed"}]
EstTypeOK ==
    /\ selected \in [Viewer -> Pair \cup {NoPair}]
    /\ due \in [Viewer -> BOOLEAN]
    /\ current \in [Viewer -> Effect \cup {NoEffect}]
    /\ fetched \in [Viewer -> [pair : Pair \cup {NoPair}, data : Pair \cup {NoPair},
                               error : BOOLEAN, inFlight : BOOLEAN]]
    /\ effect \in [Effect -> Closure]
    /\ estimate \in [Effect -> [pair : Pair \cup {NoPair}, state : {"none", "running", "over"}]]
    /\ deleted \subseteq Effect

\* The values on screen are those of the pair on screen, whatever a late answer
\* to an earlier selection brings.
ShownIsSelected == \A v \in Viewer : Shown(v) \in {NoPair, selected[v]}

\* No solve runs that nobody polls and nobody asked to cancel, unless its id
\* never reached the browser: an effect whose selection is gone before its POST
\* is answered still learns which job to cancel.
EstimatesTracked ==
    \A j \in Effect : estimate[j].state = "running" /\ j \notin deleted =>
        \/ effect[j].heard = "lost"
        \/ \E e \in Effect : effect[e].job = j /\ effect[e].at \in {"posted", "poll", "heard"}

\* The last poll of a viewer was answered with a body nobody can read.
Unreadable(v) == current[v] # NoEffect /\ effect[current[v]].heard = "unread"

\* No viewer that stays with its pair loads for ever, whatever is refused, lost or
\* fails: values or an error come.  Excepted is a service whose answers arrive
\* unreadable again and again, which the retry budget never counts up.
LoadingEnds == \A v \in Viewer : []<>(due[v] \/ ~Loading(v) \/ Unreadable(v))
=============================================================================
