--------------------------- MODULE BaselineFlight ---------------------------
(***************************************************************************)
(* Baselines on the synchronous routes (/shapley and /simulate): the       *)
(* one-epoch memory of a process, its S3 copy, and the single flight that  *)
(* lets one detached task solve an input while other requests wait for it  *)
(* (inflight.rs; routes.rs, try_cached_baseline to shapley).               *)
(*                                                                         *)
(* pc[q]:   new, lookup, keep, join, follow, await, seed, end              *)
(* task[q]: none, recheck, relookup, rekeep, solve, write, finish,         *)
(*          release, done                the task spawned by a leader q    *)
(*                                                                         *)
(* An input is its hash.  `from' is the input some values were solved for, *)
(* `hash' the one they are filed under.                                    *)
(***************************************************************************)
EXTENDS Integers

CONSTANTS
    Process, Request, Hash,
    Unsolvable,     \* inputs the solver turns down
    None,
    MaxDisconnect,  \* requests dropped by their client or the 120 s timeout
    MaxMishap       \* panics, lost tasks, failed S3 calls and restarts

ASSUME HashAssumption ==
    /\ Unsolvable \subseteq Hash
    /\ None \notin Hash \union Request \union [hash : Hash, from : Hash]

ASSUME BoundAssumption == MaxDisconnect \in Nat /\ MaxMishap \in Nat

VARIABLES
    slot,           \* epoch_cache of a process: an epoch, or None
    stored,         \* the epochs in S3
    puts,           \* detached stores under way
    flight,         \* baseline_inflight: the leader of each hash
    at, input,      \* process and input of a request
    pc, task,
    got,            \* epoch read from S3, not yet kept
    leader,         \* whom a follower waits for
    result, chan,   \* result of a task, and its channel: open, sent or gone
    answer, seed,   \* what a request was told; whose values its what-if reused
    disconnects, mishaps

cacheVars == <<slot, stored, puts>>
taskVars == <<task, result, chan>>
boundVars == <<disconnects, mishaps>>
vars == <<cacheVars, flight, at, input, pc, taskVars, got, leader, answer, seed, boundVars>>

Epoch == [hash : Hash, from : Hash]
Outcome == [kind : {"none", "solved", "rejected", "failed"}, from : Hash \union {None}]

Solved(h) == [kind |-> "solved", from |-> h]
Rejected == [kind |-> "rejected", from |-> None]
Failed == [kind |-> "failed", from |-> None]
Silence == [kind |-> "none", from |-> None]

TypeOK ==
    /\ slot \in [Process -> Epoch \union {None}]
    /\ stored \in [Hash -> Epoch \union {None}]
    /\ puts \in SUBSET (Process \X Epoch)
    /\ flight \in [Process -> [Hash -> Request \union {None}]]
    /\ at \in [Request -> Process] /\ input \in [Request -> Hash]
    /\ pc \in [Request -> {"new", "lookup", "keep", "join", "follow", "await", "seed", "end"}]
    /\ task \in [Request -> {"none", "recheck", "relookup", "rekeep", "solve",
                             "write", "finish", "release", "done"}]
    /\ got \in [Request -> Epoch \union {None}]
    /\ leader \in [Request -> Request \union {None}]
    /\ result \in [Request -> Outcome] /\ chan \in [Request -> {"open", "sent", "gone"}]
    /\ answer \in [Request -> Outcome] /\ seed \in [Request -> Hash \union {None}]
    /\ disconnects \in 0..MaxDisconnect /\ mishaps \in 0..MaxMishap

Init ==
    /\ slot = [p \in Process |-> None]
    /\ stored = [h \in Hash |-> None]
    /\ puts = {}
    /\ flight = [p \in Process |-> [h \in Hash |-> None]]
    /\ at \in [Request -> Process] /\ input \in [Request -> Hash]
    /\ pc = [q \in Request |-> "new"] /\ task = [q \in Request |-> "none"]
    /\ got = [q \in Request |-> None] /\ leader = [q \in Request |-> None]
    /\ result = [q \in Request |-> Silence] /\ chan = [q \in Request |-> "open"]
    /\ answer = [q \in Request |-> Silence] /\ seed = [q \in Request |-> None]
    /\ disconnects = 0 /\ mishaps = 0

Goto(q, where) == pc' = [pc EXCEPT ![q] = where]
Work(q, where) == task' = [task EXCEPT ![q] = where]

Mishap ==
    /\ mishaps < MaxMishap
    /\ mishaps' = mishaps + 1
    /\ UNCHANGED disconnects

\* The memory of the process, or S3, holds this epoch.
Holds(e, q) == e # None /\ e.hash = input[q]

\* /simulate goes on with the baseline it was given.
Serve(q, o) ==
    /\ answer' = [answer EXCEPT ![q] = o]
    /\ IF o.kind = "solved" THEN Goto(q, "seed") \/ Goto(q, "end")
                            ELSE Goto(q, "end")

-----------------------------------------------------------------------------
(* A request: memory, S3, then the flight.                                 *)

PeekMemory(q) ==
    /\ pc[q] = "new"
    /\ LET e == slot[at[q]]
       IN  IF Holds(e, q) THEN Serve(q, Solved(e.from))
                          ELSE Goto(q, "lookup") /\ UNCHANGED answer
    /\ UNCHANGED <<cacheVars, flight, at, input, taskVars, got, leader, seed, boundVars>>

\* A failed read is a miss.
Lookup(q) ==
    /\ pc[q] = "lookup"
    /\ LET e == stored[input[q]]
       IN  \/ /\ Holds(e, q)
              /\ got' = [got EXCEPT ![q] = e]
              /\ Goto(q, "keep") /\ UNCHANGED boundVars
           \/ /\ IF Holds(e, q) THEN Mishap ELSE UNCHANGED boundVars
              /\ Goto(q, "join") /\ UNCHANGED got
    /\ UNCHANGED <<cacheVars, flight, at, input, taskVars, leader, answer, seed>>

Keep(q) ==
    /\ pc[q] = "keep"
    /\ slot' = [slot EXCEPT ![at[q]] = got[q]]
    /\ Serve(q, Solved(got[q].from))
    /\ UNCHANGED <<stored, puts, flight, at, input, taskVars, got, leader, seed, boundVars>>

\* Variant: the leader solves without looking again.
JoinSolving(q) ==
    LET p == at[q]  h == input[q]
    IN  /\ pc[q] = "join"
        /\ IF flight[p][h] = None
           THEN /\ flight' = [flight EXCEPT ![p][h] = q]
                /\ Work(q, "solve") /\ Goto(q, "await") /\ UNCHANGED leader
           ELSE /\ leader' = [leader EXCEPT ![q] = flight[p][h]]
                /\ Goto(q, "follow") /\ UNCHANGED <<flight, task>>
        /\ UNCHANGED <<cacheVars, at, input, result, chan, got, answer, seed, boundVars>>

Join(q) ==
    LET p == at[q]  h == input[q]
    IN  /\ pc[q] = "join"
        /\ IF flight[p][h] = None
           THEN /\ flight' = [flight EXCEPT ![p][h] = q]
                /\ Work(q, "recheck") /\ Goto(q, "await") /\ UNCHANGED leader
           ELSE /\ leader' = [leader EXCEPT ![q] = flight[p][h]]
                /\ Goto(q, "follow") /\ UNCHANGED <<flight, task>>
        /\ UNCHANGED <<cacheVars, at, input, result, chan, got, answer, seed, boundVars>>

\* await_leader.
Follow(q) ==
    /\ pc[q] = "follow" /\ chan[leader[q]] # "open"
    /\ Serve(q, IF chan[leader[q]] = "sent" THEN result[leader[q]] ELSE Failed)
    /\ UNCHANGED <<cacheVars, flight, at, input, taskVars, got, leader, seed, boundVars>>

\* The leader awaits its own task.
Await(q) ==
    /\ pc[q] = "await" /\ task[q] = "done"
    /\ Serve(q, IF chan[q] = "sent" THEN result[q] ELSE Failed)
    /\ UNCHANGED <<cacheVars, flight, at, input, taskVars, got, leader, seed, boundVars>>

\* The what-if of /simulate reuses the memory, whoever filled it since.
Seed(q) ==
    /\ pc[q] = "seed"
    /\ LET e == slot[at[q]]
       IN  seed' = [seed EXCEPT ![q] = IF Holds(e, q) THEN e.from ELSE None]
    /\ Goto(q, "end")
    /\ UNCHANGED <<cacheVars, flight, at, input, taskVars, got, leader, answer, boundVars>>

-----------------------------------------------------------------------------
(* The leader's detached task.                                             *)

Conclude(q, o) ==
    /\ result' = [result EXCEPT ![q] = o]
    /\ Work(q, "finish")

Recheck(q) ==
    /\ task[q] = "recheck"
    /\ LET e == slot[at[q]]
       IN  IF Holds(e, q) THEN Conclude(q, Solved(e.from))
                          ELSE Work(q, "relookup") /\ UNCHANGED result
    /\ UNCHANGED <<cacheVars, flight, at, input, pc, chan, got, leader, answer, seed, boundVars>>

Relookup(q) ==
    /\ task[q] = "relookup"
    /\ LET e == stored[input[q]]
       IN  \/ /\ Holds(e, q)
              /\ got' = [got EXCEPT ![q] = e]
              /\ Work(q, "rekeep") /\ UNCHANGED boundVars
           \/ /\ IF Holds(e, q) THEN Mishap ELSE UNCHANGED boundVars
              /\ Work(q, "solve") /\ UNCHANGED got
    /\ UNCHANGED <<cacheVars, flight, at, input, pc, result, chan, leader, answer, seed>>

Rekeep(q) ==
    /\ task[q] = "rekeep"
    /\ slot' = [slot EXCEPT ![at[q]] = got[q]]
    /\ Conclude(q, Solved(got[q].from))
    /\ UNCHANGED <<stored, puts, flight, at, input, pc, chan, got, leader, answer, seed, boundVars>>

\* A panic of the blocking solve is a message like the solver's own.
Solve(q) ==
    /\ task[q] = "solve"
    /\ \/ /\ input[q] \notin Unsolvable
          /\ Work(q, "write") /\ UNCHANGED <<result, boundVars>>
       \/ /\ IF input[q] \in Unsolvable THEN UNCHANGED boundVars ELSE Mishap
          /\ Conclude(q, Rejected)
    /\ UNCHANGED <<cacheVars, flight, at, input, pc, chan, got, leader, answer, seed>>

\* Variant: the values go into whatever epoch is in memory.
EpochMerged(p, h) ==
    IF slot[p] = None THEN [hash |-> h, from |-> h] ELSE [slot[p] EXCEPT !.from = h]

\* An epoch of another input is dropped first.
EpochWith(p, h) == [hash |-> h, from |-> h]

WriteMemory(q) ==
    LET p == at[q]
        e == EpochWith(p, input[q])
    IN  /\ task[q] = "write"
        /\ slot' = [slot EXCEPT ![p] = e]
        /\ puts' = puts \union {<<p, e>>}
        /\ Conclude(q, Solved(e.from))
        /\ UNCHANGED <<stored, flight, at, input, pc, chan, got, leader, answer, seed, boundVars>>

\* LeaderGuard::finish.
Finish(q) ==
    /\ task[q] = "finish"
    /\ chan' = [chan EXCEPT ![q] = "sent"]
    /\ Work(q, "release")
    /\ UNCHANGED <<cacheVars, flight, at, input, pc, result, got, leader, answer, seed, boundVars>>

\* Variant: only finish releases the hash.
ReleaseSent(q) ==
    /\ task[q] = "release" /\ chan[q] = "sent"
    /\ flight' = [flight EXCEPT ![at[q]][input[q]] = None]
    /\ Work(q, "done")
    /\ UNCHANGED <<cacheVars, at, input, pc, result, chan, got, leader, answer, seed, boundVars>>

\* Drop of the guard, and of the sender in it.
Release(q) ==
    /\ task[q] = "release"
    /\ flight' = [flight EXCEPT ![at[q]][input[q]] = None]
    /\ chan' = [chan EXCEPT ![q] = IF @ = "open" THEN "gone" ELSE @]
    /\ Work(q, "done")
    /\ UNCHANGED <<cacheVars, at, input, pc, result, got, leader, answer, seed, boundVars>>

\* The task is aborted, or panics: its guard drops without a result.
TaskDies(q) ==
    /\ task[q] \notin {"none", "release", "done"}
    /\ Mishap
    /\ Work(q, "release")
    /\ UNCHANGED <<cacheVars, flight, at, input, pc, result, chan, got, leader, answer, seed>>

-----------------------------------------------------------------------------
(* The detached store, and what befalls requests and processes.            *)

PutLands ==
    /\ \E w \in puts :
          /\ stored' = [stored EXCEPT ![w[2].hash] = w[2]]
          /\ puts' = puts \ {w}
    /\ UNCHANGED <<slot, flight, at, input, pc, taskVars, got, leader, answer, seed, boundVars>>

PutFails ==
    /\ Mishap
    /\ \E w \in puts : puts' = puts \ {w}
    /\ UNCHANGED <<slot, stored, flight, at, input, pc, taskVars, got, leader, answer, seed>>

Droppable(q) == pc[q] \notin {"new", "join", "end"}

\* Variant: the guard belongs to the request.
DisconnectReleasing(q) ==
    /\ Droppable(q) /\ disconnects < MaxDisconnect
    /\ disconnects' = disconnects + 1
    /\ Goto(q, "end")
    /\ flight' = IF pc[q] = "await" THEN [flight EXCEPT ![at[q]][input[q]] = None] ELSE flight
    /\ UNCHANGED <<cacheVars, at, input, taskVars, got, leader, answer, seed, mishaps>>

\* Variant: the solve belongs to the request.
DisconnectAborting(q) ==
    /\ Droppable(q) /\ disconnects < MaxDisconnect
    /\ disconnects' = disconnects + 1
    /\ Goto(q, "end")
    /\ IF pc[q] = "await" THEN Work(q, IF task[q] = "done" THEN "done" ELSE "release")
                          ELSE UNCHANGED task
    /\ UNCHANGED <<cacheVars, flight, at, input, result, chan, got, leader, answer, seed, mishaps>>

\* The future of the request is dropped; its task is not.
Disconnect(q) ==
    /\ Droppable(q) /\ disconnects < MaxDisconnect
    /\ disconnects' = disconnects + 1
    /\ Goto(q, "end")
    /\ UNCHANGED <<cacheVars, flight, at, input, taskVars, got, leader, answer, seed, mishaps>>

Restart(p) ==
    LET lost == {q \in Request : at[q] = p /\ pc[q] # "new"}
    IN  /\ Mishap
        /\ slot' = [slot EXCEPT ![p] = None]
        /\ puts' = {w \in puts : w[1] # p}
        /\ flight' = [flight EXCEPT ![p] = [h \in Hash |-> None]]
        /\ pc' = [q \in Request |-> IF q \in lost THEN "end" ELSE pc[q]]
        /\ task' = [q \in Request |->
                      IF q \in lost /\ task[q] # "none" THEN "done" ELSE task[q]]
        /\ UNCHANGED <<stored, at, input, result, chan, got, leader, answer, seed>>

RequestStep(q) ==
    \/ Lookup(q) \/ Keep(q) \/ Join(q) \/ Follow(q) \/ Await(q) \/ Seed(q)

TaskStep(q) ==
    \/ Recheck(q) \/ Relookup(q) \/ Rekeep(q)
    \/ Solve(q) \/ WriteMemory(q) \/ Finish(q) \/ Release(q)

Next ==
    \/ \E q \in Request :
          \/ PeekMemory(q) \/ RequestStep(q) \/ TaskStep(q)
          \/ TaskDies(q) \/ Disconnect(q)
    \/ PutLands \/ PutFails
    \/ \E p \in Process : Restart(p)

Spec == Init /\ [][Next]_vars

\* The runtime polls every task, and S3 answers or times out.
Fairness ==
    /\ \A q \in Request : WF_vars(RequestStep(q)) /\ WF_vars(TaskStep(q))
    /\ WF_vars(PutLands)

FairSpec == Spec /\ Fairness

-----------------------------------------------------------------------------
(* Properties.                                                             *)

\* One task of a process works on an input at a time, even when the request
\* that started it is gone.
OneSolver ==
    \A q, r \in Request :
        /\ task[q] \notin {"none", "done"} /\ task[r] \notin {"none", "done"}
        /\ at[q] = at[r] /\ input[q] = input[r]
        => q = r

\* A request is told values solved for its own input, and its what-if reuses
\* no others, although the memory holds one input at a time and any request
\* may replace it.
OwnValues ==
    \A q \in Request :
        /\ answer[q].kind = "solved" => answer[q].from = input[q]
        /\ seed[q] \in {None, input[q]}

\* All requests the solver does not turn down are for the same input.
OneInput ==
    \A q, r \in Request :
        input[q] \notin Unsolvable /\ input[r] \notin Unsolvable => input[q] = input[r]

\* Without a mishap, and while one input is in use, nothing is solved that is
\* in memory: a leader that lost the race serves what landed.  Only what
\* another process solved meanwhile may come from S3 beside it.  A second
\* input would take the only slot.
NotSolvedAgain ==
    mishaps = 0 /\ OneInput =>
        \A q \in Request :
            task[q] \in {"solve", "write"} /\ Holds(slot[at[q]], q) =>
                \E r \in Request : at[r] # at[q] /\ result[r] = Solved(input[q])

\* Whoever stays connected is answered, whatever becomes of the leader.
Answered == \A q \in Request : pc[q] # "new" ~> pc[q] = "end"

\* A solve that began lands in S3 although its client went away, unless the
\* task, its store or its process is lost.
ResultLands ==
    \A q \in Request :
        task[q] = "recheck" /\ input[q] \notin Unsolvable
            ~> stored[input[q]] # None \/ mishaps > 0
=============================================================================
