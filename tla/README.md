# Formal specification of dz-contributor

TLA+ models of the parts of this repository whose correctness depends on order:
the asynchronous compute queue, the epoch sweep, the baseline single flight and
the diff shape store of `services/shapley-rs`; the ingest cron of the web app
that feeds them; and, in the browser and the web app's routes, the scenario
editor, the runs of its jobs, the live pages, the caches of the read routes and
their rate limiter. TLC checks small instances; TLAPS proves the safety
properties that hold in them, all but one, and two refinements, for every value
of the constants.

Conventions: paths are relative to the repository root; Rust files without a
path are in `services/shapley-rs/src`. Definitions keep the names of the code
where they can. Definitions under a comment `Variant:` are plausible bugs of
the definition that follows them; no specification uses them, they are put in
place of the original to see that a property notices.

## The system

A Next.js app (`app/`, `components/`, `lib/`) shows a network's contributors,
links and rewards, and lets a user ask what a change of the topology would do to
the Shapley values of the operators. A Rust service (`services/shapley-rs`)
solves. It runs as an API role and a worker role over Redis (queue and job
state) and S3 (results). A cron of the web app, every six hours, precomputes
what the pages need.

| Component | State | Operations | Hard because of |
|---|---|---|---|
| Job store (`queue.rs`, `jobs.rs`) | Redis: `state:{job}`, `payload:{job}`, `cancel:{job}`, `inflight:{hash}`, `result:{hash}`, a stream with one consumer group | create, enqueue, claim and clear an in-flight hash, set a verdict, request a cancel, TTLs | several keys per job, no transaction; every key expires; the stream is trimmed |
| Submission (`routes.rs`) | none of its own | `simulate_start`, `link_estimate_start`, `job_cancel` | check-then-act over several Redis calls; handlers dropped at any await; lost replies |
| Worker (`worker.rs`) | the entries it holds | `run`, `reclaim`, `process_entry`, heartbeat, dead-lettering | at-least-once delivery, crashes between any two writes, a reclaim that takes ten entries at once |
| Sweep (`worker.rs`, `cache.rs`) | aliases and a marker per epoch tag | `run_sweep`, publication | marker must not precede aliases; children of several sweeps |
| Baseline single flight (`inflight.rs`, `routes.rs`) | one epoch in memory, a registry of flights, S3 | `shapley`, baseline phase of `simulate` | detached tasks, dropped leaders, followers, one memory slot for all inputs |
| Diff shape store (`diff_store.rs`) | S3 object per epoch, memory per process, cached latest epoch | `get`, `put`, `missing_epochs`, `latest_epoch` | conditional writes that race, are retried, or land late |
| Diff routes, diff (`diff_routes.rs`, `diff.rs`, `app/api/diff`) | none; what the CDN holds | PUT and GET shapes, changelog between two epochs | missing or late intermediate shapes; two diffs that must agree |
| Ingest cron (`lib/utils/precompute-ingest.ts`, `diff-repair-schedule.ts`) | none between fires, except in the service | one fire: discover, read gaps, download, submit, store shapes, repair | time budget, partial failure, fairness among gaps |
| Epoch discovery (`lib/utils/epoch-discovery.ts`) | five-minute cache | exponential and binary search by HEAD requests | failures read as absence |
| Simulator tab (`components/simulator/simulate-tab.tsx`, job modal) | the edit set in the URL, React state of a run, three refs | edit, calculate, confirm, poll, cancel, close, autorun of a shared link | overlapping runs share refs; late answers; cancels that fail; unmounts |
| Link estimate hook (`lib/hooks/use-link-estimate.ts`) | what is selected, what was fetched; the job of an effect | submit, poll, abandon | effects outlive their selection; viewers share a job |
| Scenario editor and input building (`scenario-url.ts`, `link-edits.ts`, `demand-overrides.ts`, `shapley-input-modifier.ts`, `canonical-input-builder.ts`) | a snapshot and the scenario | stage, remove, override; parse, validate, build, modify | four places decide what a scenario means: URL, editor, validator, builder |
| Live pages (`app/*/page.tsx`, their components, `use-live.ts`) | what SWR holds of each feed | load, fail, refresh, choose | many feeds on one page, each absent, stale or failed on its own |
| Read routes (`app/api/**/route.ts`, fetchers and caches in `lib/utils`, `lib/onchain`) | memos and LRUs of an instance; Next's copy of a route with `revalidate`; the CDN | check, recall, fetch, keep, answer | caches over caches; requests interleave at every await |
| Rate limit (`lib/utils/rate-limit.ts`) | a window per bucket and caller | check, sweep | the boundary of a window; the cap on keys |
| On-chain decoding, solver, formulae, maps and charts | none | pure transformations, rendering | not a matter of order |

What makes each of the first components correct:

- *Queue*: every accepted job reaches a verdict that is written before its entry
  is acknowledged; a finished link estimate does not keep its hash claimed; a
  job is cancelled only if asked; attempts are bounded; identical solves do not
  run side by side.
- *Sweep*: an alias names a durable result, the marker means that every operator
  that can be solved has its alias, and an epoch ends up marked.
- *Single flight*: one solver per input and process, everybody answered, no
  values of another input, the result of a started solve is kept.
- *Shape store*: a readable record of an epoch is never changed, a memory never
  differs from the bucket, a query of gaps hides none.
- *Changelog*: a kept answer dates every change by the first epoch that shows it,
  and the network's page and a contributor's agree.
- *Cron*: every gap it is told of is tried or reported as deferred, in time, and
  none waits for ever.
- *Tab and hook*: a loop ends, with a verdict unless it was cancelled; a locked
  control or a loader has a loop behind it; a job runs only while somebody polls
  it or has tried to cancel it; values shown belong to what is selected.
- *Editor and inputs*: what is solved is the scenario on screen and changes
  nothing else; what the editor lets a user stage is accepted; the demand panel
  shows the demand that is solved.
- *Pages*: no part states something before the feed it is about has answered;
  a failed refresh takes nothing away.
- *Routes and limiter*: an answer is no older than the lifetimes of the caches
  it came through and the time nobody asked for a copy that is renewed on demand;
  a caller is refused for its own requests only.

## Modules

| Module | Models | Uses |
|---|---|---|
| `JobStore` | Redis and S3 as the queue uses them, one operator per command | |
| `JobApi` | `simulate_start`, `link_estimate_start` one call per action; error arms, lost replies, dropped handlers | `JobStore` |
| `JobWorker` | `run`, `reclaim`, `process_entry`, the solves, the heartbeat; failed calls and crashes | `JobStore` |
| `JobQueue` | composition, time (TTLs, idle entries), DELETE, fairness, properties; refinement of `AtLeastOnce` | `JobApi`, `JobWorker`, `AtLeastOnce` |
| `AtLeastOnce` | abstract specification of the queue: entries in order, delivered at least once, gone only with a verdict | |
| `JobQueueProofs` | proofs: types, verdicts, claims; deliveries, deduplication; the refinement of `AtLeastOnce` | `JobQueue` |
| `Sweep` | `link_estimate_sweep`, `run_sweep`, a child's run and its publication, over a queue abstracted to what `JobQueue` shows | |
| `SweepProofs` | proofs | `Sweep` |
| `ShapeRecords` | abstract specification of the shape store: a write-once record per epoch | |
| `DiffStore` | `diff_store.rs` call by call; failures, SDK retries, late writes, restarts; refinement of `ShapeRecords` | `ShapeRecords` |
| `DiffStoreProofs` | proofs | `DiffStore`, `ChangeLog` |
| `ChangeLog` | the network's and a contributor's diff of two shapes, the reads they come from, and what the CDN keeps of them | |
| `BaselineFlight` | requests, flights, detached tasks, memory and S3 copy | |
| `BaselineFlightProofs` | proofs | `BaselineFlight` |
| `DiffRepair` | a fire of the cron step by step with its clock; schedule, budget, bucket | |
| `DiffRepairProofs` | proofs | `DiffRepair` |
| `SimulateTab` | the tab: edits, confirmation, the loops of `handleSimulate`, cancel, close, a shared link, a job's life in the service | |
| `LinkEstimate` | `useLinkEstimate` for several viewers: effects, their cleanup, the jobs they share | |
| `BrowserProofs` | proofs | `SimulateTab`, `LinkEstimate` |
| `ShapleyInputs` | operators: devices, private links, demands, overrides, link edits, as the builders produce them from a snapshot | |
| `Scenario` | the editor's controls, the scenario in the URL, foreign URLs, the routes' validation and the input they solve | `ShapleyInputs` |
| `Views` | SWR's state of each feed, and for each page what its parts say | |
| `Routes` | the read routes as programs over memos, shared fetches, ISR copies and the CDN | |
| `RoutesProofs` | proofs | `Routes` |
| `RateLimit` | the limiter's map, windows and sweep | |
| `MCJobQueue`, `MCSweep`, `MCBaselineFlight` | instances for TLC: model values, symmetry, budgets | |
| `MCDiffStore` | instances of the shape store and of the changelog | `DiffStore`, `ChangeLog` |
| `MCBrowser` | a browser on a page with jobs | `SimulateTab`, `LinkEstimate` |
| `PagesProofs` | proofs | `Scenario`, `RateLimit`, `Views` |
| `MCScenario`, `MCPages` | small networks; what keeps no job, one of four at a time | `Scenario`, `Views`, `Routes`, `RateLimit` |

### Job queue

`api[j]` is the next call of the handler that submits `j`, `wpc[w]` the next
call of worker `w`. An action is one Redis or S3 call with the local work up to
the next one, so every interleaving of handlers and workers between calls is
explored. Variables of `JobStore` are the Redis keys as seen by clients: a TTL
is an action that may remove the key whenever its guard says that this much time
may have passed. `pel` counts deliveries, `idle` holds the entries whose idle
time exceeds `RECLAIM_MIN_IDLE_MS`: `GoIdle` happens freely for entries nobody
renews and costs a "lapse" for those that are renewed.

Mishaps are drawn from a budget per `Hazard` (crash, fault, lapse, expiry,
backstop, cancel), and a behaviour starts with any of the `Budgets`, so that a
run can say which mishaps it explores and in what company. The proofs hold for
every set of budgets.

`AtLeastOnce` is what remains of all this for somebody who submits a job and
polls it: an entry is out, queued, pending or gone; workers have entries in hand;
a job has a verdict or none. Under the mapping (`Queue`) a pending entry is one
with a delivery count, an entry in hand is the one a worker handles or one of its
sweep, and a submission is open until its handler has ended. In it the stages of a
handler and of a worker, claims, payloads, results and idle times are stutters, and
a crash is a worker that lets go. It says what a queue may not do in spite of
them: hand out a younger entry first, bring an acknowledged one back, drop one
that is neither acknowledged nor trimmed, trim a younger one than it keeps,
acknowledge before the verdict, or write a verdict for a job one does not have in
hand. It does not promise one holder: two workers may have an entry in hand, and
one of them may decide after the other has acknowledged it.

Abstractions: payloads, results and error texts are present or absent; jobs are
simulations or stand-alone link estimates (sweeps and their children are in
`Sweep`); progress fields are left out; a solve ends in one of `Outcomes`.

### Epoch sweep

A derived sweep (the cron's, which may publish) or an explicit one (an
operator's, which may not) is expanded by a worker, operator by operator:
caches, claim, child. `wpc[w]` is the next call of worker `w`; `verdict[w]` is
the list of the summary each operator went to, on which the marker depends.
Children share the payload of their sweep (`parent`), look for the result three
times (Redis, S3, and once more by solving) and publish: result, then alias.

The queue is what `JobQueue` shows it to be, delivery at least once and a cap on
deliveries, so that dead-lettering is one step here. One epoch and one tag: the
hash of an estimate is its operator. Links are counted by `Solvable`, the
operators that gate 1 lets through. The order of operators in a list does not
matter to any property, so each is taken in any order. A job id is used again
when nothing refers to it any more, which keeps the state space finite while the
cron keeps firing. TTLs are those of the code in their order: an hour for a
result, half an hour for a state nobody renews, a day for claims and payloads;
an entry that waits for longer than its state or its payload lives is a mishap.

`mishaps` records what has gone wrong: a crash or an abandoned entry, a failed
call or lost reply, a lapse of a heartbeat, a failed solve, a DELETE, a wait; at
most `MaxMishap`, each kind at most once.

### Baseline single flight

`pc[q]` and `task[q]` are the request and the task it may spawn. Both follow
`try_cached_baseline`, `join`, `baseline_single_flight`, `compute_baseline`.
An epoch is the pair of the hash it is filed under and the input its values were
solved for, which the code cannot see and `OwnValues` compares. `Disconnect` is
axum dropping a handler (client gone, or the 120 s timeout layer), `TaskDies`
a panic or abort of the detached task, `Restart` a new process.

### Diff shape store

`pc[q]` walks through `get`, `put`, `missing_epochs`, `latest_epoch`. The bucket
is a function from epochs to a shape, unreadable bytes or nothing. A conditional
write may be applied and its answer lost (`Fails`), applied twice by the SDK
(`StoreRetried`), or applied after the caller gave up (`GivesUp`, `LateStore`).
`ShapeRecords` says what the store promises: `DiffStore` implements it under the
mapping `record[e] = ` the object when readable. The bytes in the bucket are
changed from outside only where there is no readable record (`ForeignWrite`):
one writer, this service, owns readable records.

### Changelog

`ChangeLog` stands on what `ShapeRecords` promises: `record` is written once,
and an epoch without one may get it at any moment (`Fill`). A question (`Ask`,
for the network or for a contributor) reads both ends of its window, then, for
the network, the epochs in between, each read finding the record or its absence,
failing or running out of time. `compute_network_diff` and
`compute_contributor_diff` are operators over shapes under the code's names: a
shape maps each link to its owner and the fields compared, and lists the
contributors. `Answer` gives the body and, as the proxy does, keeps it in the
CDN unless the service marked it degraded. What is kept is never dropped in the
model, which is the hardest case for `KeptIsExact`. Device and metro counts and
the order of entries and rows are left out.

Two facts of the code that the properties make explicit. In a window that runs
backwards there are no intermediate epochs, so every entry is dated `to`. A link
that changed hands is neither added, removed nor changed in the network's diff,
which matches by key and does not compare owners, and may leave a contributor
whose bandwidth moved without a row; the contributors' pages show it as removed
by one and added by the other. `PagesAgree` excepts these links
(`HandedOver`) and nothing else but endpoints, which only the network compares.

### Ingest cron

A fire moves through `discover`, `read`, `download`, `submit`, `shape`,
`history`, `end`, in the order of `runPrecomputeIngest`. Its clock advances with
each call by nothing or by the call's whole allowance (capped by the remaining
budget), with the real constants in seconds, because only the extremes decide
whether the next attempt fits. `Scheduled` translates `scheduleDiffRepairs`. The
bucket of snapshots gains epochs (`Publish`), and broken snapshots may be mended
(`Mend`). The slot is counted modulo `Cycle`, a common multiple of all lengths
it is taken modulo of, so no rotation changes.

### Simulator tab

`run[r]` is one call of `handleSimulate`: `post` while the submission is under
way, `posted` once answered, `poll` while a poll is, `heard` between its answer
and the next. All runs share `cancelled` (`cancelledRef`), `jobId` (`jobIdRef`)
and the React states `loading`, `error`, `modal`, `jobState`, as in the code, so
that a cancel followed by a new run shows what the old loop can still do.
`requestCancel` is `cancels[r]`, the attempts it has left. The service is a job
that settles (done, failed, cancelled), may be gone when polled, and whose
answers may be lost. Edits are a scenario of a small set: what matters is
whether it is the one a result answers.

### Link estimates

An effect is a closure with its own pair, `cancelled` flag and job; `Select`
changes the selection, `RunEffect` cleans up the last effect and starts the next,
and the effect's steps follow `post`, `posted`, `poll`, `heard`. A submission
for a pair that has a running job attaches to it, also from another viewer;
the cleanup's DELETE is sent without asking whether someone else polls.

### Scenario editor and inputs

`ShapleyInputs` builds, from a snapshot of two operators, three cities and
parallel links, the rows a route would send to the solver: devices numbered per
city and operator, private links, demand from validators by city, overrides.
Prices, bandwidths and latencies are small numbers; floating-point rates are left
out. A snapshot lists its contributors, and the one selected may not be among
them: a shared URL names anybody, and another epoch keeps the choice. `Scenario`
has one action per control of the tab and the map, and `Submit` the body it sends
to the job route: normalise, parse, validate, build, modify (`Prepare`). `Call`
sends bodies of other clients (`Foreign`: duplicates, stale removals, numbers out
of range). `ScenarioExact` compares the modified input with the baseline and the
scenario as sets and counts, not with the code's own steps.

### Live pages

`feed[f]` is what `useSWR` keeps: data, error, validating. A page is a function
from feeds to its parts, each with what it says ("values", a claim such as
"none" or "not found", or nothing yet) and the feeds it says it about. Early
returns, `hasLoadError`, the choices of a page (an epoch, a validator, a link)
and its keys that wait for another feed are those of the code; what the values
are is not modelled.

### Read routes and rate limit

A route is a sequence of steps: a check, a recall from a cache, a fetch (or one
that concurrent callers share), a keep, the reply. `Routes` runs two requests
over it, one fetch at a time, because JavaScript runs to the next await. Its
constant `Programs` is `Routes`, the 25 routes, in the run, and any programs that
add up in the proof: `ProgramsAssumption` follows each program step by step for a
request that nothing delays (`Carried`), and TLC evaluates it for the 25. Caches
differ as in the code: module memos are live below their TTL, LRUs up to it;
four stamp an entry with the start of the request that filled it. In front is
the CDN, as the `Cache-Control` header of each answer allows: fresh, then stale
while another request asks the function. It and a function instance that is
recycled are external.

Five routes export `revalidate` (`live/stats/route.ts:5`, `live/status/route.ts:5`,
`live/topology/route.ts:5`, `live/economic-hub/route.ts:7`, `epoch-rate/route.ts:4`),
and Next keeps a copy of their answer (`page`, external): it serves the copy within its
window, and past it as well, while one request at a time renews it in the background.
A renewal that fails may leave the copy as it is. So a copy nobody asks for outlives
its window without bound. `lull` counts these ticks, those in which nobody asked
past the window and those of a renewal in vain, and travels with the answer;
`MaxLull` bounds it in the run. `onchain/topology` exports `revalidate`, too, but
is forced to be dynamic (its `route.ts:7`) and has no copy.

`age` counts from the start of the request that read the data, `held` from the
stamp. A refusal or a failure is as old as what its request had read by then: the
400s of the simulator come from a snapshot kept for half an hour, the 422 of the
contributor page from the discovered epoch. The browser's HTTP cache is left out, as
is the RPC client's 30-second memo under the epoch rate, which is shorter than a
tick there.

`RateLimit` keeps the map, and besides it what the map forgets: for each key how
many requests were let through less than n ticks ago, for every n up to a window,
and whether a sweep dropped its window while it was open. The limits of the
buckets are a constant: 10, 60 and 120 a minute, in the run 1 and 2. The sweep
comes with any request or not (`Math.random`).

## Runs

Passing runs:

| Run | Checks | Instance and bounds |
|---|---|---|
| `QueueMishaps` | `SettledWhenAcked`, `ClaimReleased`, `CancelledOnlyOnRequest`, `TerminalIsFinal`, `AttemptsBounded`, `ImplementsAtLeastOnce` | 2 workers, a simulation and a link estimate, panics, and any two different hazards of crash, fault, lapse, expiry, backstop and cancel |
| `QueueDedup` | `DedupHolds` | 2 workers, 3 identical link estimates, 2 DELETEs, no mishap |
| `QueueSettles` | `Settles` | liveness; a crash, failures and panics, a stream of length 1 for two entries |
| `SweepPublishes` | `TypeOK`, `AliasesResolve`, `MarkerMeansComplete` | 2 workers, 3 operators of which one is skipped, 2 child ids each, derived and explicit sweeps, any mishap |
| `SweepEnds` | `Swept` | liveness; 2 workers, 1 operator, 2 child ids, any mishap |
| `ShapeStore` | `MemoryIsDurable`, `GapsComplete`, `LatestIsStored`, `ImplementsRecords`; `KeptIsExact`, `PagesAgree` | one of: 2 processes, 2 requests of any kind, 2 epochs, 2 shapes, 2 kinds of foreign bytes, one read at a time in a query, 2 mishaps; a changelog over 4 epochs, any of which may lack its record at first, 3 windows, 4 shapes |
| `FlightRaces` | `OneSolver`, `OwnValues`, `NotSolvedAgain` | 2 processes, 3 requests, 3 inputs of which one is rejected, 1 disconnect, 1 mishap |
| `FlightAnswers` | `Answered`, `ResultLands` | liveness; 1 process, 3 requests for one input, 1 disconnect, 1 mishap |
| `RepairFires` | `Accounted`, `RepairsInTime`, `NotStarved` | safety and liveness; 4 epochs, window of 4, 3 attempts, 1 mishap, any initial slot, gaps and broken snapshots |
| `BrowserRuns` | `BusyIsLive`, `JobsTracked`, `EndsWithVerdict`, `LoopsEnd`; `ShownIsSelected`, `EstimatesTracked`, `LoadingEnds` | safety and liveness; a tab with 2 scenarios and 2 runs, or 2 viewers, 2 pairs of which one is unsolvable and 2 effects; 2 failed polls in a row give up, 1 cancel attempt |
| `Pages` | `ScenarioExact`, `PanelIsDemand`, `StagedIsAccepted`; `ShownIsAnswered`, `RefreshKeepsValues`; `ServedIsRecent`; `OwnBudget` | one of: 6 snapshots, 2 edits, round-trip times below and above the cap, 288 foreign bodies; 23 views; 25 routes with 2 requests and 2 ticks of lull; a limiter with 2 keys, room for 1, a window of 2 ticks |

The types of the queue, the shape store, the single flight, the repair, the tab,
the link estimates and the limiter are proved for every instance and are not
checked again; those of the sweep are both checked and proved. In `QueueMishaps`
the stream has room for both entries, so that what `AtLeastOnce` says of trims is
shown by the proof alone. `ShapeStore`,
`BrowserRuns` and `Pages` put machines that share nothing side by side: a
behaviour opens one of them, and the others stand still.

Why these bounds: the hazards are races of two actors (two workers on an entry,
two writers of an epoch, a leader and a follower) with a third that arrives
late, and a single mishap between two writes; two mishaps let one strike the
recovery from the other. Three jobs are the least that can break the
deduplication, and four epochs the least at which the rotation has more than one
gap left after the newest. In a tab two runs are what a cancel and a new run
need; two effects are a selection and the one that replaces it, or two viewers
of a pair. A changelog needs two epochs between its ends, so that the first that
shows a change and the first that could be read may differ, a window that runs
backwards, and shapes in which a link is widened, rerouted, handed over and
orphaned. Two edits let one change what the other finds. A route needs two
requests to meet at a fetch, and its lifetimes keep their order, of which alone
the sum of ages depends; a lull of two ticks lets an ISR copy grow older than all
memos behind it; the limiter needs a second key to exceed its cap.

Some properties hold under a condition which their statement names:

- `AttemptsBounded` is about pending entries. A worker that still has an entry
  in its reclaim batch takes it up even after another has acknowledged it, and a
  delivery count that is gone reads as 0: one more attempt.
- `DedupHolds` is checked without mishaps, with solves that succeed, and no
  longer applies after a DELETE was asked for: `clear_inflight`
  (`jobs.rs:189`) deletes a claim without looking whose it is, so one failed or
  cancelled solve that holds none lets a third identical one run beside another.
- `TerminalIsFinal` is checked and proved through every mishap, and excepts two
  writers the code does have: a second delivery of the job's own entry, which
  reports what it finds after a crash between verdict and XACK (a DELETE in between,
  `routes.rs:2072`, then turns "done" into "cancelled", `jobs.rs:414`), and the
  job's own submission when it reports that it could not enqueue, although the XADD
  had arrived and a worker was done with it.
- `NotSolvedAgain` is about one input in use and no mishap. With two, the other
  input's epoch may push the first out of the only slot, and a lost write or a
  restart may legitimately cost a second solve. Nor is it about several
  processes that solve the same input at once: each of them finds the other's
  values in S3 on its next request and keeps them while its own task goes on.
- `ResultLands` excuses a solve whose task, write or process was the mishap.
- `JobsTracked`, and of `BusyIsLive` its last part, are about tabs where no run
  began while the loop of another was alive: runs that overlap share
  `cancelledRef` and `jobIdRef`, and the older job may go on unpolled.
- `LoadingEnds` excuses a viewer whose polls are answered with bodies nobody can
  read, see below.
- `StagedIsAccepted` needs a contributor the snapshot lists, every city the editor
  offers to have an exchange, and round-trip times within the API's cap.
- `ServedIsRecent` adds the lull of the ISR copy an answer came through, and
  nothing else, to the lifetimes.
- `PagesAgree` excepts links that changed hands, and needs a contributor who is
  listed at one end of the window.
- `ShownIsAnswered` and `RefreshKeepsValues` name the parts and pages they except
  (`Presumed`, `TakesAway`), listed below.
- `OwnBudget` excepts, from its upper half, keys whose open window the cap on
  keys dropped.

Symmetry: workers, processes, requests, accepted inputs, shapes and garbage,
where nothing but their identity matters; none in the liveness runs.

`SweepPublishes` has one sweep id: two sweeps at once are two deliveries of one
(a lapse), and an epoch that is swept again is one whose id is taken again, with
a derived or an explicit list. A derived sweep and an explicit one at the same
time take a second id, with one operator instead of two (3.2 million states,
not a run of its own); the invariants hold there as well. Two operators are the
least with which a sweep can be done with one and not with the other.

Deadlock: the queue, sweep (once the marker is there), flight and store instances
really stop (a finite number of requests), and so do the browser and the pages
(bounded runs, effects and edits), so deadlock is not checked there; the cron
never stops, and it is.

Disagreements between what the repository says and what its code does; each run
finds its property violated, the finding in `PROJECT.json` quotes the sentence:

| Run | Property | In short |
|---|---|---|
| `StaleResult` | `ResultIsCurrent` | `simulate-tab.tsx` says that a stale result never paints over a different scenario; a run whose scenario is changed by navigation while its answer is under way does |

Also met while reading, and not the subject of a run:

- `reclaim` takes up to ten entries at once and processes them one after the
  other; those that wait have no heartbeat, go idle and are reclaimed by another
  worker although the first is alive. `queue.rs:60` says that "only *dead*-pod
  entries cross" the idle time.
- A sweep redelivered after a crash reads the caches before the claim. The child
  it enqueued before the crash may end between the two reads, and its operator
  gets a second child (served from the result) while the first is not yet
  acknowledged; `worker.rs:640` says that this can never be.
- A child that waits for more than half an hour is failed, because its state has
  expired (`worker.rs:178`); the day its payload is kept for (`queue.rs:80`) does
  not help it. `SweepEnds` shows that the next sweep makes up for it.
- A panic in the baseline phase of a simulation fails the job at once; the
  comment in `worker.rs:40` speaks of a panic as a fault that is retried.
- A panicking baseline solve is answered like a rejected input, with a 422,
  where `routes.rs:659` describes that status as a matter of the input.
- `latest_epoch` publishes whatever list it read last (`diff_store.rs:347`), so
  an older list that arrives late can hide an epoch just stored until the entry
  expires.
- A fire may repair three historical gaps; `docs/architecture.md:329` says up to
  two. `DiffRepair` models the code's number.
- The deduplication of link estimates is not as strong as
  `docs/adr/0001-async-shapley-compute-queue.md:243` has it ("never runs twice"):
  see the condition on `DedupHolds` above.
- A link estimate whose worker crashed once is dead-lettered without a second
  attempt: the reclaim has raised the delivery count before `worker.rs:1300`
  compares it with a cap of 1, of which `queue.rs:70` says "after one retry".
- A job that expires between two writes can come back as a hash without state or
  TTL (`jobs.rs:334`), one whose creation is cut off between HSET and EXPIRE
  reads as running for ever (`jobs.rs:300`), the claim of an estimate lives a day
  however long its job waits (`queue.rs:87`), and a job that is done may be
  failed by another worker whose entry passes the cap (`worker.rs:1306`).

In the browser:

- `useLinkEstimate` sends a DELETE for its job when its viewer leaves, also when
  the submission had attached to the job of another viewer, whose estimate then
  fails.
- The tab never sends a DELETE when it is unmounted, where
  `docs/architecture.md:179` says "cancel / unmount". Cancelling and running
  again shares one cancel flag and one job id (`simulate-tab.tsx:562`).
- Six views give up what they showed when a refresh fails (`TakesAway`), although
  the comment above `hasLoadError` (`use-live.ts:98`) says that a failed refresh
  alone must not read as an error.
- Nine parts state something before the feed it is about has answered
  (`Presumed`): the pulse counts no issues, the contributors' CSV and the
  validators' SOL column say zero, the page of a contributor says "not found" or
  shows no payouts, and three that speak of months (two of the validators, one of the
  simulator) are computed with a constant until `/api/epoch-rate` has answered or
  when it fails (`use-epoch-rate.ts:26`). The pulse's dot is green on link health
  alone: sources that have not been heard of count as well.
- A poll of a link estimate that is answered with a body nobody can read is
  retried without end: `use-link-estimate.ts:146` resets `pollFailures` on the
  status, before it reads the body, where the comment above (`:120`) speaks of a
  retry budget.
- The editor stages a draft for a contributor the snapshot does not list (from
  `?contributor=`, or left over from another epoch), and the routes answer it with
  a 400 (`link-edits.ts:222`). Only drafts within a metro are kept out: "don't let the
  user stage a draft the API will 400 on" (`simulate-tab.tsx:523`).
- The detail page of a link goes on loading when the topology failed.
- The form takes any round-trip time (its `max={500}` only bounds the arrows of
  the field, `simulate-tab.tsx:1358`), and the routes refuse what is above ten
  seconds (`link-edits.ts:167`): a draft with such a time is staged and answered
  with a 400. `StagedIsAccepted` excepts it.
- Edits of the projection drop those devices of a contributor that have no link,
  and an accepted edit is not always applied (`link-edits.ts:194`).

In the read routes:

- `docs/architecture.md:235`, `:242` and `:243` give the five routes with
  `revalidate` caches of an hour, a minute and five minutes. Their ISR copy is
  served past that time to whoever asks first, however long nobody has asked.
- A stake read through the identity index may be as old as the hit cache, the
  index and the account read together; the comment in
  `app/api/validators/stake/route.ts:25` speaks of 60 s.
- Several routes have calls whose timeouts add up to `maxDuration` or more, so
  that the platform may cut off their error answer
  (`epoch-discovery.ts:40` says "leaving headroom").
- A fixed window admits up to twice its limit around a boundary, where
  `rate-limit.ts:28` says "within `windowSec`". `OwnBudget` states the bound.
- Epoch discovery has one cache entry, which requests with and without metadata
  overwrite in turn (`docs/architecture.md:232`: "1 per `withMeta` value"), and
  it takes a failed HEAD for absence (`epoch-discovery.ts:60`), so that a latest
  epoch that is too low may be kept for five minutes.

## Fairness

- *Queue*: a handler and a worker in the middle of an entry make their next call
  (weak fairness: every call has a timeout). A worker between entries comes back
  to its read and to its reclaim again and again, whatever the others take from
  it (strong fairness: `run` alternates a 5 s blocking read with a sweep every
  30 s). An entry nobody renews goes idle (time passes).
- *Sweep*: a worker in the middle of an entry makes its next call; the stream is
  first in, first out, and abandoned entries are reclaimed, so no entry is passed
  over for ever (strong fairness, because every delivery is one that may be taken
  by another worker); states and cancel flags expire; a detached write ends; and
  the cron fires again while there is no marker. Nothing forces a claim to expire
  (24 h): `Swept` has to hold without it.
- *Flight*: the runtime polls every task, and an S3 call answers or times out.
  Nothing forces a new request to arrive or a client to stay.
- *Tab*: the effect of a mount runs, the code after an await runs, every fetch
  ends (an answer or an error), and the service settles the jobs it took (what
  `Settles` shows of it). Nothing forces the user to click, nor a DELETE to be
  tried.
- *Link estimates*: the same for effects: they run after their render, their
  steps follow one another, jobs settle. Nothing forces a viewer to stay or to
  leave: `LoadingEnds` excuses one whose next effect is due.
- *Cron*: the scheduler keeps firing and each call of a fire is bounded by its
  timeout (`WF_vars(FireStep)`). Nothing forces epochs to be published or broken
  snapshots to be mended: `NotStarved` excuses an epoch while it is broken.

## Proofs

All theorems are about the specifications without fairness (`Spec`; `LogSpec` of
the changelog; `TabSpec`, `EstSpec`, `ScenarioSpec`, `ViewsSpec`, `RoutesSpec` and
`LimitSpec` of the web app), for every set of jobs, workers, operators,
requests, processes, epochs, runs, viewers and every bound, under the named
assumptions on the constants (finite job sets, `None` outside the sets, bounds
that are naturals, delivery caps of at least one, programs that add up).

- `JobQueueProofs`: `TypeCorrect`, `SettledBeforeAck`, `ReleasedBeforeAck`,
  `CancelledByRequest`. `SettledWhenAcked` is not inductive: that the entry leaves
  the pending list in a good state rests on what each stage before it did. The
  invariant adds `Ownership` (what a worker holds was delivered, and its
  submission is past creating and claiming), `Stages` (from "cache" on, the job
  of a worker is settled; from "bury" on, its claim is released) and `Verdicts`
  (a cancelled outcome comes from a cancel flag, and a flag from a DELETE). The
  hard steps are those of the other actors: a reclaim that gives a second worker
  the same entry, a submission that would set "running" again, a claim that
  would be taken after it was released.
  `AttemptsCorrect`. An entry is taken up at most once per delivery, but a sweep
  may hold it between the two, and the delivery count is read again when its
  turn comes. The invariant (`Counted`) weighs both: for a pending entry, the
  attempts made plus the sweeps that still hold it are no more than its
  deliveries. So the count the guard reads covers the attempt it is about to
  allow. An entry that is no longer pending never is again.

  `TerminalCorrect`, for any budgets: an entry delivered once is in one hand at
  most, and no sweep has it (`First`); if its job has a verdict, that worker is past
  the write and the submission has nothing left to do but to undo its enqueue
  (`Written`). The hard steps are a reclaim, which raises the delivery count, and
  the handler of an XADD whose reply was lost.

  `DedupCorrect` has hypotheses on the budgets and on the outcomes, which the
  constants of `QueueDedup` meet. `Calm`: no crash, failed call, lapse or panic.
  Each of them lets an entry be delivered to a second worker; without them an entry
  that can be processed is in the hands of one (`Alone`).
  `Quiet`: `Calm`, nothing expires, every solve succeeds. A claim that expires,
  or that a failed solve deletes without looking whose it is, lets a second
  submission in. Then a link estimate between its submission and its solve holds
  the claim of its hash or has a result to find, and two workers that look for
  one result cannot both find none (`Deduped`).

  `QueueImplemented`: every step is one of `AtLeastOnce` or none (`Refines`), one
  lemma per kind of step, for any budgets. It rests on the two invariants above
  and on `Orderly`: entries are numbered as they arrive, a job has no state before
  its handler runs, a worker between entries has nothing in hand. The hard steps
  are the XADD, whose trim must take the oldest entries (what is newer than an
  older one is more, so it goes first: cardinalities of nested sets), the
  acknowledgement, which needs the verdict written stages before, and the renewal
  of an entry that was trimmed or acknowledged in the meantime.
- `SweepProofs`: `TypeCorrect`, `AliasesCorrect`, `MarkerCorrect`. The invariant
  follows each worker: before an alias is written its result is in S3 (`Backed`);
  under a tag "cached" stands for an alias and "skipped" for nothing to solve
  (`Summary`), because only the list of every operator carries a tag (`Derived`);
  at "mark" nothing is left (`Finished`). S3 only grows, so no other worker can
  undo what one has found out. The types are not inductive alone: they need what a
  worker holds at each step (`Carries`) and what it has decided about the
  operators (`Decided`).
- `DiffStoreProofs`, the shape store: `TypeCorrect`, `MemoryCorrect`, `GapsCorrect`,
  `LatestCorrect`, `RecordsImplemented`. The invariant says what a request knows
  at each step about the bucket: the shape it carries is durable, the winner it
  read is still there, the epochs a scan has joined are readable. Conditional
  writes make these facts stable: no step changes a readable object. The
  refinement takes each step of `DiffStore` to a write, an answer or a stutter.
- `DiffStoreProofs`, the changelog: `DatesCorrect`, `PagesCorrect`. A request
  reads the epochs one after another while records appear, but a record that was
  read never changes and an answer that lacked an epoch is not kept: whatever is
  kept equals the answer computed from all records at once (`LogInv`). The rest is
  about the algorithms: the date of a change is the least epoch that shows it
  (`Least`), each page divides the same links by owner, the counts balance by the
  cardinalities of a union, and a row is left out only without entries. This needs
  that no listed contributor is called "unknown" (`ShapeAssumption`), the name the
  code gives to links without an owner.
- `BaselineFlightProofs`: `TypeCorrect`, `OneSolverAtATime`, `ValuesCorrect`,
  `SolvedOnce`.
  `OneSolver` follows from `Flights`: a live task is the one registered for its
  process and input, which is a function, and no step but its own release
  unregisters it. `OwnValues` needs `Filed` and `Results`: every epoch in memory,
  in S3 or on its way there is filed under the input it was solved for.
  `NotSolvedAgain` needs the history (`Fresh`): every epoch about comes from a
  task that solved it (`Origins`), whose process keeps the values (`Stage`); a
  leader rechecks before it solves, so a memory that fills behind it was filled
  from another process's solve (`Elsewhere`).
- `DiffRepairProofs`: `TypeCorrect`, `AllAccounted`, `InTime`. What is selected
  are gaps, the current epoch first (`ScheduledType`); the sorted sequence of the
  gaps exists because each of them has its own rank, and every rank is somebody's
  (`Ranked`). From the schedule on a gap is deferred, a target or tried, and until
  its shape was attempted the current epoch may be none of these (`Told`): the
  hard case is a current epoch that the schedule never selected or whose
  snapshot is broken. A call is capped by what remains of the fire, so the clock
  never passes `CronWork` (`Timed`); an attempt starts only while its whole
  allowance fits before the deadline of the repairs.
- `BrowserProofs`, the tab: `BusyCorrect`, `TrackedCorrect`, `VerdictCorrect`,
  `TypeCorrect`. The loops of a tab share `cancelledRef`, `jobIdRef`, the modal and the
  busy flag; the invariant says whose they are. `Single`: while runs do not
  overlap there is one loop at most and `jobIdRef` is its job's. `Seen`: a loop
  with a modal has it open and "running" unless it was cancelled. `Unseen`: a
  shared link's run, still without one, is the only run there has been. `Knows`:
  what a loop has heard about its job. The hard steps are a cancel during the
  POST and an answer that arrives after it.
- `BrowserProofs`, the link estimate: `ShownCorrect`, `EstTrackedCorrect`,
  `EstTypeCorrect`. Values are filed under the pair they were asked for (`Filed`);
  an effect's job is of its own pair and has been submitted (`EffectKnows`,
  `Holds`); it lets go of a running
  job only after a DELETE. The hard steps are the cleanups, which end an effect
  between two polls and can only flag one whose call is under way.
- `PagesProofs`, the editor: `StagedCorrect`, `PanelCorrect`. A body is accepted
  because of three things decided elsewhere and earlier: what was staged on this
  snapshot, which lists the contributor, consists of the contributor's own links
  and of drafts between metros (`Own`), which holds because another contributor or
  epoch starts afresh; the answer on screen is that of the URL (`Told`), because
  every edit takes it away; and removals are sent in some order of the same set.
  `PanelCorrect` is about `Prepare` for any body: the demand that is solved is
  rebuilt from the counts with the overrides in them, and the link edits leave it
  alone.
- `PagesProofs`, the limiter: `BudgetCorrect`, `LimitTypeCorrect`. The limiter
  remembers one count and one reset time; the property is about every stretch as
  long as a window. The invariant relates the two (`Kept`): while a window is
  open, its count is what was let through since it opened, and older requests
  within reach belong to one window before it, which let through no more than the
  limit (`Fits`); once it has closed, nothing was let through in the current tick
  (`Rests`). A sweep that drops an open window shortens the reach to nothing, and
  each tick lengthens it again, so that the invariant also speaks of the windows
  after it. The hard step is the tick that closes a window: it becomes the older
  one.
- `PagesProofs`, the live pages: `AnsweredCorrect`, `RefreshCorrect`. Soundness
  and survival are put together from parts (`SoundPart`, `SoundBoth`,
  `SoundGuarded`; `KeptMute`, `KeptSame`, `KeptBoth`), one lemma per view. A page
  that says "none" when its feed is not loading and has not failed relies on that
  feed having been asked at all (`NeverOff`); a failure takes nothing away because
  a feed is busy for its first answer only (`BusyIsFirst`): either the page had
  claimed nothing on its word, or the answer stays.
- `RoutesProofs`: `ServedCorrect`, for any number of requests and any programs
  that add up. That a program adds up is about one request that no tick delays;
  the theorem is about many that meet in caches and shared fetches. The invariant
  relates the two: what a request carries is among what its step may carry, plus the
  tick it may have waited (`late`; there is one at most, because a tick is no
  shorter than a request); what a cache holds was among what its keep may hold,
  plus that request's tick and the time it has been held. So an answer of the
  function is older than the program's sum by one tick, the "+ 1" of `Promised`.
  An ISR copy is held for its window, the lull, and one tick more while a request
  is under way to renew it (`PageRecent`): a copy that has been asked for past its
  window has one. The CDN adds its own time on top. The hard
  step is a shared fetch, whose followers take over the leader's tick besides their
  own: it is the last thing a program waits for (`JoinsLast`), so no second tick
  follows.

Only model-checked:

- all liveness properties (`Settles`, `Swept`, `Answered`, `ResultLands`,
  `NotStarved`, `LoopsEnd`, `LoadingEnds`): liveness under fairness and ENABLED
  are out of reach of the prover;
- `ScenarioExact`: it says what folds and filters over sequences compute, which
  takes induction over data, and the prover cannot unfold `SelectSeq`, `SortSeq`
  or the folds. The library's induction theorems take an operator as a parameter,
  which no installed backend instantiates; where an induction was needed
  (`Least`) it is a minimal counterexample under a well-founded order.

No module declares a recursive operator.

## Plan

Done, in the order of what would hurt most:

1. Job queue: store, handlers, workers, time.
2. Diff shape store and its abstract records.
3. Baseline single flight.
4. Shape repair by the cron.
5. Sweep and publication: `run_sweep`, children that share a payload, results,
   aliases, the completion marker.
6. The browser's runs: the tab's loops and the link estimate hook, with the job
   routes between them and the service.
7. Scenario editor, validation and input building.
8. Live pages over feeds that fail on their own.
9. Read routes over their caches; the rate limiter.
10. The changelog: both diffs, their reads and what the CDN keeps.
11. The abstract at-least-once queue, which `JobQueue` implements.

Left:

12. The baseline publication (`run_baseline_publish`, `precompute_baseline`) and
    the by-tag submissions and reads.
13. The cron's current-epoch work over the sweep and `DiffStore`: a fire that is
    cut off anywhere is completed by a later one.
14. Epoch discovery, as a search against a bucket that grows and fails.
15. Pure algorithms: the reuse of per-city values, the progress percentage,
    against reference definitions.
16. `Sweep` over `AtLeastOnce` instead of over its own abstraction of the queue.

## Not modelled

Layout, maps, charts, formatting and the wording of CSV files; on-chain account
decoding; floating-point reward and rate formulae; the solver itself, an
external crate; authentication, CORS and logging; the
browser's HTTP cache; the list of past runs a browser keeps; the scripts in
`scripts/`. `PROJECT.json` lists each with its reason.
