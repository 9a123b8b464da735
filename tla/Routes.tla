------------------------------- MODULE Routes -------------------------------
(****************************************************************************)
(* The read routes of the web app as the chain of places an answer can come *)
(* from: a module memo or LRU of one function instance, a fetch that others *)
(* may share, the copy that Next keeps of a route with "revalidate" (ISR),  *)
(* the CDN in front of it.  A route is a short program; requests run it one *)
(* fetch at a time, and between two fetches nothing else runs.              *)
(*                                                                          *)
(* Time counts in ticks, a tick being no longer than the route's shortest   *)
(* lifetime and no shorter than a request; lifetimes keep their order, and  *)
(* ratios beyond three are cut.  One key of a route is modelled (an epoch,  *)
(* a pubkey, a horizon); the others show as Evict.                          *)
(****************************************************************************)
EXTENDS Naturals, Sequences, FiniteSets, TLC
LOCAL INSTANCE FiniteSetsExt

CONSTANTS
    Requests,   \* requests at the same time
    Programs,   \* the routes' programs: Routes, below
    MaxLull     \* bound: ticks nobody asks for an ISR copy past its window

VARIABLES
    route,      \* the route asked
    memo,       \* what each cache of this instance holds
    page,       \* the ISR copy
    edge,       \* what the CDN holds
    request,    \* requests under way
    answered    \* the answer just given

routeVars == <<route, memo, page, edge, request, answered>>

-----------------------------------------------------------------------------
(* Caches.  A module memo is live while its age is below the TTL, an LRU    *)
(* (and the simulator's map) up to it; four routes stamp what they keep     *)
(* with the moment the request began.                                       *)

StampedAtStart == {"stats", "status", "topology", "hub"}
KeptAtTtl == {"rewards", "snapshots", "hits", "misses", "history", "baselines"}
LongLived == {"misses", "index", "directory", "rate"}
Caches == StampedAtStart \union KeptAtTtl \union LongLived
          \union {"prices", "publishers", "projections", "fees", "epochs", "accounts"}
\* Those another key can push an entry out of.
Shared == KeptAtTtl \union {"projections", "epochs", "accounts"}

Ttl(c) == IF c \in LongLived THEN 3 ELSE 2
Lives(c) == IF c \in KeptAtTtl THEN Ttl(c) ELSE Ttl(c) - 1

Nil == [kind |-> "nil"]
Entry(kind, age, held) == [kind |-> kind, age |-> age, held |-> held]
\* Outside the function: with the ticks nobody asked for the ISR copy past its
\* window, and whether somebody has in this one.
Copy(kind, age, lull) ==
    [kind |-> kind, age |-> age, held |-> 0, lull |-> lull, asked |-> FALSE]

-----------------------------------------------------------------------------
(* Steps.  "to" gives, for each outcome, how far to go on; 0 answers.       *)

Step(do, to, c) == [do |-> do, to |-> to, cache |-> c]
Decide(to) == Step("decide", to, "none")
Fetch(to) == Step("fetch", to, "none")
Join(to) == Step("join", to, "none")          \* a fetch concurrent callers share
Recall(c, n) == Step("recall", "hit" :> n, c)
Keep(c) == Step("keep", "kept" :> 1, c)
Reply == Step("reply", "replied" :> 0, "none")

Gate == Decide([full |-> 1, refused |-> 0])
Limited == Gate       \* 429
Configured == Gate    \* 503 without the service
Valid == Gate         \* 400, 422
Read == Fetch([full |-> 1, failed |-> 0])
Probe == Fetch([full |-> 1, missing |-> 0, failed |-> 0])

\* cache hit, or the steps and then the cache.
Through(c, steps) == <<Recall(c, Len(steps) + 2)>> \o steps \o <<Keep(c)>>

-----------------------------------------------------------------------------
(* Routes: the program; how long the CDN holds each kind of answer, fresh   *)
(* and then stale; the caches whose age an answer of a kind may carry.      *)

Cdn(kinds, fresh, stale) == [k \in kinds |-> [fresh |-> fresh, stale |-> stale]]
NoCdn == Cdn({}, 0, 0)
Path(steps, cdn, of) == [steps |-> steps \o <<Reply>>, isr |-> 0, cdn |-> cdn, of |-> of]
Revalidated(path) == [path EXCEPT !.isr = 2]   \* "export const revalidate"
Of(kinds, cs) == [k \in kinds |-> cs]
Fully(cs) == Of({"full"}, cs)

stats == Revalidated(Path(Through("stats", <<Read>>), NoCdn, Fully({"stats"})))
status == Revalidated(Path(Through("status", <<Read>>), NoCdn, Fully({"status"})))
topology == Revalidated(Path(Through("topology", <<Read>>), NoCdn, Fully({"topology"})))
prices == Path(Through("prices", <<Read>>), NoCdn, Fully({"prices"}))
economic_hub ==
    Revalidated(Path(Through("hub", <<Read>>), Cdn({"full"}, 2, 3), Fully({"hub"})))
projection == Path(<<Valid>> \o Through("projections", <<Read>>),
                   Cdn({"full"}, 2, 3), Fully({"projections"}))
fees == Path(Through("fees", <<Read>>), Cdn({"full"}, 2, 3), Fully({"fees"}))
\* One feed of two is enough, and its answer is kept as the other is.
publishers ==
    Path(Through("publishers", <<Fetch([full |-> 1, partial |-> 1, failed |-> 0]),
                                 Fetch([full |-> 1, partial |-> 1])>>),
         NoCdn, Of({"full", "partial"}, {"publishers"}))
health == Path(<<Fetch([full |-> 1, partial |-> 1])>>, Cdn({"full", "partial"}, 1, 2), <<>>)
snapshot == Path(<<Valid>> \o Through("snapshots", <<Read>>),
                 Cdn({"full"}, 2, 3), Fully({"snapshots"}))

Discovered == Through("epochs", <<Read>>)
epochs == Path(Discovered, Cdn({"full"}, 2, 3), Fully({"epochs"}))
shapley == Path(<<Limited, Valid, Configured, Probe>>, Cdn({"full"}, 2, 3), <<>>)
baseline == Path(<<Limited, Configured>> \o Discovered \o <<Probe>>,
                 Cdn({"full"}, 2, 3), Of({"full", "missing", "failed"}, {"epochs"}))
tracking == Path(<<Limited, Configured>> \o Discovered \o <<Valid, Probe>>,
                 Cdn({"full"}, 2, 3), Of({"full", "refused", "missing", "failed"}, {"epochs"}))
\* The service's own refusal (a status other than 200) is passed on, not kept.
diff == Path(<<Limited, Valid, Configured,
               Fetch([full |-> 1, degraded |-> 0, refused |-> 0, failed |-> 0])>>,
             Cdn({"full"}, 2, 3), <<>>)
diff_contributor == Path(<<Limited, Valid, Valid, Configured,
                           Fetch([full |-> 1, refused |-> 0, failed |-> 0])>>,
                         Cdn({"full"}, 2, 3), <<>>)

onchain_rewards == Path(<<Recall("rewards", 4), Valid, Probe, Keep("rewards")>>,
                        NoCdn, Fully({"rewards"}))
\* The RPC client keeps what the accounts of a program were.
Accounts == Through("accounts", <<Read>>)
onchain_validators == Path(<<Configured>> \o Accounts, NoCdn, Fully({"accounts"}))
onchain_topology == Path(<<Configured>> \o Accounts \o <<Configured>>,
                         Cdn({"full"}, 2, 3), Of({"full", "refused"}, {"accounts"}))
Directory == Through("directory", <<Read>>)
onchain_contributors == Path(Directory, Cdn({"full"}, 1, 2), Fully({"directory"}))
\* By code, through the directory, or by key.
contributor_rewards ==
    Path(<<Valid, Decide([full |-> 1, keyed |-> Len(Directory) + 2])>> \o Directory
            \o <<Decide([full |-> 1, missing |-> 0])>> \o Through("history", <<Read>>),
         Cdn({"full"}, 2, 3),
         Fully({"directory", "history"}) @@ Of({"missing", "failed"}, {"directory"}))

\* A measurement that failed answers with the fallback and keeps nothing.
EpochRate == Through("rate", <<Join([full |-> 1, fallback |-> 2])>>)
epoch_rate ==
    Revalidated(Path(EpochRate, Cdn({"full", "fallback"}, 2, 3), Fully({"rate"})))
methodology == Path(EpochRate, NoCdn, Fully({"rate"}))

\* The lookup by vote account; then, by node identity, the index.  A provider
\* that ignores the filter sends "whole", which refills the index.
validators_stake == Path(
    <<Limited, Decide([full |-> 1, invalid |-> 0]),
      Recall("misses", 0), Recall("hits", 0),
      Fetch([full |-> 7, whole |-> 1, absent |-> 3, failed |-> 0]),
      Keep("index"), Decide([full |-> 5, absent |-> 1]),
      Recall("index", 3), Join([whole |-> 1, failed |-> 6]), Keep("index"),
      Decide([full |-> 1, missing |-> 3]),
      Keep("hits"), Reply, Keep("misses")>>,
    Cdn({"full"}, 2, 3) @@ Cdn({"missing", "invalid"}, 2, 0),
    [full |-> {"index", "hits"}, missing |-> {"index", "misses"}])

\* /simulate, else /shapley; the snapshot and its baseline come from the memo.
simulate == Path(
    <<Limited, Configured, Valid>> \o Through("baselines", <<Read, Valid, Read>>)
        \o <<Valid, Fetch([full |-> 2, failed |-> 1]), Read>>,
    NoCdn, Of({"full", "refused", "failed"}, {"baselines"}))

Routes ==
    {stats, status, topology, prices, economic_hub, projection, fees, publishers,
     health, snapshot, epochs, shapley, baseline, tracking, diff, diff_contributor,
     onchain_rewards, onchain_validators, onchain_topology, onchain_contributors,
     contributor_rewards, epoch_rate, methodology, validators_stake, simulate}

-----------------------------------------------------------------------------
(* What a program adds up to.  At each step, the kinds and ages a request   *)
(* may come with if no tick passes while it runs, an entry being recalled   *)
(* at the end of its lifetime.  Steps only lead forward, and what a recall  *)
(* may find was kept at a step before the one its hit leads to.             *)

Kinds == {"nil", "full", "partial", "degraded", "fallback", "missing", "absent",
          "invalid", "refused", "failed", "keyed", "whole"}

Carry(kind, age) == [kind |-> kind, age |-> age]
Older(a, b) == IF a < b THEN b ELSE a
Recalled(m, c, a) == Carry(m.kind, Older(m.age + 1 + Lives(c), a.age))
Branches == {"decide", "fetch", "join"}
Awaits == {"fetch", "join"}
KeepsAt(s, i, c) == s[i].do = "keep" /\ s[i].cache = c

Carried(p) ==
    LET s == p.steps
        at[i \in DOMAIN s] ==
            IF i = 1 THEN {Carry("nil", 0)}
            ELSE UNION (
                {{Carry(kind, a.age) : a \in at[j], kind \in {k \in DOMAIN s[j].to : j + s[j].to[k] = i}} :
                    j \in {j \in 1..(i - 1) : s[j].do \in Branches}}
                \union {at[j] : j \in {j \in {i - 1} : s[j].do \in {"recall", "keep"}}}
                \union {{Recalled(m, s[j].cache, a) : a \in at[j],
                            m \in UNION {at[q] : q \in {q \in 1..(i - 1) : KeepsAt(s, q, s[j].cache)}}} :
                    j \in {j \in 1..(i - 1) : s[j].do = "recall" /\ j + s[j].to.hit = i}})
    IN  at

\* The caches' lifetimes, and a tick for the request that filled each.
Lifetimes(p, kind) ==
    LET cs == IF kind \in DOMAIN p.of THEN p.of[kind] ELSE {}
    IN  MapThenSumSet(Lives, cs) + Cardinality(cs)

\* On to step i + n with what it carries; or, for n = 0, an answer no older
\* than the caches the program names for its kind.
LeadsOn(p, i, n, a) ==
    IF n = 0 THEN Lifetimes(p, a.kind) \in Nat /\ a.age <= Lifetimes(p, a.kind)
    ELSE i + n \in DOMAIN p.steps /\ a \in Carried(p)[i + n]

ProgramTyped(p) ==
    /\ DOMAIN p.steps \subseteq Nat \ {0} /\ 1 \in DOMAIN p.steps
    /\ \A i \in DOMAIN p.steps :
          /\ Carried(p)[i] \subseteq [kind : Kinds, age : Nat]
          /\ \A kind \in DOMAIN p.steps[i].to :
                /\ p.steps[i].to[kind] \in Nat
                /\ p.steps[i].do \in Branches => kind \in Kinds
          /\ p.steps[i].do = "recall" => "hit" \in DOMAIN p.steps[i].to
          /\ p.steps[i].do \in {"recall", "keep"} => p.steps[i].cache \in Caches
    /\ p.isr \in Nat
    /\ \A kind \in DOMAIN p.cdn :
          /\ p.cdn[kind].fresh \in Nat \ {0} /\ p.cdn[kind].stale \in Nat

\* Every step leads on with what a request may bring to it.
AddsUp(p) ==
    /\ Carry("nil", 0) \in Carried(p)[1]
    /\ \A i \in DOMAIN p.steps : \A a \in Carried(p)[i] :
          LET s == p.steps[i] IN
          /\ s.do \in Branches =>
                \A kind \in DOMAIN s.to : LeadsOn(p, i, s.to[kind], Carry(kind, a.age))
          /\ s.do \in {"recall", "keep"} => LeadsOn(p, i, 1, a)
          /\ s.do = "recall" =>
                \A q \in DOMAIN p.steps : KeepsAt(p.steps, q, s.cache) =>
                    \A m \in Carried(p)[q] : LeadsOn(p, i, s.to.hit, Recalled(m, s.cache, a))
          /\ s.do = "reply" => LeadsOn(p, i, 0, a)

\* A fetch that others share answers nothing itself and is the last a program
\* waits for.
JoinsLast(p) ==
    \A i \in DOMAIN p.steps : p.steps[i].do = "join" =>
        /\ \A kind \in DOMAIN p.steps[i].to : p.steps[i].to[kind] # 0
        /\ \A j \in DOMAIN p.steps : i < j => p.steps[j].do \notin Awaits

\* A checklist for whoever writes a route: its caches are the ones it names.
ASSUME ProgramsAssumption ==
    \A p \in Programs : ProgramTyped(p) /\ AddsUp(p) /\ JoinsLast(p)

-----------------------------------------------------------------------------
(* Requests. *)

Resting == [pc |-> 0, kind |-> "nil", age |-> 0, late |-> 0]
Told(kind, age, lull) == [kind |-> kind, age |-> age, lull |-> lull]
None == Told("nil", 0, 0)
StepOf(r) == route.steps[request[r].pc]
Running(r) == request[r].pc > 0
Waits(r) == Running(r) /\ StepOf(r).do \in Awaits
Starts == [Resting EXCEPT !.pc = 1]

\* Past its window the ISR copy is still served, for as long as it takes until
\* an answer replaces it.
Overdue == page # Nil /\ page.held >= route.isr

\* An answer becomes the ISR copy.  A failure may leave the copy as it is: it
\* was asked for in vain, and so was the tick the failure took.
Vain(r) == IF page.held > route.isr THEN request[r].late ELSE 0
Prints(r, kind, age) ==
    \/ page' = IF route.isr > 0 THEN Copy(kind, age, 0) ELSE Nil
    \/ /\ kind = "failed"
       /\ page' = IF page = Nil THEN Nil
                  ELSE [page EXCEPT !.lull = @ + Vain(r), !.asked = FALSE]

\* The CDN keeps the kinds its header allows.
Passes(kind, age, lull) ==
    /\ answered' = Told(kind, age, lull)
    /\ edge' = IF kind \in DOMAIN route.cdn THEN Copy(kind, age, lull) ELSE edge

\* Answered by the function: to the reader, or to the ISR copy alone.
Says(r, kind, age) ==
    /\ request' = [request EXCEPT ![r] = Resting]
    /\ Prints(r, kind, age)
    /\ Passes(kind, age, 0) \/ (route.isr > 0 /\ answered' = None /\ UNCHANGED edge)

Ahead(r, n, kind, age) ==
    [pc |-> request[r].pc + n, kind |-> kind, age |-> age, late |-> request[r].late]
Moves(r, n, kind, age) ==
    IF n = 0 THEN Says(r, kind, age)
    ELSE /\ request' = [request EXCEPT ![r] = Ahead(r, n, kind, age)]
         /\ answered' = None
         /\ UNCHANGED <<page, edge>>

\* Fresh at the edge: the function is not asked.  Stale: the edge may answer
\* while it asks, which is another request.
EdgeHolds(for) == edge # Nil /\ edge.held < for
FreshFor == route.cdn[edge.kind].fresh
StaleFor == route.cdn[edge.kind].fresh + route.cdn[edge.kind].stale

EdgeAnswers ==
    /\ edge # Nil /\ EdgeHolds(StaleFor)
    /\ answered' = Told(edge.kind, edge.age, edge.lull)
    /\ UNCHANGED <<route, memo, page, edge, request>>

\* JavaScript runs to the next await: a request acts when no other is
\* between two of its own.
Alone(r) == \A q \in Requests \ {r} : Running(q) => Waits(q)

EdgeFresh == edge # Nil /\ EdgeHolds(FreshFor)

Asks(r) ==
    /\ ~Running(r) /\ Alone(r)
    /\ ~EdgeFresh /\ page = Nil
    /\ request' = [request EXCEPT ![r] = Starts]
    /\ answered' = None
    /\ UNCHANGED <<route, memo, page, edge>>

\* The ISR copy answers; past its window it is renewed, by one request at a time.
PageAnswers(r) ==
    /\ page # Nil /\ ~EdgeFresh
    /\ Passes(page.kind, page.age, page.lull)
    /\ request' = IF Overdue /\ \A q \in Requests : ~Running(q)
                  THEN [request EXCEPT ![r] = Starts] ELSE request
    /\ page' = IF Overdue THEN [page EXCEPT !.asked = TRUE] ELSE page
    /\ UNCHANGED <<route, memo>>

Does(r, do) == Running(r) /\ Alone(r) /\ StepOf(r).do = do

\* A check, or what an answer turns out to say.
Decides(r) ==
    /\ Does(r, "decide")
    /\ \E kind \in DOMAIN StepOf(r).to : Moves(r, StepOf(r).to[kind], kind, request[r].age)
    /\ UNCHANGED <<route, memo>>

Hits(r) == memo[StepOf(r).cache] # Nil

\* Mutant: a hit extends the entry, as a sliding expiry would.
RecallsSliding(r) ==
    /\ Does(r, "recall")
    /\ IF Hits(r)
       THEN LET m == memo[StepOf(r).cache] IN
            /\ Moves(r, StepOf(r).to.hit, m.kind, Older(m.age, request[r].age))
            /\ memo' = [memo EXCEPT ![StepOf(r).cache].held = 0]
       ELSE Moves(r, 1, request[r].kind, request[r].age) /\ UNCHANGED memo
    /\ UNCHANGED route

Recalls(r) ==
    /\ Does(r, "recall")
    /\ IF Hits(r)
       THEN LET m == memo[StepOf(r).cache] IN
            Moves(r, StepOf(r).to.hit, m.kind, Older(m.age, request[r].age))
       ELSE Moves(r, 1, request[r].kind, request[r].age)
    /\ UNCHANGED <<route, memo>>

Lands(r) ==
    /\ Does(r, "fetch")
    /\ \E kind \in DOMAIN StepOf(r).to : Moves(r, StepOf(r).to[kind], kind, request[r].age)
    /\ UNCHANGED <<route, memo>>

\* A shared fetch lands for everyone who waits for it, as old as its first.
Flock(r) == {q \in Requests : request[q].pc = request[r].pc}
LandsForAll(r) ==
    /\ Does(r, "join")
    /\ \E kind \in DOMAIN StepOf(r).to, first \in Flock(r) :
          /\ \A q \in Flock(r) : request[q].age <= request[first].age
          /\ request' = [q \in Requests |->
                IF q \in Flock(r) THEN Ahead(q, StepOf(r).to[kind], kind, request[first].age)
                ELSE request[q]]
    /\ answered' = None
    /\ UNCHANGED <<route, memo, page, edge>>

Keeps(r) ==
    LET c == StepOf(r).cache
        held == IF c \in StampedAtStart THEN request[r].late ELSE 0
    IN
    /\ Does(r, "keep")
    /\ memo' = [memo EXCEPT ![c] = Entry(request[r].kind, request[r].age, held)]
    /\ Moves(r, 1, request[r].kind, request[r].age)
    /\ UNCHANGED route

Replies(r) ==
    /\ Does(r, "reply")
    /\ Says(r, request[r].kind, request[r].age)
    /\ UNCHANGED <<route, memo>>

-----------------------------------------------------------------------------
(* The instance and time. *)

\* The entries of other keys push this one out.
Evict(c) ==
    /\ memo[c] # Nil
    /\ memo' = [memo EXCEPT ![c] = Nil]
    /\ answered' = None
    /\ UNCHANGED <<route, page, edge, request>>

\* The instance is recycled, or another answers from here on; a deployment
\* drops the ISR copy, too.
Recycle ==
    /\ \A r \in Requests : ~Running(r)
    /\ memo' = [c \in Caches |-> Nil]
    /\ page' \in {page, Nil}
    /\ answered' = None
    /\ UNCHANGED <<route, edge, request>>

Later(e) == [e EXCEPT !.age = @ + 1, !.held = @ + 1]
Aged(e, for) == IF e = Nil \/ e.held + 1 > for THEN Nil ELSE Later(e)

Lull == IF Overdue /\ ~page.asked THEN 1 ELSE 0

\* No request outlives two ticks.
Tick ==
    /\ \A r \in Requests : request[r].late = 0 /\ (Running(r) => Waits(r))
    /\ memo' = [c \in Caches |-> Aged(memo[c], Lives(c))]
    /\ Overdue => page.lull < MaxLull
    /\ page' = IF page = Nil THEN Nil ELSE [Later(page) EXCEPT !.lull = @ + Lull, !.asked = FALSE]
    /\ edge' = IF edge = Nil THEN Nil ELSE Aged(edge, StaleFor - 1)
    /\ request' = [r \in Requests |->
          IF Running(r) THEN [Ahead(r, 0, request[r].kind, request[r].age + 1) EXCEPT !.late = 1]
          ELSE Resting]
    /\ answered' = None
    /\ UNCHANGED route

RoutesInit ==
    /\ route \in Programs
    /\ memo = [c \in Caches |-> Nil]
    /\ page = Nil
    /\ edge = Nil
    /\ request = [r \in Requests |-> Resting]
    /\ answered = None

RoutesNext ==
    \/ \E r \in Requests :
          \/ Asks(r) \/ PageAnswers(r) \/ Decides(r) \/ Recalls(r) \/ Lands(r) \/ LandsForAll(r)
          \/ Keeps(r) \/ Replies(r)
    \/ EdgeAnswers
    \/ \E c \in Shared : Evict(c)
    \/ Recycle
    \/ Tick

RoutesSpec == RoutesInit /\ [][RoutesNext]_routeVars

-----------------------------------------------------------------------------
(* Property. *)

\* The lifetimes an answer of a kind may add up: those of the caches it came
\* through, a tick for each request on the way, the window of the ISR copy with
\* a tick to renew it, the CDN's two windows.
OfPage == IF route.isr > 0 THEN route.isr + 1 ELSE 0
OfCdn(kind) ==
    IF kind \in DOMAIN route.cdn
    THEN route.cdn[kind].fresh + route.cdn[kind].stale - 1 ELSE 0
Promised(kind) == Lifetimes(route, kind) + 1 + OfPage + OfCdn(kind)

\* No chain of caches makes an answer, a refusal or a failure older than its
\* lifetimes add up to: an entry is not renewed by being read, a memo that keeps
\* what another memo gave it adds one lifetime and no more, and an ISR copy,
\* which is served past its window, is older only by the time nobody asked for
\* it or its renewal failed.
ServedIsRecent ==
    answered.kind # "nil" => answered.age <= Promised(answered.kind) + answered.lull
=============================================================================
