-------------------------------- MODULE Views --------------------------------
(****************************************************************************)
(* What the live pages show while their feeds load, answer, fail and are    *)
(* refreshed.  A feed is the state useSWR keeps for one route; a view is a  *)
(* page, or a panel with feeds of its own, and a view's parts say what the  *)
(* reader is told there and on whose word.                                  *)
(****************************************************************************)
CONSTANT Views   \* the views that are opened

ViewNames ==
    {"network", "status", "pulse", "economics", "share vs footprint",
     "reward history", "digest", "live baseline", "projection", "tracking",
     "fees", "contributors", "contributor", "contributor changelog",
     "contributor links", "onchain history", "reconciliation", "links",
     "link", "link value", "changelog", "validators", "simulate"}

ASSUME ViewsAssumption == Views \subseteq ViewNames

VARIABLES
    view,    \* the one on screen
    feed,    \* what SWR holds, by feed
    seen     \* everReady of ShapleyTracking

viewVars == <<view, feed, seen>>

Nothing == "none yet"
Has(f) == feed[f].data # Nothing
FailedAlways(f) == feed[f].error   \* mutant: of a refresh, too
Failed(f) == feed[f].error /\ ~Has(f)      \* hasLoadError
IsLoading(f) == feed[f].busy /\ ~Has(f)
Off(f) == ~Has(f) /\ ~feed[f].busy /\ ~feed[f].error
Full(f) == feed[f].data = "full"

\* What a route may answer: "full" with something to show, "empty" without;
\* some answers are words of their own.
Answers(f) ==
    CASE f \in {"baseline", "tracking"} -> {"full", "not cached"}
      [] f = "health" -> {"full", "degraded", "down"}
      [] f \in {"prices", "snapshot", "rate"} -> {"full"}
      [] f = "stake" -> {"full", "empty", "not found"}
      [] OTHER -> {"full", "empty"}

\* A part says: "values" (numbers, rows), a claim ("none", "all clear", "not
\* found", "not cached", "zero"), or no claim ("hidden", "dash", "waiting",
\* "error", "prompt"); a page is the set of its parts.
Part(at, says, from) == {[at |-> at, says |-> says, from |-> from]}
Claims == {"values", "none", "all clear", "not found", "not cached", "zero"}

\* The early returns of a page.  Mutant: no check for data to come.
GuardedEager(f, parts) == IF Failed(f) THEN Part("page", "error", {f}) ELSE parts
Guarded(f, parts) ==
    IF Failed(f) THEN Part("page", "error", {f})
    ELSE IF ~Has(f) THEN Part("page", "waiting", {f})
    ELSE parts

Shows(at, f) == Part(at, "values", {f})
Optional(at, f) == Part(at, IF Full(f) THEN "values" ELSE "hidden", {f})
OrDash(at, f) == Part(at, IF Full(f) THEN "values" ELSE "dash", {f})
OrDots(at, f) == Part(at, IF Has(f) THEN "values" ELSE "waiting", {f})

-----------------------------------------------------------------------------
(* Network, status and the sidebar's heartbeat. *)

ActiveIssues == Optional("active issues", "status")
MostUtilised == Optional("most utilised", "status")

\* The leaderboard ranks by a share the hub gives, and shows a dash without it.
Leaderboard == OrDash("all-time share", "hub") \cup Optional("latest share", "baseline")

NetworkPage == Guarded("topology",
         Shows("totals, map, metro demand", "topology")
    \cup ActiveIssues \cup MostUtilised \cup Leaderboard)

StatusPage == Guarded("health",
         Part("overall", IF Full("health") THEN "all clear" ELSE "values", {"health"})
    \cup Shows("sources", "health")
    \cup Part("link health", IF Has("status") THEN "values" ELSE "hidden", {"status"}))

\* A source that is down trumps link health, which goes by the share of healthy
\* links: all of them when there are no issues.  Sources not heard of are well.
SeverityDot ==
    IF feed["health"].data = "down" \/ (feed["health"].data = "degraded" /\ ~Full("status"))
    THEN Part("dot", "values", {"health"})
    ELSE IF ~Has("status") THEN Part("dot", "waiting", {"status"})
    ELSE Part("dot", IF Full("status") THEN "values" ELSE "all clear", {"status"})

NetworkPulse ==
         SeverityDot
    \cup OrDots("counts", "stats")
    \cup OrDots("healthy", "status")
    \cup Part("issues", IF Full("status") THEN "values" ELSE "all clear", {"status"})
    \cup OrDots("sources", "health")

-----------------------------------------------------------------------------
(* Economics. *)

FootprintTable == Shows("footprint", "hub")
EconomicsPage == Guarded("hub", Shows("totals, distribution", "hub") \cup FootprintTable)

ShareVsFootprint ==
    Part("rows", IF Full("hub") /\ Full("topology") THEN "values" ELSE "hidden", {"hub", "topology"})

EpochRewardHistory == Optional("pool", "hub")

WeeklyDigest ==
    IF (feed["diff"].error \/ feed["epochs"].error) /\ ~Has("diff")
    THEN Part("digest", "error", {"diff", "epochs"})
    ELSE IF ~Has("diff") THEN Part("digest", "waiting", {"diff", "epochs"})
    ELSE Shows("digest", "diff")

LiveBaselineShapley ==
    IF IsLoading("baseline") THEN Part("anchor", "waiting", {"baseline"})
    ELSE IF Failed("baseline") THEN Part("anchor", "error", {"baseline"})
    ELSE Optional("anchor", "baseline")

\* Not hasLoadError: a failed refresh takes the projection away.
PoolProjection ==
    IF feed["projection"].error THEN Part("projection", "error", {"projection"})
    ELSE OrDots("projection", "projection")

TrackingSeries ==
    IF IsLoading("tracking") THEN Part("series", "waiting", {"tracking"})
    ELSE IF Failed("tracking") THEN Part("series", "error", {"tracking"})
    ELSE IF feed["tracking"].data = "not cached" THEN Part("series", "not cached", {"tracking"})
    ELSE Shows("series", "tracking")

\* Once it has shown a series the card stays, with its picker.
ShapleyTracking ==
    IF seen \/ Full("tracking")
    THEN Part("picker", "picker", {}) \cup TrackingSeries
    ELSE IF Failed("tracking") THEN Part("series", "error", {"tracking"})
    ELSE Part("series", IF Has("tracking") THEN "hidden" ELSE "waiting", {"tracking"})

FeeTable == Shows("fees", "fees")
FeePage ==
    IF Failed("fees") THEN Part("page", "error", {"fees"})
    ELSE IF IsLoading("fees") THEN Part("page", "waiting", {"fees"})
    ELSE IF ~Full("fees") THEN Part("page", "none", {"fees"})
    ELSE FeeTable

-----------------------------------------------------------------------------
(* Contributors. *)

\* The export writes zero where the table shows a dash.
ContributorsCsv == Part("CSV", IF Full("hub") THEN "values" ELSE "zero", {"hub"})

ContributorRows ==
         Shows("rows", "topology")
    \cup OrDash("all-time", "hub")
    \cup Optional("live share", "baseline")

ContributorsPage ==
    IF Failed("topology") THEN Part("page", "error", {"topology"})
    ELSE IF IsLoading("topology") THEN Part("page", "waiting", {"topology"})
    ELSE IF ~Full("topology") THEN Part("page", "none", {"topology"})
    ELSE ContributorRows \cup ContributorsCsv

ContributorCards ==
         Part("all-time", IF Full("hub") THEN "values" ELSE "none", {"hub"})
    \cup Part("live", IF Full("baseline") THEN "values" ELSE "not cached", {"baseline"})
    \cup OrDash("earned", "hub")
    \cup Part("at spot", IF Full("hub") /\ Full("prices") THEN "values" ELSE "dash", {"hub", "prices"})

ContributorTables ==
    Optional("issues", "status") \cup Shows("links", "topology") \cup Shows("devices", "topology")

\* An "empty" topology is one without this contributor.
ContributorDetailPage ==
    IF IsLoading("topology") \/ IsLoading("hub")
    THEN Part("page", "waiting", {"topology", "hub"})
    ELSE IF ~Full("topology") THEN Part("page", "not found", {"topology"})
    ELSE ContributorCards \cup ContributorTables

\* Like the projection, the changelog goes when its refresh fails.
ContributorChangelog ==
    IF ~Has("epochs") THEN Part("changelog", "hidden", {"epochs"})
    ELSE IF feed["diff"].error THEN Part("changelog", "error", {"diff"})
    ELSE IF ~Has("diff") THEN Part("changelog", "waiting", {"diff"})
    ELSE Part("changelog", IF Full("diff") THEN "values" ELSE "none", {"diff"})

EstimateBanner ==
    Part("banner", IF feed["estimate"].error THEN "error"
                   ELSE IF IsLoading("estimate") THEN "waiting" ELSE "hidden", {"estimate"})

ContributorLinkRows ==
         Shows("rows", "topology")
    \cup OrDash("utilisation", "status")
    \cup OrDash("tier", "estimate")

ContributorLinksPage == Guarded("topology",
    IF ~Full("topology") THEN Part("rows", "none", {"topology"})
    ELSE EstimateBanner \cup ContributorLinkRows)

\* 404 is "no rewards"; a failed refresh takes the history away.
OnchainRewardHistory ==
    IF IsLoading("onchain") THEN Part("history", "waiting", {"onchain"})
    ELSE IF feed["onchain"].error THEN Part("history", "error", {"onchain"})
    ELSE Optional("history", "onchain")

RewardReconciliation ==
    IF IsLoading("hub") \/ IsLoading("baseline") THEN Part("reconciliation", "waiting", {"hub", "baseline"})
    ELSE IF ~Has("hub") \/ ~Full("baseline") THEN Part("reconciliation", "hidden", {"hub", "baseline"})
    ELSE Part("reconciliation", IF Full("hub") THEN "values" ELSE "none", {"hub", "baseline"})

-----------------------------------------------------------------------------
(* Links. *)

LinkRows == Shows("rows", "topology") \cup OrDash("utilisation", "status")
LinksPage == Guarded("topology",
    IF ~Full("topology") THEN Part("rows", "none", {"topology"}) ELSE LinkRows)

RewardShare ==
    IF feed["estimate"].busy THEN Part("reward share", "waiting", {"estimate"})
    ELSE IF feed["estimate"].error THEN Part("reward share", "error", {"estimate"})
    ELSE IF ~Has("estimate") THEN Part("reward share", "hidden", {"estimate"})
    ELSE Part("reward share", IF Full("estimate") THEN "values" ELSE "none", {"estimate"})

LinkFacts ==
         Optional("utilisation", "status")
    \cup Optional("issues", "status")
    \cup Shows("endpoints", "topology")

\* An "empty" topology is one without this link.  A topology that failed reads
\* as one that loads.
LinkDetailPage ==
    IF ~Has("topology") THEN Part("page", "waiting", {"topology"})
    ELSE IF ~Full("topology") THEN Part("page", "not found", {"topology"})
    ELSE Shows("spec", "topology") \cup RewardShare \cup LinkFacts

LinkValueRows ==
         Shows("banner", "estimate")
    \cup Part("rows", IF Full("topology") THEN "values" ELSE "none", {"topology", "estimate"})

\* An "empty" topology is one without links of the contributor.
LinkValuePage == Guarded("topology",
    IF Off("estimate") THEN Part("estimate", "prompt", {"estimate"})
    ELSE IF feed["estimate"].error THEN Part("estimate", "error", {"estimate"})
    ELSE IF ~Has("estimate") THEN Part("estimate", "waiting", {"estimate"})
    ELSE LinkValueRows)

DiffView == Shows("contributors", "diff")
ChangeList == Optional("changes", "diff")

\* Also the prompt of a failed list of epochs.
ChangelogPage ==
    IF IsLoading("epochs") \/ IsLoading("diff") THEN Part("diff", "waiting", {"epochs", "diff"})
    ELSE IF feed["diff"].error THEN Part("diff", "error", {"diff"})
    ELSE IF ~Has("diff") THEN Part("diff", "prompt", {"epochs", "diff"})
    ELSE DiffView \cup ChangeList

-----------------------------------------------------------------------------
(* Validators. *)

\* Columns computed with zero without a fee history, and those of a month with
\* the cadence of epochs: a constant until the feed has answered.
PublishersInSol ==
         Part("table in SOL", IF Full("fees") THEN "values" ELSE "zero", {"fees"})
    \cup Part("table per month", IF Full("fees") THEN "values" ELSE "zero", {"fees", "rate"})

PublishersTable ==
    IF IsLoading("publishers") \/ IsLoading("fees")
    THEN Part("table", "waiting", {"publishers", "fees"})
    ELSE IF ~Full("publishers") THEN Part("table", "none", {"publishers"})
    ELSE Shows("table", "publishers") \cup OrDash("contributor", "topology") \cup PublishersInSol

FeesUnavailable == feed["fees"].error \/ (~IsLoading("fees") /\ ~Full("fees"))

\* An "empty" stake is none at all, of a validator that is no publisher.
EarningsEstimate ==
    LET InSol(at, from) == Part(at, IF FeesUnavailable THEN "dash" ELSE "values", from) IN
    IF ~Full("stake") THEN Part("summary", "none", {"stake", "publishers"})
    ELSE   Part("summary", "values", {"stake", "publishers"})
        \cup InSol("summary in SOL", {"stake", "publishers", "fees"})
        \cup InSol("summary per month", {"stake", "publishers", "fees", "rate"})
        \cup Optional("contributor", "topology")

StakeSummary ==
    IF feed["stake"].error THEN Part("summary", "error", {"stake"})
    ELSE IF feed["stake"].data = "not found" THEN Part("summary", "not found", {"stake"})
    ELSE IF ~Has("stake") \/ IsLoading("fees") \/ ~Has("publishers")
    THEN Part("summary", "waiting", {"stake", "fees", "publishers"})
    ELSE EarningsEstimate

\* A pubkey in the query asks for a summary, above a line that opens the table.
Resolved ==
         Part("banner", IF FeesUnavailable THEN "error" ELSE "hidden", {"fees"})
    \cup StakeSummary
    \cup Part("network", IF Has("publishers") THEN "values" ELSE "hidden", {"publishers"})

ValidatorsPage ==
    IF feed["publishers"].error THEN Part("page", "error", {"publishers"})
    ELSE PublishersTable \cup (IF Off("stake") THEN {} ELSE Resolved)

-----------------------------------------------------------------------------
(* The gate of the simulator: an error, even of a refresh, unmounts the tab. *)

SimulatePage ==
    IF feed["epochs"].error \/ feed["snapshot"].error
    THEN Part("page", "error", {"epochs", "snapshot"})
    ELSE IF IsLoading("epochs") \/ IsLoading("fees") \/ ~Has("snapshot")
    THEN Part("page", "waiting", {"epochs", "snapshot", "fees"})
    ELSE   Shows("tab", "snapshot")
        \cup Part("revenue", IF Full("fees") THEN "values" ELSE "error", {"fees"})
        \cup Part("per month", IF Full("fees") THEN "values" ELSE "hidden", {"fees", "rate"})

-----------------------------------------------------------------------------
(* The views, their feeds, and what happens to a feed. *)

FeedsOf == [v \in ViewNames |->
    CASE v = "network" -> {"topology", "status", "hub", "baseline"}
      [] v = "status" -> {"health", "status"}
      [] v = "pulse" -> {"health", "status", "stats"}
      [] v = "economics" -> {"hub"}
      [] v = "share vs footprint" -> {"hub", "topology"}
      [] v = "reward history" -> {"hub"}
      [] v = "digest" -> {"epochs", "diff"}
      [] v = "live baseline" -> {"baseline"}
      [] v = "projection" -> {"projection"}
      [] v = "tracking" -> {"tracking"}
      [] v = "fees" -> {"fees"}
      [] v = "contributors" -> {"topology", "hub", "baseline"}
      [] v = "contributor" -> {"topology", "hub", "baseline", "prices", "status"}
      [] v = "contributor changelog" -> {"epochs", "diff"}
      [] v = "contributor links" -> {"topology", "status", "epochs", "estimate"}
      [] v = "onchain history" -> {"onchain"}
      [] v = "reconciliation" -> {"hub", "baseline"}
      [] v = "links" -> {"topology", "status"}
      [] v = "link" -> {"topology", "status", "epochs", "estimate"}
      [] v = "link value" -> {"topology", "epochs", "estimate"}
      [] v = "changelog" -> {"epochs", "diff"}
      [] v = "validators" -> {"publishers", "fees", "stake", "topology", "rate"}
      [] v = "simulate" -> {"epochs", "snapshot", "fees", "rate"}]

Parts ==
    CASE view = "network" -> NetworkPage
      [] view = "status" -> StatusPage
      [] view = "pulse" -> NetworkPulse
      [] view = "economics" -> EconomicsPage
      [] view = "share vs footprint" -> ShareVsFootprint
      [] view = "reward history" -> EpochRewardHistory
      [] view = "digest" -> WeeklyDigest
      [] view = "live baseline" -> LiveBaselineShapley
      [] view = "projection" -> PoolProjection
      [] view = "tracking" -> ShapleyTracking
      [] view = "fees" -> FeePage
      [] view = "contributors" -> ContributorsPage
      [] view = "contributor" -> ContributorDetailPage
      [] view = "contributor changelog" -> ContributorChangelog
      [] view = "contributor links" -> ContributorLinksPage
      [] view = "onchain history" -> OnchainRewardHistory
      [] view = "reconciliation" -> RewardReconciliation
      [] view = "links" -> LinksPage
      [] view = "link" -> LinkDetailPage
      [] view = "link value" -> LinkValuePage
      [] view = "changelog" -> ChangelogPage
      [] view = "validators" -> ValidatorsPage
      [] view = "simulate" -> SimulatePage

\* A feed whose key is not known yet is off.
Idle == [data |-> Nothing, error |-> FALSE, busy |-> FALSE]
Asking == [Idle EXCEPT !.busy = TRUE]
Late == {"diff", "snapshot", "estimate", "stake"}

\* Feeds whose key follows a choice of the reader: an epoch, a contributor, a
\* horizon, a pubkey.
Keyed == Late \cup {"tracking", "projection", "onchain"}

ViewsInit ==
    /\ view \in Views
    /\ feed = [f \in FeedsOf[view] |-> IF f \in Late THEN Idle ELSE Asking]
    /\ seen = FALSE

Becomes(f, state) ==
    /\ feed' = [feed EXCEPT ![f] = state]
    /\ seen' = (seen \/ (f = "tracking" /\ state.data = "full"))
    /\ UNCHANGED view

Start(f) ==
    /\ Off(f)
    /\ f # "stake" => Has("epochs")
    /\ f = "estimate" => Full("topology")
    /\ Becomes(f, Asking)

\* A fetch of SWR: the first, a retry or a refresh.  An estimate is fetched once.
Fetching(f) == feed[f].busy \/ (Has(f) /\ f # "estimate")

Answer(f) ==
    /\ Fetching(f)
    /\ \E answer \in Answers(f) : Becomes(f, [Idle EXCEPT !.data = answer])

Fail(f) ==
    /\ Fetching(f)
    /\ Becomes(f, [feed[f] EXCEPT !.error = TRUE, !.busy = FALSE])

Retry(f) ==
    /\ feed[f].error
    /\ ~feed[f].busy
    /\ ~Has(f)
    /\ f # "estimate"
    /\ Becomes(f, [feed[f] EXCEPT !.busy = TRUE])

\* Another key: nothing yet, or what the cache of SWR has for it.
Rekey(f) ==
    /\ f \in Keyed
    /\ ~Off(f)
    /\ \/ Becomes(f, Asking)
       \/ f \in {"stake", "estimate", "diff"} /\ Becomes(f, Idle)
       \/ /\ f # "estimate"
          /\ \E answer \in Answers(f) : Becomes(f, [Idle EXCEPT !.data = answer])

ViewsNext ==
    \E f \in DOMAIN feed : Start(f) \/ Answer(f) \/ Fail(f) \/ Retry(f) \/ Rekey(f)

ViewsSpec == ViewsInit /\ [][ViewsNext]_viewVars

-----------------------------------------------------------------------------

\* Parts that speak before their feed has answered: a count of issues that
\* reads 0, a contributor "not found" or without payouts after a failure, zeros
\* computed from a feed that failed, and months and years of a cadence taken for
\* granted.
Presumed ==
    {<<"pulse", "issues">>, <<"contributors", "CSV">>,
     <<"contributor", "page">>, <<"contributor", "all-time">>, <<"contributor", "live">>,
     <<"validators", "table in SOL">>, <<"validators", "table per month">>,
     <<"validators", "summary per month">>, <<"simulate", "per month">>}

\* "No silent fallback" (README.md): values, and claims such as "none" or "not
\* found", stand on answers of every feed they are drawn from.
ShownIsAnswered ==
    \A p \in Parts :
        <<view, p.at>> \notin Presumed /\ p.says \in Claims => \A f \in p.from : Has(f)

\* Views that give up what they showed when a refresh fails.
TakesAway == {"projection", "contributor changelog", "onchain history", "changelog",
              "validators", "simulate"}

\* "A failed refresh alone must not read as an error" (use-live.ts): what is on
\* screen goes when an answer or a choice replaces it, never on a failure.
RefreshKeepsValues ==
    [][view \notin TakesAway /\ (\E f \in DOMAIN feed : Fail(f)) =>
          \A p \in Parts : p.says \in Claims => p \in Parts']_viewVars
=============================================================================
