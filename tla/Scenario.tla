------------------------------- MODULE Scenario -------------------------------
(****************************************************************************)
(* The editor of a what-if scenario: a contributor, a snapshot, and the edit *)
(* set that lives in the URL, changed by the editor's handlers, by a change  *)
(* of epoch and by the browser's history; and what the API answers when the  *)
(* scenario is submitted.                                                    *)
(****************************************************************************)
EXTENDS ShapleyInputs

CONSTANTS
    Snapshots,   \* epochs to choose from
    Foreign,     \* bodies of other clients of the API
    Counts,      \* validator counts typed into the demand panel
    Rtts,        \* round-trip times typed into the form, which caps none of them
    MaxEdits     \* bound: edits of a scenario, from which on they are only undone

ASSUME ScenarioAssumption == Rtts \subseteq Nat

VARIABLES
    snap,    \* the snapshot of the selected epoch
    code,    \* contributorCode: one of Contributor, NewContributor, or Nobody
    url,     \* remove, add and demand
    staged,  \* every edit was made on this snapshot with the editor's own controls
    answer   \* the API's answer to the scenario on screen

scenarioVars == <<snap, code, url, staged, answer>>

Blank == [remove |-> {}, add |-> <<>>, demand |-> <<>>]
Edits(u) == Cardinality(u.remove) + Len(u.add) + Cardinality(DOMAIN u.demand)
NoAnswer == [asked |-> FALSE, accepted |-> FALSE]

\* A page opens on a URL: its own, or one that was shared, which may name a
\* contributor this snapshot does not list.
ScenarioInit ==
    /\ snap \in Snapshots
    /\ code \in Contributor \cup {NewContributor, Nobody}
    /\ url \in {Blank} \cup {[Blank EXCEPT !.remove = {l}] : l \in Link}
    /\ staged = (url = Blank)
    /\ answer = NoAnswer

\* An edit by a handler: the result on screen goes.
Change(u) ==
    /\ Edits(url) < MaxEdits \/ Edits(u) < Edits(url)
    /\ url' = u
    /\ answer' = NoAnswer
    /\ UNCHANGED <<snap, code>>

-----------------------------------------------------------------------------
(* The handlers. *)

\* Whoever has links here, a new contributor, and from there back to nobody.
ChangeContributor ==
    /\ code' \in ({c \in snap.listed : LinksOf(snap, c) # {}} \cup {NewContributor}
                    \cup (IF code = NewContributor THEN {Nobody} ELSE {})) \ {code}
    /\ url' = Blank
    /\ staged' = TRUE
    /\ answer' = NoAnswer
    /\ UNCHANGED snap

\* A link of the list or an arc of the map.
ToggleLink ==
    /\ code \in snap.listed
    /\ \E l \in LinksOf(snap, code) :
          Change([url EXCEPT !.remove = IF l \in @ THEN @ \ {l} ELSE @ \cup {l}])
    /\ UNCHANGED staged

Draft(a, z, rtt) == [a |-> a, z |-> z, bandwidth |-> MaxBandwidth, latency |-> rtt]
Staged(links) == Change([url EXCEPT !.add = @ \o links])
SamePlace(a, z) == a = z   \* mutant: two cities of one metro pass
SameMetro(a, z) == snap.metro[a] # Nowhere /\ snap.metro[a] = snap.metro[z]

\* The form offers active cities; its button is off within a metro.
AddDraft ==
    /\ code # Nobody
    /\ \E a, z \in ActiveCities(snap), rtt \in Rtts :
          /\ a # z
          /\ ~SameMetro(a, z)
          /\ Staged(<<Draft(a, z, rtt)>>)
    /\ UNCHANGED staged

\* The map offers the places of all links, in two clicks.
MapCities ==
    {p \in Location : \E l \in Link : p \in {PlaceOf(snap, snap.link[l].a), PlaceOf(snap, snap.link[l].z)}}

PickPair ==
    /\ code # Nobody
    /\ \E a, z \in MapCities, rtt \in Rtts :
          /\ a # z
          /\ ~SameMetro(a, z)
          /\ Staged(<<Draft(a, z, rtt)>>)
    /\ UNCHANGED staged

\* A suggested route: two active cities of different metros, as findCoverageGaps
\* ranks them.
TakeGap ==
    /\ code # Nobody
    /\ \E a, z \in ActiveCities(snap), rtt \in Rtts :
          /\ a # z
          /\ ~SameMetro(a, z)
          /\ Staged(<<Draft(a, z, rtt)>>)
    /\ UNCHANGED staged

\* The presets take the first active cities with distinct metros, and a
\* round-trip time of their own.
Distinct(places) ==
    /\ \A p \in places : snap.metro[p] # Nowhere
    /\ \A p, q \in places : p # q => snap.metro[p] # snap.metro[q]

HotCorridor ==
    /\ code # Nobody
    /\ \E a, z \in ActiveCities(snap) :
          /\ a # z
          /\ Distinct({a, z})
          /\ Staged(<<Draft(a, z, 0)>>)
    /\ UNCHANGED staged

HubTriangle ==
    /\ code = NewContributor
    /\ \E a, b, c \in ActiveCities(snap) :
          /\ Cardinality({a, b, c}) = 3
          /\ Distinct({a, b, c})
          /\ Staged(<<Draft(a, b, 0), Draft(b, c, 0), Draft(a, c, 0)>>)
    /\ UNCHANGED staged

StripThin ==
    LET thin == {l \in LinksOf(snap, code) : snap.link[l].thin} IN
    /\ code \in snap.listed
    /\ thin # {}
    /\ Change([url EXCEPT !.remove = @ \cup thin])
    /\ UNCHANGED staged

RemoveAdded ==
    /\ \E i \in DOMAIN url.add : Change([url EXCEPT !.add = RemoveAt(@, i)])
    /\ UNCHANGED staged

WithCount(demand, m, n) == [x \in DOMAIN demand \cup {m} |-> IF x = m THEN n ELSE demand[x]]

\* The demand panel is there for a canonical snapshot only.
SetDemand ==
    /\ code # Nobody
    /\ Canonical(snap)
    /\ \E m \in PanelMetros(snap) : \E n \in Counts \cup {2 * PanelCount(snap, m)} :
          Change([url EXCEPT !.demand = WithCount(@, m, n)])
    /\ UNCHANGED staged

ClearDemand ==
    /\ code # Nobody
    /\ \E m \in DOMAIN url.demand :
          Change([url EXCEPT !.demand = [x \in DOMAIN @ \ {m} |-> @[x]]])
    /\ UNCHANGED staged

ResetAll ==
    /\ url # Blank
    /\ Change(Blank)
    /\ staged' = TRUE

\* Another epoch under the same contributor, listed there or not, and URL; Back
\* and Forward bring edit sets from before.
ChangeEpoch ==
    /\ snap' \in Snapshots \ {snap}
    /\ staged' = (url = Blank)
    /\ answer' = NoAnswer
    /\ UNCHANGED <<code, url>>

GoBack ==
    /\ \E l \in Link : url' = [Blank EXCEPT !.remove = {l}]
    /\ staged' = FALSE
    /\ answer' = NoAnswer
    /\ UNCHANGED <<snap, code>>

-----------------------------------------------------------------------------
(* The API. *)

\* Removals in the order they were made: any.
Orders(S) == {s \in [1 .. Cardinality(S) -> S] : Range(s) = S}

\* The body of the tab: a new contributor sends no removals, whatever the URL
\* says.
Body(removals) ==
    [remove |-> IF code = NewContributor THEN <<>> ELSE removals,
     add |-> url.add, demand |-> url.demand]

HasEdits ==
    \/ code # NewContributor /\ url.remove # {}
    \/ url.add # <<>>
    \/ url.demand # <<>>

Submit ==
    /\ code # Nobody
    /\ HasEdits
    /\ ~answer.asked
    /\ \E removals \in Orders(url.remove) : answer' = Prepare(snap, code, Body(removals))
    /\ UNCHANGED <<snap, code, url, staged>>

Call ==
    /\ url = Blank
    /\ ~answer.asked
    /\ code # Nobody
    /\ \E body \in Foreign : answer' = Prepare(snap, code, body)
    /\ UNCHANGED <<snap, code, url, staged>>

ScenarioNext ==
    \/ ChangeContributor \/ ToggleLink \/ AddDraft \/ PickPair \/ TakeGap
    \/ HotCorridor \/ HubTriangle \/ StripThin \/ RemoveAdded
    \/ SetDemand \/ ClearDemand \/ ResetAll \/ ChangeEpoch \/ GoBack
    \/ Submit \/ Call

ScenarioSpec == ScenarioInit /\ [][ScenarioNext]_scenarioVars

-----------------------------------------------------------------------------

OwnRows(input, c) ==
    {i \in DOMAIN input.private :
        {input.private[i].ends[1], input.private[i].ends[2]} \subseteq NamesOf(input, c)}

Pairs(rows) == [i \in DOMAIN rows |-> {rows[i].ends[1].city, rows[i].ends[2].city}]
Between(rows, pair) == Cardinality({i \in DOMAIN rows : Pairs(rows)[i] = pair})

\* What is solved is the baseline with the scenario's edits and nothing else:
\* no two devices of one name, no link without its devices, nothing of another
\* operator touched, every link added with own devices, and as many links gone
\* between two metros as were removed there, or all that could be.
ScenarioExact == answer.accepted =>
    LET base == answer.baseline
        mod == answer.modified
        links == answer.body.add
        AddedTo(pair) == Cardinality({i \in DOMAIN links :
                            {snap.metro[links[i].a], snap.metro[links[i].z]} = pair})
        gone == answer.body.remove
        RemovedFrom(pair) == Cardinality({i \in DOMAIN gone :
                            {MetroOf(snap, PlaceOf(snap, snap.link[gone[i]].a)),
                             MetroOf(snap, PlaceOf(snap, snap.link[gone[i]].z))} = pair})
        names == [i \in DOMAIN mod.devices |-> mod.devices[i].name]
        Others(input) == SelectSeq(input.devices, LAMBDA r : r.operator # code)
    IN  /\ \A i, j \in DOMAIN names : names[i] = names[j] => i = j
        /\ Others(mod) = Others(base)
        /\ \A i \in DOMAIN mod.private : {mod.private[i].ends[1], mod.private[i].ends[2]} \subseteq Range(names)
        /\ \A i \in DOMAIN base.private \ OwnRows(base, code) : base.private[i] \in Range(mod.private)
        /\ \A i \in DOMAIN mod.private :
              mod.private[i].of = AddedLink => i \in OwnRows(mod, code)
        /\ \A pair \in {{m, n} : m, n \in Metro} :
              LET own == Cardinality({i \in OwnRows(base, code) : Pairs(base.private)[i] = pair})
              IN  Between(mod.private, pair) =
                    Between(base.private, pair) - Min({own, RemovedFrom(pair)}) + AddedTo(pair)
        /\ mod.weights = base.weights

\* The numbers of the demand panel are those of the solve: a metro it offers can
\* be overridden, its own count changes nothing, a count shows as receivers at
\* that metro alone, and zero takes its validators out.
PanelIsDemand ==
    /\ Canonical(snap) => \A m \in PanelMetros(snap) :
          Demands(Overridden(snap, WithCount(<<>>, m, PanelCount(snap, m)))) = Demands(CityStats(snap))
    /\ answer.accepted => LET demand == answer.body.demand IN
          /\ \A row \in answer.modified.demands :
                ~row.multicast /\ row.end \in DOMAIN demand => row.receivers = demand[row.end]
          /\ \A row \in answer.modified.demands :
                /\ row.start \in DOMAIN demand => demand[row.start] > 0
                /\ ~row.multicast => row.receivers > 0
          /\ \A row \in answer.baseline.demands :
                {row.start, row.end} \cap DOMAIN demand = {} => row \in answer.modified.demands

\* Someone the snapshot knows: a shared URL or another epoch may leave the
\* editor with a contributor that is not.
Listed == code = NewContributor \/ code \in snap.listed

\* "Don't let the user stage a draft the API will 400 on" (simulate-tab.tsx):
\* link edits made with the editor on this snapshot pass, as long as the
\* snapshot lists the contributor, every city it offers shares its name with an
\* exchange and no round-trip time was typed past the API's cap.
StagedIsAccepted ==
    answer.asked /\ staged /\ url # Blank /\ url.demand = <<>> /\ Canonical(snap)
        /\ Listed
        /\ (\A p \in Location : snap.metro[p] # Nowhere)
        /\ (\A i \in DOMAIN url.add : url.add[i].latency <= MaxLatency)
    => answer.accepted
=============================================================================
