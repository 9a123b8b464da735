----------------------------- MODULE PagesProofs -----------------------------
(***************************************************************************)
(* Theorems about what keeps no job: Scenario, for any network, snapshots, *)
(* edits and bodies of other clients; RateLimit, for any keys, limits,     *)
(* window and cap; and Views, for any of the live views.                   *)
(*                                                                         *)
(* The editor: what it lets a reader stage is accepted, and the panel      *)
(* shows the demand that is solved.  Whatever was staged on this snapshot  *)
(* keeps to it (Own), because a new contributor or epoch starts afresh;    *)
(* the answer on screen is that of the URL (Told), because every edit      *)
(* takes it away.                                                          *)
(*                                                                         *)
(* The limiter: types, and a caller spends its own budget and nobody       *)
(* else's.  While a window is open its count is what was let through since *)
(* it opened, and what is older belongs to one window before it (Fits);    *)
(* once it has closed, nothing has been let through since (Rests).  Both   *)
(* look back no further than the last time the cap dropped the key's       *)
(* window.                                                                 *)
(*                                                                         *)
(* The live pages: what they show stands on answers, and a failed refresh  *)
(* takes nothing away.  The feeds that wait for no choice of the reader    *)
(* are asked from the start (NeverOff), so that "none" is never a feed     *)
(* nobody asked; and a feed is busy for its first answer only              *)
(* (BusyIsFirst), so that a failure troubles either a page that had        *)
(* claimed nothing on that feed's word, or a feed whose answer stays.      *)
(***************************************************************************)
EXTENDS Scenario, RateLimit, Views, FiniteSetTheorems, SequenceTheorems, TLAPS

-----------------------------------------------------------------------------
(* The editor.                                                             *)

Drafts ==
    {d \in [a : Location, z : Location, bandwidth : {MaxBandwidth}, latency : Nat] :
        d.a # d.z /\ ~SameMetro(d.a, d.z)}

\* What the URL holds.
Shaped == url = [remove |-> url.remove, add |-> url.add, demand |-> url.demand]

\* Edits made with the editor on this snapshot.
Own == staged => url.remove \subseteq LinksOf(snap, code) /\ url.add \in Seq(Drafts)

\* Where the answer on screen comes from.
Told ==
    \/ answer = NoAnswer
    \/ url = Blank /\ \E body \in Foreign : answer = Prepare(snap, code, body)
    \/ code # Nobody /\ \E removals \in Orders(url.remove) :
          answer = Prepare(snap, code, Body(removals))

EditIInv == Shaped /\ Own /\ Told

LEMMA BlankShape ==
  /\ Blank = [remove |-> Blank.remove, add |-> Blank.add, demand |-> Blank.demand]
  /\ Blank.remove = {} /\ Blank.add = <<>>
  BY DEF Blank

LEMMA OwnBlank ==
  ASSUME url' = Blank
  PROVE  Own'
  <1>1. <<>> \in Seq(Drafts')
    OBVIOUS
  <1> QED
    BY <1>1, BlankShape DEF Own

LEMMA InitEditIInv == ScenarioInit => EditIInv
  <1> SUFFICES ASSUME ScenarioInit  PROVE EditIInv
    OBVIOUS
  <1>1. Shaped
    BY DEF ScenarioInit, Shaped, Blank
  <1>2. staged => url = Blank
    BY DEF ScenarioInit
  <1>3. <<>> \in Seq(Drafts)
    OBVIOUS
  <1>4. Own
    BY <1>2, <1>3, BlankShape DEF Own
  <1>5. Told
    BY DEF ScenarioInit, Told
  <1> QED
    BY <1>1, <1>4, <1>5 DEF EditIInv

-----------------------------------------------------------------------------

\* An edit keeps the shape of the URL and takes the answer away.
LEMMA Changes ==
  ASSUME EditIInv, NEW remove, NEW add, NEW demand,
         Change([remove |-> remove, add |-> add, demand |-> demand]), UNCHANGED staged,
         staged => remove \subseteq LinksOf(snap, code) /\ add \in Seq(Drafts)
  PROVE  EditIInv'
  <1>1. /\ url' = [remove |-> remove, add |-> add, demand |-> demand]
        /\ answer' = NoAnswer /\ snap' = snap /\ code' = code
    BY DEF Change
  <1>2. Shaped'
    BY <1>1 DEF Shaped, EditIInv
  <1>3. Drafts' = Drafts /\ LinksOf(snap, code)' = LinksOf(snap, code)
    BY <1>1 DEF Drafts, SameMetro, LinksOf
  <1>4. Own'
    BY <1>1, <1>3 DEF Own
  <1>5. Told'
    BY <1>1 DEF Told
  <1> QED
    BY <1>2, <1>4, <1>5 DEF EditIInv

LEMMA Adds ==
  ASSUME EditIInv, NEW links \in Seq(Drafts), Staged(links), UNCHANGED staged
  PROVE  EditIInv'
  <1>1. url = [remove |-> url.remove, add |-> url.add, demand |-> url.demand]
    BY DEF EditIInv, Shaped
  <1> DEFINE add == url.add \o links
  <1>2. Change([url EXCEPT !.add = add])
    BY DEF Staged
  <1>3. url.add \in Seq(Drafts) => add \in Seq(Drafts)
    BY ConcatProperties
  <1> HIDE DEF add
  <1>4. staged => url.remove \subseteq LinksOf(snap, code) /\ add \in Seq(Drafts)
    BY <1>3 DEF EditIInv, Own
  <1>5. [url EXCEPT !.add = add]
           = [remove |-> url.remove, add |-> add, demand |-> url.demand]
    BY <1>1
  <1>6. Change([remove |-> url.remove, add |-> add, demand |-> url.demand])
    BY <1>2, <1>5
  <1> QED
    BY <1>4, <1>6, Changes

LEMMA Drafted ==
  ASSUME NEW a \in Location, NEW z \in Location, NEW rtt \in Nat, a # z, ~SameMetro(a, z)
  PROVE  Draft(a, z, rtt) \in Drafts
  BY DEF Draft, Drafts

LEMMA One ==
  ASSUME NEW a \in Location, NEW z \in Location, NEW rtt \in Nat, a # z, ~SameMetro(a, z)
  PROVE  <<Draft(a, z, rtt)>> \in Seq(Drafts)
  BY Drafted

LEMMA Shorter ==
  ASSUME NEW S, NEW s \in Seq(S), NEW i \in DOMAIN s
  PROVE  RemoveAt(s, i) \in Seq(S)
  <1>1. i \in 1 .. Len(s) /\ Len(s) \in Nat
    BY LenProperties
  <1>2. SubSeq(s, 1, i - 1) \in Seq(S) /\ SubSeq(s, i + 1, Len(s)) \in Seq(S)
    <2>1. \A j \in 1 .. i - 1 : s[j] \in S
      BY <1>1, ElementOfSeq
    <2>2. \A j \in i + 1 .. Len(s) : s[j] \in S
      BY <1>1, ElementOfSeq
    <2>3. SubSeq(s, 1, i - 1) \in Seq(S)
      BY <1>1, <2>1, SubSeqProperties
    <2>4. SubSeq(s, i + 1, Len(s)) \in Seq(S)
      BY <1>1, <2>2, SubSeqProperties
    <2> QED
      BY <2>3, <2>4
  <1> QED
    BY <1>2, ConcatProperties DEF RemoveAt

\* An edit that takes no link away nor adds one.
LEMMA Fewer ==
  ASSUME EditIInv, NEW demand, Change([url EXCEPT !.demand = demand]), UNCHANGED staged
  PROVE  EditIInv'
  <1>1. url = [remove |-> url.remove, add |-> url.add, demand |-> url.demand]
    BY DEF EditIInv, Shaped
  <1>2. [url EXCEPT !.demand = demand]
           = [remove |-> url.remove, add |-> url.add, demand |-> demand]
    BY <1>1
  <1>3. Change([remove |-> url.remove, add |-> url.add, demand |-> demand])
    BY <1>2
  <1>4. staged => url.remove \subseteq LinksOf(snap, code) /\ url.add \in Seq(Drafts)
    BY DEF EditIInv, Own
  <1> QED
    BY <1>3, <1>4, Changes

LEMMA Removes ==
  ASSUME EditIInv, NEW remove, Change([url EXCEPT !.remove = remove]), UNCHANGED staged,
         staged => remove \subseteq LinksOf(snap, code)
  PROVE  EditIInv'
  <1>1. url = [remove |-> url.remove, add |-> url.add, demand |-> url.demand]
    BY DEF EditIInv, Shaped
  <1>2. [url EXCEPT !.remove = remove]
           = [remove |-> remove, add |-> url.add, demand |-> url.demand]
    BY <1>1
  <1>3. Change([remove |-> remove, add |-> url.add, demand |-> url.demand])
    BY <1>2
  <1>4. staged => remove \subseteq LinksOf(snap, code) /\ url.add \in Seq(Drafts)
    BY DEF EditIInv, Own
  <1> QED
    BY <1>3, <1>4, Changes

-----------------------------------------------------------------------------
(* The handlers. *)

LEMMA Toggles ==
  ASSUME EditIInv, ToggleLink
  PROVE  EditIInv'
  <1>1. PICK l \in LinksOf(snap, code) :
          Change([url EXCEPT !.remove = IF l \in @ THEN @ \ {l} ELSE @ \cup {l}])
    BY DEF ToggleLink
  <1> DEFINE remove == IF l \in url.remove THEN url.remove \ {l} ELSE url.remove \cup {l}
  <1>2. staged => remove \subseteq LinksOf(snap, code)
    BY DEF EditIInv, Own
  <1>3. UNCHANGED staged
    BY DEF ToggleLink
  <1> QED
    BY <1>1, <1>2, <1>3, Removes

LEMMA Strips ==
  ASSUME EditIInv, StripThin
  PROVE  EditIInv'
  <1> DEFINE thin == {l \in LinksOf(snap, code) : snap.link[l].thin}
  <1>1. Change([url EXCEPT !.remove = url.remove \cup thin]) /\ UNCHANGED staged
    BY DEF StripThin
  <1>2. staged => url.remove \cup thin \subseteq LinksOf(snap, code)
    BY DEF EditIInv, Own
  <1> HIDE DEF thin
  <1> QED
    BY <1>1, <1>2, Removes

LEMMA AddsOne ==
  ASSUME EditIInv, AddDraft \/ PickPair \/ TakeGap \/ HotCorridor
  PROVE  EditIInv'
  <1>1. \E a, z \in Location, rtt \in Nat :
           a # z /\ ~SameMetro(a, z) /\ Staged(<<Draft(a, z, rtt)>>)
    <2>1. ActiveCities(snap) \subseteq Location /\ MapCities \subseteq Location
      BY DEF ActiveCities, MapCities
    <2>2. Rtts \subseteq Nat
      BY ScenarioAssumption
    <2>3. CASE AddDraft
      BY <2>1, <2>2, <2>3 DEF AddDraft
    <2>4. CASE PickPair
      BY <2>1, <2>2, <2>4 DEF PickPair
    <2>5. CASE TakeGap
      BY <2>1, <2>2, <2>5 DEF TakeGap
    <2>6. CASE HotCorridor
      <3>1. PICK a \in ActiveCities(snap), z \in ActiveCities(snap) :
               a # z /\ Distinct({a, z}) /\ Staged(<<Draft(a, z, 0)>>)
        BY <2>6 DEF HotCorridor
      <3>2. ~SameMetro(a, z)
        BY <3>1 DEF Distinct, SameMetro
      <3>3. 0 \in Nat
        OBVIOUS
      <3> QED
        BY <2>1, <3>1, <3>2, <3>3
    <2> QED
      BY <2>3, <2>4, <2>5, <2>6
  <1>2. UNCHANGED staged
    BY DEF AddDraft, PickPair, TakeGap, HotCorridor
  <1> QED
    BY <1>1, <1>2, One, Adds

LEMMA AddsThree ==
  ASSUME EditIInv, HubTriangle
  PROVE  EditIInv'
  <1>1. PICK a \in ActiveCities(snap), b \in ActiveCities(snap), c \in ActiveCities(snap) :
           /\ Cardinality({a, b, c}) = 3
           /\ Distinct({a, b, c})
           /\ Staged(<<Draft(a, b, 0), Draft(b, c, 0), Draft(a, c, 0)>>)
    BY DEF HubTriangle
  <1>2. a \in Location /\ b \in Location /\ c \in Location
    BY DEF ActiveCities
  <1>3. a # b /\ b # c /\ a # c
    <2>1. \A x, y : Cardinality({x, y}) \in {1, 2}
      <3> SUFFICES ASSUME NEW x, NEW y  PROVE Cardinality({x, y}) \in {1, 2}
        OBVIOUS
      <3>1. IsFiniteSet({x}) /\ Cardinality({x}) = 1
        BY FS_Singleton
      <3>2. {x, y} = {x} \cup {y}
        OBVIOUS
      <3> QED
        BY <3>1, <3>2, FS_AddElement
    <2>2. ASSUME NEW x, NEW y, {a, b, c} = {x, y}  PROVE FALSE
      <3>1. Cardinality({x, y}) = 3
        BY <1>1, <2>2, Zenon
      <3>2. Cardinality({x, y}) = 1 \/ Cardinality({x, y}) = 2
        BY <2>1
      <3> QED
        BY <3>1, <3>2
    <2>3. /\ a = b => {a, b, c} = {b, c}
          /\ b = c => {a, b, c} = {a, b}
          /\ a = c => {a, b, c} = {a, b}
      OBVIOUS
    <2> QED
      BY <2>2, <2>3
  <1>4. ~SameMetro(a, b) /\ ~SameMetro(b, c) /\ ~SameMetro(a, c)
    BY <1>1, <1>3 DEF Distinct, SameMetro
  <1>5. Draft(a, b, 0) \in Drafts /\ Draft(b, c, 0) \in Drafts /\ Draft(a, c, 0) \in Drafts
    BY <1>2, <1>3, <1>4, Drafted
  <1>6. <<Draft(a, b, 0), Draft(b, c, 0), Draft(a, c, 0)>> \in Seq(Drafts)
    BY <1>5
  <1>7. UNCHANGED staged
    BY DEF HubTriangle
  <1> QED
    BY <1>1, <1>6, <1>7, Adds

LEMMA Undoes ==
  ASSUME EditIInv, RemoveAdded
  PROVE  EditIInv'
  <1>1. PICK i \in DOMAIN url.add : Change([url EXCEPT !.add = RemoveAt(url.add, i)])
    BY DEF RemoveAdded
  <1>2. url = [remove |-> url.remove, add |-> url.add, demand |-> url.demand]
    BY DEF EditIInv, Shaped
  <1>3. [url EXCEPT !.add = RemoveAt(url.add, i)]
           = [remove |-> url.remove, add |-> RemoveAt(url.add, i), demand |-> url.demand]
    BY <1>2
  <1>4. Change([remove |-> url.remove, add |-> RemoveAt(url.add, i), demand |-> url.demand])
    BY <1>1, <1>3
  <1>5. staged => url.remove \subseteq LinksOf(snap, code) /\ RemoveAt(url.add, i) \in Seq(Drafts)
    BY Shorter DEF EditIInv, Own
  <1>6. UNCHANGED staged
    BY DEF RemoveAdded
  <1> QED
    BY <1>4, <1>5, <1>6, Changes

LEMMA Demanded ==
  ASSUME EditIInv, SetDemand \/ ClearDemand
  PROVE  EditIInv'
  <1>1. \E demand : Change([url EXCEPT !.demand = demand])
    <2>1. CASE SetDemand
      BY <2>1 DEF SetDemand
    <2>2. CASE ClearDemand
      BY <2>2 DEF ClearDemand
    <2> QED
      BY <2>1, <2>2
  <1>2. UNCHANGED staged
    BY DEF SetDemand, ClearDemand
  <1> QED
    BY <1>1, <1>2, Fewer

\* Another contributor, another epoch, nothing staged, an earlier URL.
LEMMA Begins ==
  ASSUME EditIInv, ChangeContributor \/ ResetAll \/ ChangeEpoch \/ GoBack
  PROVE  EditIInv'
  <1>1. answer' = NoAnswer
    BY DEF ChangeContributor, ResetAll, ChangeEpoch, GoBack, Change
  <1>2. Told'
    BY <1>1 DEF Told
  <1>3. staged' => url' = Blank
    BY DEF ChangeContributor, ResetAll, ChangeEpoch, GoBack, Change
  <1>4. Own'
    BY <1>3, OwnBlank DEF Own
  <1>5. Shaped'
    <2>1. CASE ChangeContributor \/ ResetAll
      BY <2>1, BlankShape DEF ChangeContributor, ResetAll, Change, Shaped
    <2>2. CASE ChangeEpoch
      BY <2>2 DEF ChangeEpoch, EditIInv, Shaped
    <2>3. CASE GoBack
      BY <2>3 DEF GoBack, Blank, Shaped
    <2> QED
      BY <2>1, <2>2, <2>3
  <1> QED
    BY <1>2, <1>4, <1>5 DEF EditIInv

LEMMA Asks ==
  ASSUME EditIInv, Submit \/ Call
  PROVE  EditIInv'
  <1>1. UNCHANGED <<snap, code, url, staged>>
    BY DEF Submit, Call
  <1>2. Shaped' /\ Own'
    BY <1>1 DEF EditIInv, Shaped, Own, Drafts, SameMetro, LinksOf
  <1>3. Told'
    <2>1. CASE Submit
      <3>1. PICK removals \in Orders(url.remove) : answer' = Prepare(snap, code, Body(removals))
        BY <2>1 DEF Submit
      <3>2. code # Nobody
        BY <2>1 DEF Submit
      <3>3. removals \in Orders(url'.remove) /\ Body(removals)' = Body(removals)
        BY <1>1, <3>1 DEF Body
      <3> QED
        BY <1>1, <3>1, <3>2, <3>3 DEF Told
    <2>2. CASE Call
      BY <1>1, <2>2 DEF Call, Told
    <2> QED
      BY <2>1, <2>2
  <1> QED
    BY <1>2, <1>3 DEF EditIInv

LEMMA NextEditIInv == EditIInv /\ [ScenarioNext]_scenarioVars => EditIInv'
  <1> SUFFICES ASSUME EditIInv, [ScenarioNext]_scenarioVars  PROVE EditIInv'
    OBVIOUS
  <1>1. CASE ToggleLink
    BY <1>1, Toggles
  <1>2. CASE StripThin
    BY <1>2, Strips
  <1>3. CASE AddDraft \/ PickPair \/ TakeGap \/ HotCorridor
    BY <1>3, AddsOne
  <1>4. CASE HubTriangle
    BY <1>4, AddsThree
  <1>5. CASE RemoveAdded
    BY <1>5, Undoes
  <1>6. CASE SetDemand \/ ClearDemand
    BY <1>6, Demanded
  <1>7. CASE ChangeContributor \/ ResetAll \/ ChangeEpoch \/ GoBack
    BY <1>7, Begins
  <1>8. CASE Submit \/ Call
    BY <1>8, Asks
  <1>9. CASE UNCHANGED scenarioVars
    BY <1>9 DEF scenarioVars, EditIInv, Shaped, Own, Told, Drafts, SameMetro, LinksOf, Body
  <1> QED
    BY <1>1, <1>2, <1>3, <1>4, <1>5, <1>6, <1>7, <1>8, <1>9 DEF ScenarioNext

\* The URL keeps its shape, what was staged keeps to the snapshot, and the
\* answer on screen is that of the URL (simulate-tab.tsx).
THEOREM EditInvariance == ScenarioSpec => []EditIInv
  BY InitEditIInv, NextEditIInv, PTL DEF ScenarioSpec

-----------------------------------------------------------------------------
(* What the routes make of it. *)

LEMMA BodyPasses ==
  ASSUME EditIInv, code # Nobody, NEW removals \in Orders(url.remove),
         staged, url.demand = <<>>, Canonical(snap), Listed,
         \A p \in Location : snap.metro[p] # Nowhere,
         \A i \in DOMAIN url.add : url.add[i].latency <= MaxLatency
  PROVE  Prepare(snap, code, Body(removals)).accepted
  <1> DEFINE body == Body(removals)
  <1>1. body.add = url.add /\ body.demand = <<>>
    BY DEF Body
  <1>2. \A i \in DOMAIN url.add : url.add[i] \in Drafts
    <2>1. url.add \in Seq(Drafts)
      BY DEF EditIInv, Own
    <2> QED
      BY <2>1, ElementOfSeq, LenProperties
  <1>3. WellFormed(body.add)
    <2> SUFFICES ASSUME NEW i \in DOMAIN url.add
                 PROVE  /\ url.add[i].a # url.add[i].z
                        /\ 0 < url.add[i].bandwidth /\ url.add[i].bandwidth <= MaxBandwidth
                        /\ 0 <= url.add[i].latency /\ url.add[i].latency <= MaxLatency
      BY <1>1 DEF WellFormed
    <2>1. /\ url.add[i].a # url.add[i].z
          /\ url.add[i].bandwidth = MaxBandwidth
          /\ url.add[i].latency \in Nat
      BY <1>2 DEF Drafts
    <2> QED
      BY <2>1, InputsAssumption
  <1>4. InRange(body.demand)
    BY <1>1 DEF InRange
  <1>5. Overridable(snap, body.demand)
    BY <1>1 DEF Overridable
  <1>6. Applicable(snap, code, body.remove, body.add)
    <2>1. IF code = NewContributor THEN body.remove = <<>> ELSE code \in snap.listed
      BY DEF Body, Listed
    <2>2. ASSUME NEW i \in DOMAIN url.add
          PROVE  /\ MetroOf(snap, url.add[i].a) # Nowhere
                 /\ MetroOf(snap, url.add[i].z) # Nowhere
                 /\ MetroOf(snap, url.add[i].a) # MetroOf(snap, url.add[i].z)
      <3>1. url.add[i].a \in Location /\ url.add[i].z \in Location
        BY <1>2, <2>2 DEF Drafts
      <3>2. ~SameMetro(url.add[i].a, url.add[i].z)
        BY <1>2, <2>2 DEF Drafts
      <3>3. Nowhere \notin Location
        BY InputsAssumption
      <3> QED
        BY <3>1, <3>2, <3>3 DEF MetroOf, SameMetro
    <2>3. \A i \in DOMAIN body.remove : body.remove[i] \in LinksOf(snap, code)
      <3>1. removals \in [1 .. Cardinality(url.remove) -> url.remove]
        BY DEF Orders
      <3>2. url.remove \subseteq LinksOf(snap, code)
        BY DEF EditIInv, Own
      <3>3. body.remove = <<>> \/ body.remove = removals
        BY DEF Body
      <3> HIDE DEF body
      <3>4. CASE body.remove = <<>>
        BY <3>4
      <3>5. CASE body.remove = removals
        BY <3>1, <3>2, <3>5
      <3> QED
        BY <3>3, <3>4, <3>5
    <2> QED
      BY <1>1, <2>1, <2>2, <2>3 DEF Applicable
  <1> HIDE DEF body
  <1>7. Prepare(snap, code, body).accepted
    BY <1>3, <1>4, <1>5, <1>6 DEF Prepare
  <1> QED
    BY <1>7 DEF body

LEMMA Accepted == EditIInv => StagedIsAccepted
  <1> SUFFICES ASSUME EditIInv, answer.asked, staged, url # Blank, url.demand = <<>>,
                      Canonical(snap), Listed, \A p \in Location : snap.metro[p] # Nowhere,
                      \A i \in DOMAIN url.add : url.add[i].latency <= MaxLatency
               PROVE  answer.accepted
    BY DEF StagedIsAccepted
  <1>1. answer # NoAnswer
    BY DEF NoAnswer
  <1>2. PICK removals \in Orders(url.remove) : answer = Prepare(snap, code, Body(removals))
    BY <1>1 DEF EditIInv, Told
  <1>3. code # Nobody
    BY <1>1 DEF EditIInv, Told
  <1> QED
    BY <1>2, <1>3, BodyPasses

\* Link edits made with the editor on this snapshot pass the routes' checks
\* (normalizeLinkEdits, validateLinkEditsAgainstSnapshot), as long as it lists
\* the contributor, its cities have exchanges and no round-trip time was typed
\* past the cap.
THEOREM StagedCorrect == ScenarioSpec => []StagedIsAccepted
  BY EditInvariance, Accepted, PTL

-----------------------------------------------------------------------------
(* Demand. *)

LEMMA StatsShape ==
  ASSUME NEW s, NEW m \in DOMAIN CityStats(s)
  PROVE  \E v, k, n, p : CityStats(s)[m] =
            [validators |-> v, stake |-> k, subscribers |-> n, price |-> p]
  BY DEF CityStats

LEMMA OverriddenAt ==
  ASSUME NEW s, NEW demand, NEW m \in DOMAIN CityStats(s)
  PROVE  /\ DOMAIN Overridden(s, demand) = DOMAIN CityStats(s)
         /\ m \in DOMAIN demand => Overridden(s, demand)[m].validators = demand[m]
         /\ m \notin DOMAIN demand => Overridden(s, demand)[m] = CityStats(s)[m]
         /\ Overridden(s, demand)[m].subscribers = CityStats(s)[m].subscribers
         /\ Overridden(s, demand)[m].price = CityStats(s)[m].price
  <1>1. PICK v, k, n, p : CityStats(s)[m] =
            [validators |-> v, stake |-> k, subscribers |-> n, price |-> p]
    BY StatsShape
  <1> QED
    BY <1>1 DEF Overridden

LEMMA OwnCount ==
  ASSUME NEW s, NEW m \in PanelMetros(s)
  PROVE  Overridden(s, WithCount(<<>>, m, PanelCount(s, m))) = CityStats(s)
  <1> DEFINE demand == WithCount(<<>>, m, PanelCount(s, m))
             stats == CityStats(s)
  <1>1. DOMAIN demand = {m} /\ demand[m] = stats[m].validators
    BY DEF WithCount, PanelCount
  <1>2. stats = [x \in DOMAIN stats |-> stats[x]]
    BY DEF CityStats
  <1>3. ASSUME NEW x \in DOMAIN stats, x = m
        PROVE  [stats[x] EXCEPT !.validators = demand[x]] = stats[x]
    <2>1. PICK v, k, n, p : stats[x] =
            [validators |-> v, stake |-> k, subscribers |-> n, price |-> p]
      BY StatsShape
    <2> HIDE DEF stats, demand
    <2> QED
      BY <1>1, <1>3, <2>1
  <1>4. Overridden(s, demand) =
          [x \in DOMAIN stats |-> IF x \in DOMAIN demand
                                  THEN [stats[x] EXCEPT !.validators = demand[x]] ELSE stats[x]]
    BY DEF Overridden
  <1> HIDE DEF stats, demand
  <1>5. Overridden(s, demand) = [x \in DOMAIN stats |-> stats[x]]
    BY <1>1, <1>3, <1>4
  <1> QED
    BY <1>2, <1>5 DEF stats, demand

\* A row: who sends, who receives, and why.
Sends(stats, row) ==
    /\ row.start \in DOMAIN stats /\ row.end \in DOMAIN stats
    /\ stats[row.start].validators > 0
    /\ ~row.multicast =>
          /\ stats[row.end].validators > 0
          /\ row.receivers = stats[row.end].validators

LEMMA RowsOf ==
  ASSUME NEW stats, NEW row \in Demands(stats)
  PROVE  Sends(stats, row)
  BY DEF Demands, Sends

LEMMA RowsStay ==
  ASSUME NEW stats, NEW other, DOMAIN other = DOMAIN stats, NEW row \in Demands(stats),
         other[row.start] = stats[row.start], other[row.end] = stats[row.end]
  PROVE  row \in Demands(other)
  BY DEF Demands

LEMMA PreparedAs ==
  ASSUME NEW s, NEW c, NEW body, Prepare(s, c, body).accepted
  PROVE  LET p == Prepare(s, c, body) IN
         /\ p.body = body
         /\ p.baseline.demands = Demands(CityStats(s))
         /\ p.modified.demands = IF body.demand = <<>> THEN Demands(CityStats(s))
                                 ELSE Demands(Overridden(s, body.demand))
  <1> DEFINE base == CanonicalInput(s)
             patched == WithDemand(s, base, body.demand)
  <1>1. Prepare(s, c, body) =
          [asked |-> TRUE, body |-> body, accepted |-> TRUE, baseline |-> base,
           modified |-> Modified(s, patched, c, body.remove, body.add)]
    BY DEF Prepare
  <1>2. base.demands = Demands(CityStats(s))
    BY DEF CanonicalInput
  <1>3. \E d, p, t, w : base = [devices |-> d, private |-> p, demands |-> t, weights |-> w]
    BY DEF CanonicalInput
  <1> HIDE DEF base
  <1>4. /\ patched.demands = IF body.demand = <<>> THEN Demands(CityStats(s))
                             ELSE Demands(Overridden(s, body.demand))
        /\ \E d, p, t, w : patched = [devices |-> d, private |-> p, demands |-> t, weights |-> w]
    BY <1>2, <1>3 DEF WithDemand
  <1> HIDE DEF patched
  <1>5. Modified(s, patched, c, body.remove, body.add).demands = patched.demands
    BY <1>4 DEF Modified
  <1> QED
    BY <1>1, <1>2, <1>4, <1>5

LEMMA PanelOf == EditIInv => PanelIsDemand
  <1> SUFFICES ASSUME EditIInv  PROVE PanelIsDemand
    OBVIOUS
  <1>1. \A m \in PanelMetros(snap) :
          Demands(Overridden(snap, WithCount(<<>>, m, PanelCount(snap, m)))) =
            Demands(CityStats(snap))
    BY OwnCount
  <1>2. ASSUME answer.accepted
        PROVE  LET demand == answer.body.demand IN
          /\ \A row \in answer.modified.demands :
                ~row.multicast /\ row.end \in DOMAIN demand => row.receivers = demand[row.end]
          /\ \A row \in answer.modified.demands :
                /\ row.start \in DOMAIN demand => demand[row.start] > 0
                /\ ~row.multicast => row.receivers > 0
          /\ \A row \in answer.baseline.demands :
                {row.start, row.end} \cap DOMAIN demand = {} => row \in answer.modified.demands
    <2>1. answer # NoAnswer
      BY <1>2 DEF NoAnswer
    <2>2. PICK body : answer = Prepare(snap, code, body)
      BY <2>1 DEF EditIInv, Told
    <2> DEFINE demand == body.demand
               stats == CityStats(snap)
    <2>3. /\ answer.body = body
          /\ answer.baseline.demands = Demands(stats)
          /\ answer.modified.demands = IF demand = <<>> THEN Demands(stats)
                                       ELSE Demands(Overridden(snap, demand))
      BY <1>2, <2>2, PreparedAs
    <2>4. CASE demand = <<>>
      <3>1. DOMAIN demand = {}
        BY <2>4
      <3>2. answer.modified.demands = Demands(stats) /\ answer.body.demand = demand
        BY <2>3, <2>4
      <3> HIDE DEF demand, stats
      <3>3. ASSUME NEW row \in Demands(stats)  PROVE ~row.multicast => row.receivers > 0
        BY <3>3, RowsOf DEF Sends
      <3> QED
        BY <2>3, <3>1, <3>2, <3>3
    <2>5. CASE demand # <<>>
      <3> DEFINE patched == Overridden(snap, demand)
      <3>1. answer.modified.demands = Demands(patched) /\ answer.body.demand = demand
        BY <2>3, <2>5
      <3>2. \A m \in DOMAIN stats :
               /\ m \in DOMAIN demand => patched[m].validators = demand[m]
               /\ m \notin DOMAIN demand => patched[m] = stats[m]
        BY OverriddenAt
      <3>3. DOMAIN patched = DOMAIN stats
        BY DEF Overridden
      <3> HIDE DEF demand, stats, patched
      <3>4. ASSUME NEW row \in Demands(patched)
            PROVE  /\ ~row.multicast /\ row.end \in DOMAIN demand => row.receivers = demand[row.end]
                   /\ row.start \in DOMAIN demand => demand[row.start] > 0
                   /\ ~row.multicast => row.receivers > 0
        <4>1. Sends(patched, row)
          BY RowsOf
        <4> QED
          BY <3>2, <3>3, <4>1 DEF Sends
      <3>5. ASSUME NEW row \in Demands(stats), {row.start, row.end} \cap DOMAIN demand = {}
            PROVE  row \in Demands(patched)
        <4>1. Sends(stats, row)
          BY RowsOf
        <4>2. patched[row.start] = stats[row.start] /\ patched[row.end] = stats[row.end]
          BY <3>2, <3>5, <4>1 DEF Sends
        <4> QED
          BY <3>3, <4>2, RowsStay
      <3> QED
        BY <2>3, <3>1, <3>4, <3>5
    <2> QED
      BY <2>4, <2>5
  <1> QED
    BY <1>1, <1>2 DEF PanelIsDemand

\* The demand that is solved is the one the panel shows (parseSnapshot,
\* applyDemandOverrides), whatever was overridden.
THEOREM PanelCorrect == ScenarioSpec => []PanelIsDemand
  BY EditInvariance, PanelOf, PTL

-----------------------------------------------------------------------------
(* The limiter.                                                            *)

Entry(k) == [count : 1 .. Limit[k], left : {n \in Int : n <= Window}]
Record == [last : [Spans -> Nat], lost : Spans]

\* The types of the limiter's state: an entry counts no more than its key's
\* limit and ends within a window, and a refused caller has a key.
LimitTypeOK ==
    /\ DOMAIN buckets \subseteq Keys
    /\ buckets = [k \in DOMAIN buckets |-> buckets[k]]
    /\ \A k \in DOMAIN buckets : buckets[k] \in Entry(k)
    /\ used \in [Keys -> Record]
    /\ decision \in [key : Keys, allowed : BOOLEAN] \cup {Quiet}

\* How far the record reaches back, and how far the window of an entry does.
Reach(u) == Window - u.lost
Begun(e) == Window - e.left + 1
Common(e, u) == IF Begun(e) <= Reach(u) THEN Begun(e) ELSE Reach(u)

Grows(u) ==
    /\ u.last[0] = 0
    /\ \A m, n \in Spans : m <= n => u.last[m] <= u.last[n]

Fits(k, e, u) ==
    /\ e.count <= u.last[Begun(e)]
    /\ u.last[Common(e, u)] <= e.count
    /\ u.last[Reach(u)] <= u.last[Common(e, u)] + Limit[k]

Rests(k, u) ==
    /\ u.last[Reach(u)] <= Limit[k]
    /\ Reach(u) >= 1 => u.last[1] = 0

Kept(k, map, u) ==
    /\ Grows(u)
    /\ Open(map, k) => Fits(k, map[k], u)
    /\ ~Open(map, k) => Rests(k, u)

Refused == ~decision.allowed => Used(decision.key) >= Limit[decision.key]

LimitIInv ==
    /\ LimitTypeOK
    /\ \A k \in Keys : Kept(k, buckets, used[k])
    /\ Refused

LEMMA LimitFacts ==
  /\ Window \in Nat /\ Window >= 1 /\ Spans = 0 .. Window
  /\ 0 \in Spans /\ 1 \in Spans /\ Window \in Spans
  /\ \A k \in Keys : Limit[k] \in Nat /\ Limit[k] >= 1
  BY LimiterAssumption DEF Spans

LEMMA InitLimitIInv == LimitInit => LimitIInv
  <1> SUFFICES ASSUME LimitInit  PROVE LimitIInv
    OBVIOUS
  <1> DEFINE u == [last |-> [n \in Spans |-> 0], lost |-> 0]
  <1>1. u \in Record /\ Grows(u)
    BY LimitFacts DEF Record, Grows
  <1>2. DOMAIN buckets = {} /\ \A k \in Keys : used[k] = u
    BY DEF LimitInit
  <1>3. \A k \in Keys : ~Open(buckets, k) /\ Rests(k, u)
    BY <1>2, LimitFacts DEF Open, Rests, Reach
  <1>4. LimitTypeOK
    <2> HIDE DEF u
    <2>1. used = [k \in Keys |-> u]
      BY DEF LimitInit, u
    <2>2. buckets = [k \in DOMAIN buckets |-> buckets[k]]
      BY DEF LimitInit
    <2> QED
      BY <1>1, <1>2, <2>1, <2>2 DEF LimitInit, LimitTypeOK
  <1>5. Refused
    BY DEF LimitInit, Refused, Quiet
  <1> HIDE DEF u
  <1> QED
    BY <1>1, <1>2, <1>3, <1>4, <1>5 DEF LimitIInv, Kept

-----------------------------------------------------------------------------
(* What a sweep leaves, and what is recorded of it.                        *)

LEMMA Leaves ==
  ASSUME LimitTypeOK, NEW map \in Swept
  PROVE  /\ DOMAIN map \subseteq DOMAIN buckets
         /\ map = [k \in DOMAIN map |-> map[k]]
         /\ \A k \in DOMAIN map : map[k] = buckets[k]
  <1>1. CASE map = buckets
    BY <1>1 DEF LimitTypeOK
  <1>2. CASE map # buckets
    <2>1. PICK out \in Excess(NotStale) : map = [k \in NotStale \ out |-> buckets[k]]
      BY <1>2 DEF Swept
    <2>2. NotStale \subseteq DOMAIN buckets
      BY DEF NotStale
    <2> QED
      BY <2>1, <2>2
  <1> QED
    BY <1>1, <1>2

LEMMA Marks ==
  ASSUME LimitIInv, NEW map \in Swept, NEW k \in Keys
  PROVE  /\ Marked(map)[k] \in Record
         /\ Marked(map)[k].last = used[k].last
         /\ k \in DOMAIN map => Marked(map)[k] = used[k]
         /\ Kept(k, map, Marked(map)[k])
  <1>1. used[k] \in Record /\ Kept(k, buckets, used[k]) /\ LimitTypeOK
    BY DEF LimitIInv, LimitTypeOK
  <1>2. CASE k \in Dropped(map)
    <2> DEFINE u == [used[k] EXCEPT !.lost = Window]
    <2>1. Marked(map)[k] = u /\ k \notin DOMAIN map
      BY <1>2 DEF Marked, Dropped
    <2>2. u \in Record /\ u.last = used[k].last /\ u.lost = Window
      BY <1>1, LimitFacts DEF Record
    <2>3. Grows(u) /\ Reach(u) = 0
      BY <1>1, <2>2, LimitFacts DEF Kept, Grows, Reach
    <2>4. Rests(k, u)
      BY <2>3, LimitFacts DEF Rests, Grows
    <2>5. ~Open(map, k)
      BY <2>1 DEF Open
    <2> QED
      BY <2>1, <2>2, <2>3, <2>4, <2>5 DEF Kept
  <1>3. CASE k \notin Dropped(map)
    <2>1. Marked(map)[k] = used[k]
      BY <1>3 DEF Marked
    <2>2. Open(map, k) <=> Open(buckets, k)
      BY <1>1, <1>3, Leaves DEF Open, Dropped
    <2>3. Open(map, k) => map[k] = buckets[k]
      BY <1>1, Leaves DEF Open
    <2> QED
      BY <1>1, <2>1, <2>2, <2>3 DEF Kept
  <1> QED
    BY <1>2, <1>3

-----------------------------------------------------------------------------
(* What letting a request through does to one key's record.                *)

Through(k, u) ==
    [u EXCEPT !.last = [n \in Spans |-> IF n = 0 THEN 0 ELSE OneMore(k, @[n])]]

LEMMA ThroughFacts ==
  ASSUME NEW k \in Keys, NEW u \in Record, Grows(u)
  PROVE  /\ Through(k, u) \in Record
         /\ Through(k, u).lost = u.lost
         /\ Through(k, u).last[0] = 0
         /\ \A n \in Spans : n # 0 => Through(k, u).last[n] = OneMore(k, u.last[n])
         /\ Grows(Through(k, u))
  <1> DEFINE f == [n \in Spans |-> IF n = 0 THEN 0 ELSE OneMore(k, u.last[n])]
  <1>1. \A n \in Spans : u.last[n] \in Nat
    BY DEF Record
  <1>2. f \in [Spans -> Nat]
    BY <1>1, LimitFacts DEF OneMore
  <1>3. Through(k, u) = [last |-> f, lost |-> u.lost]
    BY DEF Through, Record
  <1>4. \A m, n \in Spans : m <= n => f[m] <= f[n]
    BY <1>1, LimitFacts DEF OneMore, Grows
  <1>5. f[0] = 0 /\ \A n \in Spans : n # 0 => f[n] = OneMore(k, u.last[n])
    BY LimitFacts
  <1>6. u.lost \in Spans
    BY DEF Record
  <1> HIDE DEF f
  <1> QED
    BY <1>2, <1>3, <1>4, <1>5, <1>6 DEF Record, Grows

\* The first request of a window.
LEMMA Opens ==
  ASSUME NEW k \in Keys, NEW u \in Record, Grows(u), Rests(k, u)
  PROVE  Fits(k, [count |-> 1, left |-> Window], Through(k, u))
  <1> DEFINE e == [count |-> 1, left |-> Window]
             v == Through(k, u)
  <1>1. /\ v \in Record /\ v.lost = u.lost /\ v.last[0] = 0 /\ Grows(v)
        /\ \A n \in Spans : n # 0 => v.last[n] = OneMore(k, u.last[n])
    BY ThroughFacts
  <1> HIDE DEF v
  <1>2. e.count = 1 /\ Begun(e) = 1
    BY LimitFacts DEF Begun
  <1>3. \A n \in Spans : u.last[n] \in Nat /\ v.last[n] \in Nat
    BY <1>1 DEF Record
  <1>4. Reach(u) \in Spans /\ Reach(v) = Reach(u)
    BY <1>1, LimitFacts DEF Reach, Record
  <1>5. v.last[1] >= 1
    BY <1>1, <1>3, LimitFacts DEF OneMore
  <1> HIDE DEF e
  <1>6. ASSUME Reach(u) = 0  PROVE Fits(k, e, v)
    <2>1. Common(e, v) = 0
      BY <1>2, <1>4, <1>6 DEF Common
    <2> QED
      BY <1>1, <1>2, <1>4, <1>5, <1>6, <2>1, LimitFacts DEF Fits
  <1>7. ASSUME Reach(u) # 0  PROVE Fits(k, e, v)
    <2>1. Reach(u) >= 1 /\ Common(e, v) = 1
      BY <1>2, <1>4, <1>7, LimitFacts DEF Common
    <2>2. v.last[1] = 1
      BY <1>1, <2>1, LimitFacts DEF Rests, OneMore
    <2>3. v.last[Reach(v)] <= Limit[k] + 1
      BY <1>1, <1>3, <1>4, <1>7, LimitFacts DEF Rests, OneMore
    <2>4. v.last[Reach(v)] \in Nat
      BY <1>3, <1>4
    <2>5. v.last[Reach(v)] <= v.last[Common(e, v)] + Limit[k]
      BY <2>1, <2>2, <2>3, <2>4, LimitFacts
    <2> QED
      BY <1>2, <2>1, <2>2, <2>5 DEF Fits
  <1> QED
    BY <1>6, <1>7 DEF e, v

\* The next ones.
LEMMA CountsOn ==
  ASSUME NEW k \in Keys, NEW u \in Record, Grows(u), NEW e \in Entry(k),
         e.left > 0, e.count < Limit[k], Fits(k, e, u)
  PROVE  Fits(k, [e EXCEPT !.count = @ + 1], Through(k, u))
  <1> DEFINE d == [e EXCEPT !.count = @ + 1]
             v == Through(k, u)
  <1>1. /\ v \in Record /\ v.lost = u.lost /\ v.last[0] = 0 /\ Grows(v)
        /\ \A n \in Spans : n # 0 => v.last[n] = OneMore(k, u.last[n])
    BY ThroughFacts
  <1>2. /\ d.count = e.count + 1 /\ d.left = e.left
        /\ e.count \in Nat /\ e.left \in Int /\ e.left <= Window
    BY DEF Entry
  <1> HIDE DEF v, d
  <1>3. \A n \in Spans : u.last[n] \in Nat /\ v.last[n] \in Nat
    BY <1>1 DEF Record
  <1>4. Reach(u) \in Spans /\ Reach(v) = Reach(u)
    BY <1>1, LimitFacts DEF Reach, Record
  <1>5. Begun(d) = Begun(e) /\ Begun(e) \in Spans /\ Begun(e) >= 1
    BY <1>2, LimitFacts DEF Begun
  <1>6. Common(d, v) = Common(e, u) /\ Common(e, u) \in Spans
    BY <1>4, <1>5 DEF Common
  <1>7. d.count <= v.last[Begun(d)]
    <2>1. e.count <= u.last[Begun(e)] /\ u.last[Begun(e)] \in Nat
      BY <1>3, <1>5 DEF Fits
    <2>2. v.last[Begun(d)] = OneMore(k, u.last[Begun(e)])
      BY <1>1, <1>5
    <2> QED
      BY <1>2, <2>1, <2>2, LimitFacts DEF OneMore
  <1>8. v.last[Common(d, v)] <= d.count
    <2>1. u.last[Common(e, u)] <= e.count /\ u.last[Common(e, u)] \in Nat
      BY <1>3, <1>6 DEF Fits
    <2>2. v.last[Common(d, v)] \in {0, OneMore(k, u.last[Common(e, u)])}
      BY <1>1, <1>6
    <2> QED
      BY <1>2, <2>1, <2>2, LimitFacts DEF OneMore
  <1>9. v.last[Reach(v)] <= v.last[Common(d, v)] + Limit[k]
    <2>1. CASE Reach(u) = 0
      BY <1>1, <1>3, <1>4, <1>6, <2>1, LimitFacts
    <2>2. CASE Reach(u) # 0
      <3>1. Common(e, u) # 0
        BY <1>4, <1>5, <2>2, LimitFacts DEF Common
      <3>2. v.last[Common(d, v)] = u.last[Common(e, u)] + 1
        <4>1. u.last[Common(e, u)] <= e.count /\ u.last[Common(e, u)] \in Nat
          BY <1>3, <1>6 DEF Fits
        <4>2. v.last[Common(d, v)] = OneMore(k, u.last[Common(e, u)])
          BY <1>1, <1>6, <3>1
        <4> QED
          BY <1>2, <4>1, <4>2, LimitFacts DEF OneMore
      <3>3. v.last[Reach(v)] <= u.last[Reach(u)] + 1
        BY <1>1, <1>3, <1>4, <2>2, LimitFacts DEF OneMore
      <3> QED
        BY <1>3, <1>4, <1>6, <3>2, <3>3, LimitFacts DEF Fits
    <2> QED
      BY <2>1, <2>2
  <1> QED
    BY <1>7, <1>8, <1>9 DEF Fits, d, v

-----------------------------------------------------------------------------
(* What a tick does to it.                                                 *)

Older(u) ==
    [last |-> [n \in Spans |-> IF n = 0 THEN 0 ELSE u.last[n - 1]],
     lost |-> IF u.lost = 0 THEN 0 ELSE u.lost - 1]

LEMMA OlderFacts ==
  ASSUME NEW u \in Record, Grows(u)
  PROVE  /\ Older(u) \in Record
         /\ Older(u).last[0] = 0
         /\ \A n \in Spans : n # 0 => n - 1 \in Spans /\ Older(u).last[n] = u.last[n - 1]
         /\ Grows(Older(u))
         /\ Reach(u) \in Spans /\ Reach(Older(u)) \in Spans
         /\ Reach(Older(u)) = IF Reach(u) = Window THEN Window ELSE Reach(u) + 1
  <1> DEFINE f == [n \in Spans |-> IF n = 0 THEN 0 ELSE u.last[n - 1]]
             l == IF u.lost = 0 THEN 0 ELSE u.lost - 1
  <1>1. \A n \in Spans : u.last[n] \in Nat
    BY DEF Record
  <1>2. \A n \in Spans : n # 0 => n - 1 \in Spans
    BY LimitFacts
  <1>3. f \in [Spans -> Nat]
    BY <1>1, <1>2
  <1>4. \A m, n \in Spans : m <= n => f[m] <= f[n]
    <2> TAKE m, n \in Spans
    <2>1. CASE m = 0
      BY <1>3, <2>1, LimitFacts
    <2>2. CASE m # 0
      BY <1>1, <1>2, <2>2, LimitFacts DEF Grows
    <2> QED
      BY <2>1, <2>2
  <1>5. u.lost \in Spans /\ l \in Spans
    BY LimitFacts DEF Record
  <1>6. Older(u) = [last |-> f, lost |-> l]
    BY DEF Older
  <1>7. f[0] = 0 /\ \A n \in Spans : n # 0 => f[n] = u.last[n - 1]
    BY LimitFacts
  <1>8. l = IF u.lost = 0 THEN 0 ELSE u.lost - 1
    OBVIOUS
  <1> HIDE DEF f, l
  <1>9. /\ Reach(u) \in Spans /\ Window - l \in Spans
        /\ Window - l = IF Reach(u) = Window THEN Window ELSE Reach(u) + 1
    BY <1>5, <1>8, LimitFacts DEF Reach
  <1> QED
    BY <1>2, <1>3, <1>4, <1>5, <1>6, <1>7, <1>9 DEF Record, Grows, Reach

\* A window that stays open.
LEMMA StaysOpen ==
  ASSUME NEW k \in Keys, NEW u \in Record, Grows(u), NEW e \in Entry(k),
         e.left > 1, Fits(k, e, u), NEW d \in Entry(k),
         d.count = e.count, d.left = e.left - 1
  PROVE  Fits(k, d, Older(u))
  <1> DEFINE v == Older(u)
  <1>1. /\ v \in Record /\ v.last[0] = 0 /\ Grows(v)
        /\ \A n \in Spans : n # 0 => n - 1 \in Spans /\ v.last[n] = u.last[n - 1]
        /\ Reach(u) \in Spans /\ Reach(v) \in Spans
        /\ Reach(v) = IF Reach(u) = Window THEN Window ELSE Reach(u) + 1
    BY OlderFacts
  <1> HIDE DEF v
  <1>2. e.left \in Int /\ e.left <= Window /\ e.left >= 2
    BY DEF Entry
  <1>3. \A n \in Spans : u.last[n] \in Nat
    BY DEF Record
  <1>4. Begun(e) \in Spans /\ Begun(d) = Begun(e) + 1 /\ Begun(d) \in Spans
    <2>1. Begun(e) = Window - e.left + 1 /\ Begun(d) = Window - (e.left - 1) + 1
      BY DEF Begun
    <2> QED
      BY <1>2, <2>1, LimitFacts
  <1>5. v.last[Begun(d)] = u.last[Begun(e)]
    BY <1>1, <1>4, LimitFacts
  <1>6. Common(d, v) = Common(e, u) + 1 /\ Common(e, u) \in Spans /\ Common(d, v) \in Spans
    BY <1>1, <1>4, LimitFacts DEF Common
  <1>7. v.last[Common(d, v)] = u.last[Common(e, u)]
    BY <1>1, <1>6, LimitFacts
  <1>8. v.last[Reach(v)] <= u.last[Reach(u)]
    <2>1. Reach(v) # 0 /\ Reach(v) - 1 \in Spans /\ Reach(v) - 1 <= Reach(u)
      BY <1>1, LimitFacts
    <2>2. v.last[Reach(v)] = u.last[Reach(v) - 1]
      BY <1>1, <2>1
    <2> QED
      BY <1>1, <2>1, <2>2 DEF Grows
  <1>9. v.last[Reach(v)] \in Nat
    BY <1>1 DEF Record
  <1>10. u.last[Reach(u)] <= u.last[Common(e, u)] + Limit[k]
    BY DEF Fits
  <1>11. v.last[Reach(v)] <= v.last[Common(d, v)] + Limit[k]
    <2>1. u.last[Reach(u)] \in Nat /\ u.last[Common(e, u)] \in Nat
      BY <1>1, <1>3, <1>6
    <2> QED
      BY <1>7, <1>8, <1>9, <1>10, <2>1, LimitFacts
  <1> QED
    BY <1>5, <1>7, <1>11 DEF Fits, v

\* One that closes, and one that has closed.
LEMMA StaysClosed ==
  ASSUME NEW k \in Keys, NEW u \in Record, Grows(u), u.last[Reach(u)] <= Limit[k]
  PROVE  Rests(k, Older(u))
  <1> DEFINE v == Older(u)
  <1>1. /\ v \in Record /\ v.last[0] = 0 /\ Grows(v)
        /\ \A n \in Spans : n # 0 => n - 1 \in Spans /\ v.last[n] = u.last[n - 1]
        /\ Reach(u) \in Spans /\ Reach(v) \in Spans
        /\ Reach(v) = IF Reach(u) = Window THEN Window ELSE Reach(u) + 1
    BY OlderFacts
  <1> HIDE DEF v
  <1>2. \A n \in Spans : u.last[n] \in Nat
    BY DEF Record
  <1>3. v.last[1] = 0
    BY <1>1, LimitFacts DEF Grows
  <1>4. Reach(v) # 0 /\ Reach(v) - 1 \in Spans /\ Reach(v) - 1 <= Reach(u)
    BY <1>1, LimitFacts
  <1>5. v.last[Reach(v)] <= Limit[k]
    <2>1. v.last[Reach(v)] = u.last[Reach(v) - 1]
      BY <1>1, <1>4
    <2>2. u.last[Reach(v) - 1] <= u.last[Reach(u)]
      BY <1>1, <1>4 DEF Grows
    <2> QED
      BY <1>1, <1>2, <1>4, <2>1, <2>2, LimitFacts
  <1> QED
    BY <1>3, <1>5 DEF Rests, v

LEMMA Closes ==
  ASSUME NEW k \in Keys, NEW u \in Record, Grows(u), NEW e \in Entry(k),
         e.left = 1, Fits(k, e, u)
  PROVE  u.last[Reach(u)] <= Limit[k]
  <1>1. Reach(u) \in Spans
    BY OlderFacts
  <1>2. Common(e, u) = Reach(u)
    BY <1>1, LimitFacts DEF Common, Begun
  <1>3. e.count \in Nat /\ e.count <= Limit[k] /\ u.last[Reach(u)] \in Nat
    BY <1>1, LimitFacts DEF Entry, Record
  <1> QED
    BY <1>2, <1>3, LimitFacts DEF Fits

-----------------------------------------------------------------------------
(* The actions.                                                            *)

\* The steps that let nobody else's key move.
LEMMA Let ==
  ASSUME LimitIInv, NEW k \in Keys, NEW map \in Swept, NEW entry \in Entry(k), entry.left > 0,
         Fits(k, entry, Through(k, Marked(map)[k])), Admits(k, map, entry)
  PROVE  LimitIInv'
  <1>1. LimitTypeOK
    BY DEF LimitIInv
  <1>2. \A l \in Keys : /\ Marked(map)[l] \in Record /\ Kept(l, map, Marked(map)[l])
    BY Marks
  <1>3. Grows(Marked(map)[k])
    BY <1>2 DEF Kept
  <1>4. /\ Through(k, Marked(map)[k]) \in Record
        /\ Grows(Through(k, Marked(map)[k]))
    BY <1>2, <1>3, ThroughFacts
  <1>5. used' = [l \in Keys |-> IF l = k THEN Through(k, Marked(map)[k]) ELSE Marked(map)[l]]
    <2>1. Marked(map) = [l \in Keys |-> Marked(map)[l]]
      BY DEF Marked
    <2> QED
      BY <2>1 DEF Admits, Through
  <1>6. buckets' = [x \in DOMAIN map \cup {k} |-> IF x = k THEN entry ELSE map[x]]
    BY DEF Admits
  <1>7. LimitTypeOK'
    <2>1. \A x \in DOMAIN map : x \in Keys /\ map[x] \in Entry(x)
      BY <1>1, Leaves DEF LimitTypeOK
    <2>2. used' \in [Keys -> Record]
      BY <1>2, <1>4, <1>5
    <2>3. decision' \in [key : Keys, allowed : BOOLEAN]
      BY DEF Admits
    <2>4. /\ DOMAIN buckets' \subseteq Keys
          /\ buckets' = [x \in DOMAIN buckets' |-> buckets'[x]]
          /\ \A x \in DOMAIN buckets' : buckets'[x] \in Entry(x)
      BY <1>6, <2>1
    <2> QED
      BY <2>2, <2>3, <2>4 DEF LimitTypeOK, Record, Entry, Quiet
  <1>8. ASSUME NEW l \in Keys  PROVE Kept(l, buckets, used[l])'
    <2>1. CASE l = k
      <3>1. buckets'[k] = entry /\ Open(buckets', k) /\ used'[k] = Through(k, Marked(map)[k])
        BY <1>5, <1>6 DEF Open
      <3> QED
        BY <1>4, <2>1, <3>1 DEF Kept, Open, Fits, Grows, Rests, Begun, Common, Reach
    <2>2. CASE l # k
      <3>1. used'[l] = Marked(map)[l]
        BY <1>5, <2>2
      <3>2. (Open(map, l) <=> Open(buckets', l)) /\ (Open(map, l) => buckets'[l] = map[l])
        BY <1>6, <2>2 DEF Open
      <3> QED
        BY <1>2, <3>1, <3>2 DEF Kept, Open, Fits, Grows, Rests, Begun, Common, Reach
    <2> QED
      BY <2>1, <2>2
  <1>9. Refused'
    BY DEF Admits, Refused
  <1> QED
    BY <1>7, <1>8, <1>9 DEF LimitIInv

\* Those that let nobody through.
LEMMA Keeps ==
  ASSUME LimitIInv, NEW map \in Swept, buckets' = map, used' = Marked(map),
         decision' \in [key : Keys, allowed : BOOLEAN] \cup {Quiet}, Refused'
  PROVE  LimitIInv'
  <1>1. LimitTypeOK
    BY DEF LimitIInv
  <1>2. \A l \in Keys : Marked(map)[l] \in Record /\ Kept(l, map, Marked(map)[l])
    BY Marks
  <1>3. Marked(map) \in [Keys -> Record]
    BY <1>2 DEF Marked
  <1>4. LimitTypeOK'
    BY <1>1, <1>3, Leaves DEF LimitTypeOK, Record, Entry, Quiet
  <1>5. \A l \in Keys : Kept(l, buckets, used[l])'
    BY <1>2 DEF Kept, Open, Fits, Grows, Rests, Begun, Common, Reach
  <1> QED
    BY <1>4, <1>5 DEF LimitIInv

LEMMA Checks ==
  ASSUME LimitIInv, NEW k \in Keys, Check(k)
  PROVE  LimitIInv'
  <1>1. PICK map \in Swept :
           \/ ~Open(map, k) /\ Admits(k, map, [count |-> 1, left |-> Window])
           \/ /\ Open(map, k) /\ map[k].count < Limit[k]
              /\ Admits(k, map, [map[k] EXCEPT !.count = @ + 1])
           \/ /\ Open(map, k) /\ map[k].count >= Limit[k]
              /\ buckets' = map
              /\ used' = Marked(map)
              /\ decision' = [key |-> k, allowed |-> FALSE]
    BY DEF Check
  <1> DEFINE u == Marked(map)[k]
  <1>2. u \in Record /\ Kept(k, map, u) /\ Grows(u)
    BY Marks DEF Kept
  <1>3. Open(map, k) => map[k] \in Entry(k) /\ map[k].left > 0 /\ Fits(k, map[k], u)
    <2>1. LimitTypeOK
      BY DEF LimitIInv
    <2> QED
      BY <1>2, <2>1, Leaves DEF Open, LimitTypeOK, Kept
  <1>4. CASE ~Open(map, k) /\ Admits(k, map, [count |-> 1, left |-> Window])
    <2> DEFINE e == [count |-> 1, left |-> Window]
    <2>1. e \in Entry(k) /\ e.left > 0
      BY LimitFacts DEF Entry
    <2>2. Fits(k, e, Through(k, u))
      BY <1>2, <1>4, Opens DEF Kept
    <2> QED
      BY <1>4, <2>1, <2>2, Let
  <1>5. CASE Open(map, k) /\ map[k].count < Limit[k]
             /\ Admits(k, map, [map[k] EXCEPT !.count = @ + 1])
    <2> DEFINE e == [map[k] EXCEPT !.count = @ + 1]
    <2>1. e \in Entry(k) /\ e.left > 0
      BY <1>3, <1>5, LimitFacts DEF Entry
    <2>2. Fits(k, e, Through(k, u))
      BY <1>2, <1>3, <1>5, CountsOn
    <2> QED
      BY <1>5, <2>1, <2>2, Let
  <1>6. CASE /\ Open(map, k) /\ map[k].count >= Limit[k]
             /\ buckets' = map
             /\ used' = Marked(map)
             /\ decision' = [key |-> k, allowed |-> FALSE]
    <2>1. Begun(map[k]) \in Spans
      BY <1>3, <1>6, LimitFacts DEF Begun, Entry
    <2>2. u.last[Begun(map[k])] <= u.last[Window]
      BY <1>2, <2>1, LimitFacts DEF Grows
    <2>3. map[k].count <= u.last[Begun(map[k])]
      BY <1>3, <1>6 DEF Fits
    <2>4. \A n \in Spans : u.last[n] \in Nat
      BY <1>2 DEF Record
    <2>5. map[k].count \in Nat
      BY <1>3, <1>6 DEF Entry
    <2>6. used'[k].last[Window] >= Limit[k]
      BY <1>6, <2>1, <2>2, <2>3, <2>4, <2>5, LimitFacts
    <2>7. Refused'
      BY <1>6, <2>6 DEF Refused, Used
    <2> QED
      BY <1>6, <2>7, Keeps
  <1> QED
    BY <1>1, <1>4, <1>5, <1>6

LEMMA Unknowns ==
  ASSUME LimitIInv, CheckUnknown
  PROVE  LimitIInv'
  <1>1. PICK map \in Swept : buckets' = map /\ used' = Marked(map) /\ decision' = Quiet
    BY DEF CheckUnknown
  <1>2. Refused'
    BY <1>1 DEF Refused, Quiet
  <1> QED
    BY <1>1, <1>2, Keeps

LEMMA TimePasses ==
  ASSUME LimitIInv, Pass
  PROVE  LimitIInv'
  <1>1. LimitTypeOK /\ \A k \in Keys : used[k] \in Record /\ Kept(k, buckets, used[k])
    BY DEF LimitIInv, LimitTypeOK
  <1>2. used' = [k \in Keys |-> Older(used[k])]
    BY DEF Pass, Older
  <1>3. DOMAIN buckets' = DOMAIN buckets /\ buckets' = [k \in DOMAIN buckets' |-> buckets'[k]]
    BY DEF Pass
  <1>4. ASSUME NEW k \in DOMAIN buckets
        PROVE  /\ buckets[k] \in Entry(k) /\ buckets'[k] \in Entry(k)
               /\ buckets'[k].count = buckets[k].count
               /\ buckets[k].left > 0 => buckets'[k].left = buckets[k].left - 1
               /\ buckets[k].left <= 0 => buckets'[k].left <= 0
    <2>1. buckets[k] \in Entry(k)
      BY <1>1 DEF LimitTypeOK
    <2>2. buckets'[k] = [buckets[k] EXCEPT !.left = IF @ < -MaxAge THEN @ ELSE @ - 1]
      BY DEF Pass
    <2> QED
      BY <2>1, <2>2, LimiterAssumption DEF Entry
  <1>5. \A k \in Keys : Older(used[k]) \in Record /\ Grows(Older(used[k]))
    BY <1>1, OlderFacts DEF Kept
  <1>6. LimitTypeOK'
    <2>1. used' \in [Keys -> Record]
      BY <1>2, <1>5
    <2>2. decision' = Quiet
      BY DEF Pass
    <2> QED
      BY <1>1, <1>3, <1>4, <2>1, <2>2 DEF LimitTypeOK, Record, Entry, Quiet
  <1>7. ASSUME NEW k \in Keys  PROVE Kept(k, buckets, used[k])'
    <2> DEFINE u == used[k]
    <2>1. used'[k] = Older(u) /\ Grows(Older(u)) /\ u \in Record /\ Grows(u)
      BY <1>1, <1>2, <1>5 DEF Kept
    <2>2. CASE Open(buckets', k)
      <3>1. k \in DOMAIN buckets /\ buckets[k].left > 1
        BY <1>3, <1>4, <2>2 DEF Open, Entry
      <3>2. Open(buckets, k) /\ Fits(k, buckets[k], u)
        BY <1>1, <3>1, <1>4 DEF Open, Kept, Entry
      <3>3. Fits(k, buckets'[k], Older(u))
        BY <1>4, <2>1, <3>1, <3>2, StaysOpen DEF Entry
      <3> QED
        BY <2>1, <2>2, <3>3 DEF Kept, Open, Fits, Grows, Rests, Begun, Common, Reach
    <2>3. CASE ~Open(buckets', k)
      <3>1. u.last[Reach(u)] <= Limit[k]
        <4>1. CASE Open(buckets, k)
          <5>1. buckets[k] \in Entry(k) /\ buckets[k].left = 1
            BY <1>3, <1>4, <2>3, <4>1 DEF Open, Entry
          <5>2. Fits(k, buckets[k], u)
            BY <1>1, <4>1 DEF Kept
          <5> QED
            BY <2>1, <5>1, <5>2, Closes
        <4>2. CASE ~Open(buckets, k)
          BY <1>1, <4>2 DEF Kept, Rests
        <4> QED
          BY <4>1, <4>2
      <3>2. Rests(k, Older(u))
        BY <2>1, <3>1, StaysClosed
      <3> QED
        BY <2>1, <2>3, <3>2 DEF Kept, Open, Fits, Grows, Rests, Begun, Common, Reach
    <2> QED
      BY <2>2, <2>3
  <1>8. Refused'
    BY DEF Pass, Refused, Quiet
  <1> QED
    BY <1>6, <1>7, <1>8 DEF LimitIInv

LEMMA NextLimitIInv == LimitIInv /\ [LimitNext]_limitVars => LimitIInv'
  <1> SUFFICES ASSUME LimitIInv, [LimitNext]_limitVars  PROVE LimitIInv'
    OBVIOUS
  <1>1. CASE \E k \in Keys : Check(k)
    BY <1>1, Checks
  <1>2. CASE CheckUnknown
    BY <1>2, Unknowns
  <1>3. CASE Pass
    BY <1>3, TimePasses
  <1>4. CASE UNCHANGED limitVars
    BY <1>4 DEF limitVars, LimitIInv, LimitTypeOK, Kept, Open, Fits, Grows, Rests, Begun, Common,
        Reach, Refused, Used
  <1> QED
    BY <1>1, <1>2, <1>3, <1>4 DEF LimitNext

\* Whatever the order of requests, sweeps and ticks, the counts say what has
\* been let through (checkRateLimit, evictStale).
THEOREM LimitInvariance == LimitSpec => []LimitIInv
  BY InitLimitIInv, NextLimitIInv, PTL DEF LimitSpec

\* The limiter's map, record and decision keep their types, and no entry counts
\* past its key's limit (checkRateLimit).
THEOREM LimitTypeCorrect == LimitSpec => []LimitTypeOK
  <1>1. LimitIInv => LimitTypeOK
    BY DEF LimitIInv
  <1> QED
    BY <1>1, LimitInvariance, PTL

LEMMA Budgeted == LimitIInv => OwnBudget
  <1> SUFFICES ASSUME LimitIInv  PROVE OwnBudget
    OBVIOUS
  <1>1. Refused
    BY DEF LimitIInv
  <1>2. ASSUME NEW k \in Keys, used[k].lost = 0  PROVE Used(k) <= 2 * Limit[k]
    <2>1. used[k] \in Record /\ Kept(k, buckets, used[k]) /\ LimitTypeOK
      BY DEF LimitIInv, LimitTypeOK
    <2>2. Reach(used[k]) = Window /\ \A n \in Spans : used[k].last[n] \in Nat
      BY <1>2, <2>1, LimitFacts DEF Reach, Record
    <2>3. CASE Open(buckets, k)
      <3>1. Fits(k, buckets[k], used[k]) /\ buckets[k] \in Entry(k) /\ buckets[k].left > 0
        BY <2>1, <2>3 DEF Kept, Open, LimitTypeOK
      <3>2. buckets[k].count \in Nat /\ buckets[k].count <= Limit[k]
        BY <3>1, LimitFacts DEF Entry
      <3>3. Common(buckets[k], used[k]) \in Spans
        BY <2>2, <3>1, LimitFacts DEF Common, Begun, Entry
      <3> QED
        BY <2>2, <3>1, <3>2, <3>3, LimitFacts DEF Fits, Used
    <2>4. CASE ~Open(buckets, k)
      BY <2>1, <2>2, <2>4, LimitFacts DEF Kept, Rests, Used
    <2> QED
      BY <2>3, <2>4
  <1> QED
    BY <1>1, <1>2 DEF Refused, OwnBudget

\* A caller is refused only after as many requests of its own as its bucket
\* allows within the last window, and gets through at most twice that many in
\* any stretch as long as a window unless the cap on keys dropped its window
\* while it was open (checkRateLimit, evictStale).
THEOREM BudgetCorrect == LimitSpec => []OwnBudget
  BY LimitInvariance, Budgeted, PTL

-----------------------------------------------------------------------------
(* The live pages.                                                          *)

\* What a feed may hold.
Words == {Nothing, "full", "empty", "not cached", "degraded", "down", "not found"}
FeedStates == [data : Words, error : BOOLEAN, busy : BOOLEAN]

ViewTypeOK ==
    /\ view \in ViewNames
    /\ feed \in [FeedsOf[view] -> FeedStates]
    /\ seen \in BOOLEAN

\* A feed without a choice behind it is asked from the start, and asks again
\* until it answers.
NeverOff == \A f \in DOMAIN feed \ Late : ~Off(f)

\* A feed is busy until its first answer; what it does later shows nowhere.
BusyIsFirst == \A f \in DOMAIN feed : feed[f].busy => ~Has(f)

ViewIInv == ViewTypeOK /\ NeverOff /\ BusyIsFirst

LEMMA AnswersAre ==
  ASSUME NEW f
  PROVE  Answers(f) \subseteq Words \ {Nothing}
  <1>1. CASE f \in {"baseline", "tracking"}
    BY <1>1 DEF Answers, Words, Nothing
  <1>2. CASE f = "health"
    BY <1>2 DEF Answers, Words, Nothing
  <1>3. CASE f \in {"prices", "snapshot", "rate"}
    BY <1>3 DEF Answers, Words, Nothing
  <1>4. CASE f = "stake"
    BY <1>4 DEF Answers, Words, Nothing
  <1>5. CASE f \notin {"baseline", "tracking", "health", "prices", "snapshot", "rate", "stake"}
    BY <1>5 DEF Answers, Words, Nothing
  <1> QED
    BY <1>1, <1>2, <1>3, <1>4, <1>5

LEMMA InitViewIInv == ViewsInit => ViewIInv
  <1> SUFFICES ASSUME ViewsInit  PROVE ViewIInv
    OBVIOUS
  <1>1. view \in ViewNames
    BY ViewsAssumption DEF ViewsInit
  <1>2. /\ Idle \in FeedStates /\ ~Idle.busy
        /\ Asking \in FeedStates /\ Asking.busy /\ Asking.data = Nothing
    BY DEF Idle, Asking, FeedStates, Words, Nothing
  <1>3. /\ DOMAIN feed = FeedsOf[view]
        /\ \A f \in DOMAIN feed : feed[f] = IF f \in Late THEN Idle ELSE Asking
    BY DEF ViewsInit
  <1>4. feed \in [FeedsOf[view] -> FeedStates]
    BY <1>2 DEF ViewsInit
  <1>5. NeverOff
    BY <1>2, <1>3 DEF NeverOff, Off
  <1>6. BusyIsFirst
    BY <1>2, <1>3 DEF BusyIsFirst, Has
  <1> QED
    BY <1>1, <1>4, <1>5, <1>6 DEF ViewIInv, ViewTypeOK, ViewsInit

\* A feed that takes on a proper state leaves the invariant standing.
LEMMA Becoming ==
  ASSUME ViewIInv, NEW f \in DOMAIN feed, NEW state \in FeedStates, Becomes(f, state),
         state.busy => state.data = Nothing,
         f \in Late \/ state.data # Nothing \/ state.busy \/ state.error
  PROVE  ViewIInv'
  <1>1. /\ view' = view /\ DOMAIN feed' = DOMAIN feed
        /\ \A g \in DOMAIN feed : feed'[g] = IF g = f THEN state ELSE feed[g]
        /\ feed' \in [FeedsOf[view] -> FeedStates]
    BY DEF ViewIInv, ViewTypeOK, Becomes
  <1>2. seen' \in BOOLEAN
    BY DEF ViewIInv, ViewTypeOK, Becomes
  <1>3. ViewTypeOK'
    BY <1>1, <1>2 DEF ViewIInv, ViewTypeOK
  <1>4. NeverOff'
    BY <1>1 DEF ViewIInv, NeverOff, Off, Has
  <1>5. BusyIsFirst'
    BY <1>1 DEF ViewIInv, BusyIsFirst, Has
  <1> QED
    BY <1>3, <1>4, <1>5 DEF ViewIInv

LEMMA NextViewIInv == ViewIInv /\ [ViewsNext]_viewVars => ViewIInv'
  <1> SUFFICES ASSUME ViewIInv, [ViewsNext]_viewVars  PROVE ViewIInv'
    OBVIOUS
  <1>1. /\ Idle \in FeedStates /\ Idle.data = Nothing /\ ~Idle.busy
        /\ Asking \in FeedStates /\ Asking.data = Nothing /\ Asking.busy
    BY DEF Idle, Asking, FeedStates, Words, Nothing
  <1>2. ASSUME NEW f, NEW word \in Answers(f)
        PROVE  LET s == [Idle EXCEPT !.data = word] IN
               s \in FeedStates /\ s.data # Nothing /\ ~s.busy
    <2>1. word \in Words /\ word # Nothing
      BY <1>2, AnswersAre
    <2> QED
      BY <2>1 DEF Idle, FeedStates
  <1>3. ASSUME NEW f \in DOMAIN feed, Start(f)
        PROVE  ViewIInv'
    BY <1>1, <1>3, Becoming DEF Start
  <1>4. ASSUME NEW f \in DOMAIN feed, Answer(f)
        PROVE  ViewIInv'
    <2>1. PICK word \in Answers(f) : Becomes(f, [Idle EXCEPT !.data = word])
      BY <1>4 DEF Answer
    <2> QED
      BY <2>1, <1>2, Becoming
  <1>5. ASSUME NEW f \in DOMAIN feed, Fail(f)
        PROVE  ViewIInv'
    <2> DEFINE s == [feed[f] EXCEPT !.error = TRUE, !.busy = FALSE]
    <2>1. feed[f] \in FeedStates
      BY DEF ViewIInv, ViewTypeOK
    <2>2. s \in FeedStates /\ s.error /\ ~s.busy
      BY <2>1 DEF FeedStates
    <2>3. Becomes(f, s)
      BY <1>5 DEF Fail
    <2> QED
      BY <2>2, <2>3, Becoming
  <1>6. ASSUME NEW f \in DOMAIN feed, Retry(f)
        PROVE  ViewIInv'
    <2> DEFINE s == [feed[f] EXCEPT !.busy = TRUE]
    <2>1. feed[f] \in FeedStates
      BY DEF ViewIInv, ViewTypeOK
    <2>2. s \in FeedStates /\ s.busy /\ s.data = Nothing
      BY <1>6, <2>1 DEF FeedStates, Retry, Has
    <2>3. Becomes(f, s)
      BY <1>6 DEF Retry
    <2> QED
      BY <2>2, <2>3, Becoming
  <1>7. ASSUME NEW f \in DOMAIN feed, Rekey(f)
        PROVE  ViewIInv'
    <2>1. CASE Becomes(f, Asking)
      BY <1>1, <2>1, Becoming
    <2>2. CASE f \in {"stake", "estimate", "diff"} /\ Becomes(f, Idle)
      BY <1>1, <2>2, Becoming DEF Late
    <2>3. CASE \E word \in Answers(f) : Becomes(f, [Idle EXCEPT !.data = word])
      <3>1. PICK word \in Answers(f) : Becomes(f, [Idle EXCEPT !.data = word])
        BY <2>3
      <3> QED
        BY <3>1, <1>2, Becoming
    <2> QED
      BY <1>7, <2>1, <2>2, <2>3 DEF Rekey
  <1>8. CASE UNCHANGED viewVars
    BY <1>8 DEF viewVars, ViewIInv, ViewTypeOK, NeverOff, BusyIsFirst, Off, Has
  <1> QED
    BY <1>3, <1>4, <1>5, <1>6, <1>7, <1>8 DEF ViewsNext

\* The views' invariant.
THEOREM ViewInvariance == ViewsSpec => []ViewIInv
  BY InitViewIInv, NextViewIInv, PTL DEF ViewsSpec

-----------------------------------------------------------------------------
(* Parts that claim nothing before its time.  A part is sound when what it   *)
(* says stands on answers; a page is, when its parts are.                    *)

Sound(parts) == \A p \in parts :
    <<view, p.at>> \notin Presumed /\ p.says \in Claims => \A f \in p.from : Has(f)

LEMMA SoundPart ==
  ASSUME NEW at, NEW says, NEW from,
         <<view, at>> \in Presumed \/ says \notin Claims \/ \A f \in from : Has(f)
  PROVE  Sound(Part(at, says, from))
  BY DEF Sound, Part

LEMMA SoundShows ==
  ASSUME NEW at, NEW f, Has(f)
  PROVE  Sound(Shows(at, f))
  <1>1. \A g \in {f} : Has(g)
    OBVIOUS
  <1> QED
    BY <1>1, SoundPart DEF Shows

LEMMA SoundOptional ==
  ASSUME NEW at, NEW f
  PROVE  Sound(Optional(at, f)) /\ Sound(OrDash(at, f)) /\ Sound(OrDots(at, f))
  <1>1. CASE Has(f)
    <2>1. \A g \in {f} : Has(g)
      BY <1>1
    <2> QED
      BY <2>1, SoundPart DEF Optional, OrDash, OrDots
  <1>2. CASE ~Has(f)
    <2>1. ~Full(f)
      BY <1>2 DEF Has, Full, Nothing
    <2>2. "hidden" \notin Claims /\ "dash" \notin Claims /\ "waiting" \notin Claims
      BY DEF Claims
    <2> QED
      BY <1>2, <2>1, <2>2, SoundPart DEF Optional, OrDash, OrDots
  <1> QED
    BY <1>1, <1>2

LEMMA SoundBoth ==
  ASSUME NEW S, NEW T, Sound(S), Sound(T)
  PROVE  Sound(S \cup T)
  BY DEF Sound

LEMMA SoundGuarded ==
  ASSUME NEW f, NEW parts, Has(f) => Sound(parts)
  PROVE  Sound(Guarded(f, parts))
  <1>1. "error" \notin Claims /\ "waiting" \notin Claims
    BY DEF Claims
  <1> QED
    BY <1>1, SoundPart DEF Guarded, Failed

LEMMA NetworkPageSound ==
  Sound(NetworkPage)
  BY SoundShows, SoundOptional, SoundBoth, SoundGuarded
  DEF NetworkPage, Leaderboard, ActiveIssues, MostUtilised

LEMMA StatusPageSound ==
  Sound(StatusPage)
  <1>1. \A f : Full(f) => Has(f)
    BY DEF Full, Has, Nothing
  <1> QED
    BY <1>1, SoundPart, SoundShows, SoundBoth, SoundGuarded DEF StatusPage, Claims

LEMMA NetworkPulseSound ==
  ASSUME view = "pulse"
  PROVE  Sound(NetworkPulse)
  <1>1. <<view, "issues">> \in Presumed
    BY DEF Presumed
  <1>2. "waiting" \notin Claims
    BY DEF Claims
  <1>3. feed["health"].data \in {"down", "degraded"} => Has("health")
    BY DEF Has, Nothing
  <1>4. Sound(SeverityDot)
    BY <1>2, <1>3, SoundPart DEF SeverityDot
  <1> QED
    BY <1>1, <1>4, SoundPart, SoundOptional, SoundBoth DEF NetworkPulse

LEMMA EconomicsPageSound ==
  Sound(EconomicsPage)
  BY SoundShows, SoundBoth, SoundGuarded DEF EconomicsPage, FootprintTable

LEMMA ShareVsFootprintSound ==
  Sound(ShareVsFootprint)
  <1>1. \A f : Full(f) => Has(f)
    BY DEF Full, Has, Nothing
  <1> QED
    BY <1>1, SoundPart DEF ShareVsFootprint, Claims

LEMMA EpochRewardHistorySound ==
  Sound(EpochRewardHistory)
  BY SoundOptional DEF EpochRewardHistory

LEMMA WeeklyDigestSound ==
  Sound(WeeklyDigest)
  BY SoundPart, SoundShows DEF WeeklyDigest, Claims

LEMMA LiveBaselineShapleySound ==
  Sound(LiveBaselineShapley)
  BY SoundPart, SoundOptional DEF LiveBaselineShapley, Claims, Failed, IsLoading

LEMMA PoolProjectionSound ==
  Sound(PoolProjection)
  BY SoundPart, SoundOptional DEF PoolProjection, Claims

LEMMA ShapleyTrackingSound ==
  ASSUME ViewIInv, view = "tracking"
  PROVE  Sound(ShapleyTracking)
  <1>1. \A f \in {"tracking"} : Has(f) \/ feed[f].busy \/ feed[f].error
    BY DEF ViewIInv, ViewTypeOK, NeverOff, Off, FeedsOf, ViewNames, Late
  <1>2. \A f : Full(f) => Has(f)
    BY DEF Full, Has, Nothing
  <1> QED
    BY <1>1, <1>2, SoundPart, SoundShows, SoundBoth
    DEF ShapleyTracking, TrackingSeries, Claims, Failed, IsLoading

LEMMA FeePageSound ==
  ASSUME ViewIInv, view = "fees"
  PROVE  Sound(FeePage)
  <1>1. \A f \in {"fees"} : Has(f) \/ feed[f].busy \/ feed[f].error
    BY DEF ViewIInv, ViewTypeOK, NeverOff, Off, FeedsOf, ViewNames, Late
  <1>2. \A f : Full(f) => Has(f)
    BY DEF Full, Has, Nothing
  <1> QED
    BY <1>1, <1>2, SoundPart, SoundShows
    DEF FeePage, FeeTable, Claims, Failed, IsLoading

LEMMA ContributorsPageSound ==
  ASSUME ViewIInv, view = "contributors"
  PROVE  Sound(ContributorsPage)
  <1>1. \A f \in {"topology", "hub", "baseline"} : Has(f) \/ feed[f].busy \/ feed[f].error
    BY DEF ViewIInv, ViewTypeOK, NeverOff, Off, FeedsOf, ViewNames, Late
  <1>2. \A f : Full(f) => Has(f)
    BY DEF Full, Has, Nothing
  <1>3. <<view, "CSV">> \in Presumed
    BY DEF Presumed
  <1> QED
    BY <1>1, <1>2, <1>3, SoundPart, SoundShows, SoundOptional, SoundBoth
    DEF ContributorsPage, ContributorRows, ContributorsCsv, Claims, Failed, IsLoading

LEMMA ContributorDetailPageSound ==
  ASSUME view = "contributor"
  PROVE  Sound(ContributorDetailPage)
  <1>1. \A f : Full(f) => Has(f)
    BY DEF Full, Has, Nothing
  <1>2. {<<view, "page">>, <<view, "all-time">>, <<view, "live">>} \subseteq Presumed
    BY DEF Presumed
  <1> QED
    BY <1>1, <1>2, SoundPart, SoundShows, SoundOptional, SoundBoth
    DEF ContributorDetailPage, ContributorCards, ContributorTables, Claims, IsLoading

LEMMA ContributorChangelogSound ==
  Sound(ContributorChangelog)
  <1>1. \A f : Full(f) => Has(f)
    BY DEF Full, Has, Nothing
  <1> QED
    BY <1>1, SoundPart DEF ContributorChangelog, Claims

LEMMA ContributorLinksPageSound ==
  Sound(ContributorLinksPage)
  <1>1. \A f : Full(f) => Has(f)
    BY DEF Full, Has, Nothing
  <1> QED
    BY <1>1, SoundPart, SoundShows, SoundOptional, SoundBoth, SoundGuarded
    DEF ContributorLinksPage, EstimateBanner, ContributorLinkRows, Claims, IsLoading

LEMMA OnchainRewardHistorySound ==
  Sound(OnchainRewardHistory)
  BY SoundPart, SoundOptional DEF OnchainRewardHistory, Claims, IsLoading

LEMMA RewardReconciliationSound ==
  Sound(RewardReconciliation)
  <1>1. \A f : Full(f) => Has(f)
    BY DEF Full, Has, Nothing
  <1> QED
    BY <1>1, SoundPart DEF RewardReconciliation, Claims, IsLoading

LEMMA LinksPageSound ==
  Sound(LinksPage)
  <1>1. \A f : Full(f) => Has(f)
    BY DEF Full, Has, Nothing
  <1> QED
    BY <1>1, SoundPart, SoundShows, SoundOptional, SoundBoth, SoundGuarded
    DEF LinksPage, LinkRows, Claims

LEMMA LinkDetailPageSound ==
  Sound(LinkDetailPage)
  <1>1. \A f : Full(f) => Has(f)
    BY DEF Full, Has, Nothing
  <1> QED
    BY <1>1, SoundPart, SoundShows, SoundOptional, SoundBoth
    DEF LinkDetailPage, RewardShare, LinkFacts, Claims

LEMMA LinkValuePageSound ==
  ASSUME ViewIInv, view = "link value"
  PROVE  Sound(LinkValuePage)
  <1>1. \A f \in {"topology", "epochs"} : Has(f) \/ feed[f].busy \/ feed[f].error
    BY DEF ViewIInv, ViewTypeOK, NeverOff, Off, FeedsOf, ViewNames, Late
  <1>2. \A f : Full(f) => Has(f)
    BY DEF Full, Has, Nothing
  <1> QED
    BY <1>1, <1>2, SoundPart, SoundShows, SoundBoth, SoundGuarded
    DEF LinkValuePage, LinkValueRows, Claims, Off

LEMMA ChangelogPageSound ==
  Sound(ChangelogPage)
  BY SoundPart, SoundShows, SoundOptional, SoundBoth
  DEF ChangelogPage, DiffView, ChangeList, Claims, IsLoading

LEMMA PublishersTableSound ==
  ASSUME view = "validators", ~feed["publishers"].error, ~Off("publishers")
  PROVE  Sound(PublishersTable)
  <1>1. <<view, "table in SOL">> \in Presumed /\ <<view, "table per month">> \in Presumed
    BY DEF Presumed
  <1>2. "waiting" \notin Claims
    BY DEF Claims
  <1>3. Sound(PublishersInSol)
    BY <1>1, SoundPart, SoundBoth DEF PublishersInSol
  <1>4. CASE IsLoading("publishers") \/ IsLoading("fees")
    BY <1>2, <1>4, SoundPart DEF PublishersTable
  <1>5. CASE ~(IsLoading("publishers") \/ IsLoading("fees"))
    <2>1. Has("publishers")
      BY <1>5 DEF IsLoading, Off
    <2>2. Sound(Part("table", "none", {"publishers"}))
      BY <2>1, SoundPart
    <2>3. Sound(Shows("table", "publishers") \cup OrDash("contributor", "topology")
                  \cup PublishersInSol)
      BY <1>3, <2>1, SoundShows, SoundOptional, SoundBoth
    <2> QED
      BY <1>5, <2>2, <2>3 DEF PublishersTable
  <1> QED
    BY <1>4, <1>5

LEMMA EarningsEstimateSound ==
  ASSUME view = "validators", Has("stake"), Has("publishers"), ~IsLoading("fees")
  PROVE  Sound(EarningsEstimate)
  <1>1. <<view, "summary per month">> \in Presumed
    BY DEF Presumed
  <1>2. "dash" \notin Claims
    BY DEF Claims
  <1>3. ~FeesUnavailable => Has("fees")
    BY DEF FeesUnavailable, IsLoading, Full, Has, Nothing
  <1>4. Sound(Part("summary", "none", {"stake", "publishers"}))
    BY SoundPart
  <1>5. Sound(Part("summary", "values", {"stake", "publishers"}))
    BY SoundPart
  <1>6. Sound(Part("summary in SOL", IF FeesUnavailable THEN "dash" ELSE "values",
                   {"stake", "publishers", "fees"}))
    BY <1>2, <1>3, SoundPart
  <1>7. Sound(Part("summary per month", IF FeesUnavailable THEN "dash" ELSE "values",
                   {"stake", "publishers", "fees", "rate"}))
    BY <1>1, SoundPart
  <1> QED
    BY <1>4, <1>5, <1>6, <1>7, SoundOptional, SoundBoth DEF EarningsEstimate

LEMMA StakeSummarySound ==
  ASSUME view = "validators"
  PROVE  Sound(StakeSummary)
  <1>1. feed["stake"].data = "not found" => Has("stake")
    BY DEF Has, Nothing
  <1>2. "error" \notin Claims /\ "waiting" \notin Claims
    BY DEF Claims
  <1> QED
    BY <1>1, <1>2, SoundPart, EarningsEstimateSound DEF StakeSummary

LEMMA ValidatorsPageSound ==
  ASSUME ViewIInv, view = "validators"
  PROVE  Sound(ValidatorsPage)
  <1>1. ~Off("publishers")
    BY DEF ViewIInv, ViewTypeOK, NeverOff, FeedsOf, ViewNames, Late
  <1>2. "error" \notin Claims /\ "hidden" \notin Claims
    BY DEF Claims
  <1>3. Sound(Part("page", "error", {"publishers"}))
    BY <1>2, SoundPart
  <1>4. Sound(Part("banner", IF FeesUnavailable THEN "error" ELSE "hidden", {"fees"}))
    BY <1>2, SoundPart
  <1>5. Sound(Part("network", IF Has("publishers") THEN "values" ELSE "hidden", {"publishers"}))
    BY <1>2, SoundPart
  <1>6. Sound(Resolved)
    BY <1>4, <1>5, StakeSummarySound, SoundBoth DEF Resolved
  <1>7. Sound({})
    BY DEF Sound
  <1>8. ASSUME ~feed["publishers"].error
        PROVE  Sound(PublishersTable \cup (IF Off("stake") THEN {} ELSE Resolved))
    BY <1>1, <1>6, <1>7, <1>8, PublishersTableSound, SoundBoth
  <1> QED
    BY <1>3, <1>8 DEF ValidatorsPage

LEMMA SimulatePageSound ==
  ASSUME view = "simulate"
  PROVE  Sound(SimulatePage)
  <1>1. \A f : Full(f) => Has(f)
    BY DEF Full, Has, Nothing
  <1>2. <<view, "per month">> \in Presumed
    BY DEF Presumed
  <1>3. "error" \notin Claims /\ "waiting" \notin Claims
    BY DEF Claims
  <1>4. Sound(Part("revenue", IF Full("fees") THEN "values" ELSE "error", {"fees"}))
    BY <1>1, <1>3, SoundPart
  <1>5. Sound(Part("per month", IF Full("fees") THEN "values" ELSE "hidden", {"fees", "rate"}))
    BY <1>2, SoundPart
  <1> QED
    BY <1>3, <1>4, <1>5, SoundPart, SoundShows, SoundBoth DEF SimulatePage

LEMMA AllSound == ViewIInv => ShownIsAnswered
  <1> SUFFICES ASSUME ViewIInv  PROVE Sound(Parts)
    BY DEF ShownIsAnswered, Sound
  <1>0. view \in ViewNames
    BY DEF ViewIInv, ViewTypeOK
  <1>1. CASE view = "network"
    BY <1>1, NetworkPageSound DEF Parts
  <1>2. CASE view = "status"
    BY <1>2, StatusPageSound DEF Parts
  <1>3. CASE view = "pulse"
    BY <1>3, NetworkPulseSound DEF Parts
  <1>4. CASE view = "economics"
    BY <1>4, EconomicsPageSound DEF Parts
  <1>5. CASE view = "share vs footprint"
    BY <1>5, ShareVsFootprintSound DEF Parts
  <1>6. CASE view = "reward history"
    BY <1>6, EpochRewardHistorySound DEF Parts
  <1>7. CASE view = "digest"
    BY <1>7, WeeklyDigestSound DEF Parts
  <1>8. CASE view = "live baseline"
    BY <1>8, LiveBaselineShapleySound DEF Parts
  <1>9. CASE view = "projection"
    BY <1>9, PoolProjectionSound DEF Parts
  <1>10. CASE view = "tracking"
    BY <1>10, ShapleyTrackingSound DEF Parts
  <1>11. CASE view = "fees"
    BY <1>11, FeePageSound DEF Parts
  <1>12. CASE view = "contributors"
    BY <1>12, ContributorsPageSound DEF Parts
  <1>13. CASE view = "contributor"
    BY <1>13, ContributorDetailPageSound DEF Parts
  <1>14. CASE view = "contributor changelog"
    BY <1>14, ContributorChangelogSound DEF Parts
  <1>15. CASE view = "contributor links"
    BY <1>15, ContributorLinksPageSound DEF Parts
  <1>16. CASE view = "onchain history"
    BY <1>16, OnchainRewardHistorySound DEF Parts
  <1>17. CASE view = "reconciliation"
    BY <1>17, RewardReconciliationSound DEF Parts
  <1>18. CASE view = "links"
    BY <1>18, LinksPageSound DEF Parts
  <1>19. CASE view = "link"
    BY <1>19, LinkDetailPageSound DEF Parts
  <1>20. CASE view = "link value"
    BY <1>20, LinkValuePageSound DEF Parts
  <1>21. CASE view = "changelog"
    BY <1>21, ChangelogPageSound DEF Parts
  <1>22. CASE view = "validators"
    BY <1>22, ValidatorsPageSound DEF Parts
  <1>23. CASE view = "simulate"
    BY <1>23, SimulatePageSound DEF Parts
  <1> QED
    BY <1>0, <1>1, <1>2, <1>3, <1>4, <1>5, <1>6, <1>7, <1>8, <1>9, <1>10, <1>11, <1>12,
      <1>13, <1>14, <1>15, <1>16, <1>17, <1>18, <1>19, <1>20, <1>21, <1>22, <1>23
    DEF ViewNames


\* Values, and claims such as "none" or "not found", stand on answers of every
\* feed they are drawn from: the views' rule that nothing falls back silently.
THEOREM AnsweredCorrect == ViewsSpec => []ShownIsAnswered
  BY ViewInvariance, AllSound, PTL

-----------------------------------------------------------------------------
(* A refresh that fails.  A page either stays as it is, or had claimed       *)
(* nothing; the two pages with an estimate of their own do so part by part.  *)

\* What claims in S is in T.
Survives(S, T) == \A p \in S : p.says \in Claims => p \in T

\* Parts that claim nothing.
Mute(S) == \A p \in S : p.says \notin Claims

LEMMA MutePart ==
  ASSUME NEW at, NEW says, NEW from, says \notin Claims
  PROVE  Mute(Part(at, says, from))
  BY DEF Mute, Part

LEMMA MuteBoth ==
  ASSUME NEW S, NEW T, Mute(S), Mute(T)
  PROVE  Mute(S \cup T)
  BY DEF Mute

LEMMA KeptMute ==
  ASSUME NEW S, NEW T, Mute(S)
  PROVE  Survives(S, T)
  BY DEF Survives, Mute

LEMMA KeptSame ==
  ASSUME NEW S
  PROVE  Survives(S, S)
  BY DEF Survives

LEMMA KeptBoth ==
  ASSUME NEW S1, NEW S2, NEW T1, NEW T2, Survives(S1, T1), Survives(S2, T2)
  PROVE  Survives(S1 \cup S2, T1 \cup T2)
  BY DEF Survives

\* A failure leaves every answer where it was, and troubles only the feed it is
\* of.
LEMMA Failing ==
  ASSUME ViewIInv, NEW f \in DOMAIN feed, Fail(f)
  PROVE  /\ view' = view
         /\ DOMAIN feed' = DOMAIN feed
         /\ f = "estimate" => ~Has(f)
         /\ \A g \in DOMAIN feed :
               /\ feed'[g].data = feed[g].data
               /\ Has(g) => ~feed[g].busy /\ ~feed'[g].busy
               /\ ~Has(f) /\ f = g => feed[g].busy
               /\ g # f => feed'[g] = feed[g]
         /\ "tracking" \in DOMAIN feed =>
               ((seen' \/ feed'["tracking"].data = "full") <=> (seen \/ Full("tracking")))
  <1> DEFINE s == [feed[f] EXCEPT !.error = TRUE, !.busy = FALSE]
  <1>1. feed[f] \in FeedStates
    BY DEF ViewIInv, ViewTypeOK
  <1>2. s.data = feed[f].data /\ ~s.busy
    BY <1>1 DEF FeedStates
  <1>3. /\ feed' = [feed EXCEPT ![f] = s] /\ view' = view
        /\ seen' = (seen \/ (f = "tracking" /\ s.data = "full"))
    BY DEF Fail, Becomes
  <1>4. \A g \in DOMAIN feed : feed'[g] = IF g = f THEN s ELSE feed[g]
    BY <1>3
  <1>5. \A g \in DOMAIN feed : feed'[g].data = feed[g].data
    BY <1>2, <1>4
  <1>6. \A g \in DOMAIN feed : Has(g) => ~feed[g].busy /\ ~feed'[g].busy
    BY <1>2, <1>4 DEF ViewIInv, BusyIsFirst
  <1>7. (~Has(f) => feed[f].busy) /\ (f = "estimate" => ~Has(f))
    BY DEF Fail, Fetching, ViewIInv, BusyIsFirst
  <1>8. "tracking" \in DOMAIN feed =>
               ((seen' \/ feed'["tracking"].data = "full") <=> (seen \/ Full("tracking")))
    BY <1>2, <1>3, <1>5 DEF Full, ViewIInv, ViewTypeOK
  <1> QED
    BY <1>3, <1>4, <1>5, <1>6, <1>7, <1>8

LEMMA NetworkPageKept ==
  ASSUME ViewIInv, view = "network", NEW f \in DOMAIN feed, Fail(f)
  PROVE  Survives(NetworkPage, NetworkPage')
  <1>1. DOMAIN feed = {"topology", "status", "hub", "baseline"}
    BY DEF ViewIInv, ViewTypeOK, FeedsOf, ViewNames
  <1>2. CASE Has("topology")
    <2>1. NetworkPage' = NetworkPage
      BY <1>1, <1>2, Failing
      DEF NetworkPage, Leaderboard, ActiveIssues, MostUtilised, Failed, Has, Full,
        Guarded, Optional, OrDash, Shows, Nothing
    <2> QED
      BY <2>1, KeptSame
  <1>3. CASE ~Has("topology")
    <2>1. Mute(NetworkPage)
      BY <1>3, MutePart
      DEF NetworkPage, Leaderboard, ActiveIssues, MostUtilised, Failed, Has, Full,
        Guarded, Optional, OrDash, Shows, Nothing, Claims
    <2> QED
      BY <2>1, KeptMute
  <1> QED
    BY <1>2, <1>3

LEMMA StatusPageKept ==
  ASSUME ViewIInv, view = "status", NEW f \in DOMAIN feed, Fail(f)
  PROVE  Survives(StatusPage, StatusPage')
  <1>1. DOMAIN feed = {"health", "status"}
    BY DEF ViewIInv, ViewTypeOK, FeedsOf, ViewNames
  <1>2. CASE Has("health")
    <2>1. StatusPage' = StatusPage
      BY <1>1, <1>2, Failing
      DEF StatusPage, Failed, Has, Full, Guarded, Shows, Nothing
    <2> QED
      BY <2>1, KeptSame
  <1>3. CASE ~Has("health")
    <2>1. Mute(StatusPage)
      BY <1>3, MutePart
      DEF StatusPage, Failed, Has, Full, Guarded, Shows, Nothing, Claims
    <2> QED
      BY <2>1, KeptMute
  <1> QED
    BY <1>2, <1>3

LEMMA NetworkPulseKept ==
  ASSUME ViewIInv, view = "pulse", NEW f \in DOMAIN feed, Fail(f)
  PROVE  Survives(NetworkPulse, NetworkPulse')
  <1>1. DOMAIN feed = {"health", "status", "stats"}
    BY DEF ViewIInv, ViewTypeOK, FeedsOf, ViewNames
  <1>2. \A g \in {"health", "status", "stats"} : feed'[g].data = feed[g].data
    BY <1>1, Failing
  <1>3. SeverityDot' = SeverityDot
    BY <1>2 DEF SeverityDot, Has, Full, Nothing
  <1>4. \A at, g : g \in {"health", "status", "stats"} =>
           (IF feed'[g].data # Nothing THEN "values" ELSE "waiting")
             = (IF feed[g].data # Nothing THEN "values" ELSE "waiting")
    BY <1>2
  <1>5. NetworkPulse' = NetworkPulse
    BY <1>2, <1>3, <1>4 DEF NetworkPulse, OrDots, Has, Full, Nothing
  <1> QED
    BY <1>5, KeptSame

LEMMA EconomicsPageKept ==
  ASSUME ViewIInv, view = "economics", NEW f \in DOMAIN feed, Fail(f)
  PROVE  Survives(EconomicsPage, EconomicsPage')
  <1>1. DOMAIN feed = {"hub"}
    BY DEF ViewIInv, ViewTypeOK, FeedsOf, ViewNames
  <1>2. CASE Has("hub")
    <2>1. EconomicsPage' = EconomicsPage
      BY <1>1, <1>2, Failing
      DEF EconomicsPage, FootprintTable, Failed, Has, Guarded, Shows, Nothing
    <2> QED
      BY <2>1, KeptSame
  <1>3. CASE ~Has("hub")
    <2>1. Mute(EconomicsPage)
      BY <1>3, MutePart
      DEF EconomicsPage, FootprintTable, Failed, Has, Guarded, Shows, Nothing, Claims
    <2> QED
      BY <2>1, KeptMute
  <1> QED
    BY <1>2, <1>3

LEMMA ShareVsFootprintKept ==
  ASSUME ViewIInv, view = "share vs footprint", NEW f \in DOMAIN feed, Fail(f)
  PROVE  Survives(ShareVsFootprint, ShareVsFootprint')
  <1>1. DOMAIN feed = {"hub", "topology"}
    BY DEF ViewIInv, ViewTypeOK, FeedsOf, ViewNames
  <1>2. ShareVsFootprint' = ShareVsFootprint
    BY <1>1, Failing DEF ShareVsFootprint, Full
  <1> QED
    BY <1>2, KeptSame

LEMMA EpochRewardHistoryKept ==
  ASSUME ViewIInv, view = "reward history", NEW f \in DOMAIN feed, Fail(f)
  PROVE  Survives(EpochRewardHistory, EpochRewardHistory')
  <1>1. DOMAIN feed = {"hub"}
    BY DEF ViewIInv, ViewTypeOK, FeedsOf, ViewNames
  <1>2. EpochRewardHistory' = EpochRewardHistory
    BY <1>1, Failing DEF EpochRewardHistory, Full, Optional
  <1> QED
    BY <1>2, KeptSame

LEMMA WeeklyDigestKept ==
  ASSUME ViewIInv, view = "digest", NEW f \in DOMAIN feed, Fail(f)
  PROVE  Survives(WeeklyDigest, WeeklyDigest')
  <1>1. DOMAIN feed = {"epochs", "diff"}
    BY DEF ViewIInv, ViewTypeOK, FeedsOf, ViewNames
  <1>2. CASE Has("diff")
    <2>1. WeeklyDigest' = WeeklyDigest
      BY <1>1, <1>2, Failing DEF WeeklyDigest, Has, Shows, Nothing
    <2> QED
      BY <2>1, KeptSame
  <1>3. CASE ~Has("diff")
    <2>1. Mute(WeeklyDigest)
      BY <1>3, MutePart
      DEF WeeklyDigest, Has, Shows, Nothing, Claims
    <2> QED
      BY <2>1, KeptMute
  <1> QED
    BY <1>2, <1>3

LEMMA LiveBaselineShapleyKept ==
  ASSUME ViewIInv, view = "live baseline", NEW f \in DOMAIN feed, Fail(f)
  PROVE  Survives(LiveBaselineShapley, LiveBaselineShapley')
  <1>1. DOMAIN feed = {"baseline"}
    BY DEF ViewIInv, ViewTypeOK, FeedsOf, ViewNames
  <1>2. CASE Has("baseline")
    <2>1. LiveBaselineShapley' = LiveBaselineShapley
      BY <1>1, <1>2, Failing
      DEF LiveBaselineShapley, Failed, IsLoading, Has, Full, Optional, Nothing
    <2> QED
      BY <2>1, KeptSame
  <1>3. CASE ~Has("baseline")
    <2>1. Mute(LiveBaselineShapley)
      BY <1>3, MutePart
      DEF LiveBaselineShapley, Failed, IsLoading, Has, Full, Optional, Nothing,
        Claims
    <2> QED
      BY <2>1, KeptMute
  <1> QED
    BY <1>2, <1>3

LEMMA ShapleyTrackingKept ==
  ASSUME ViewIInv, view = "tracking", NEW f \in DOMAIN feed, Fail(f)
  PROVE  Survives(ShapleyTracking, ShapleyTracking')
  <1>1. DOMAIN feed = {"tracking"}
    BY DEF ViewIInv, ViewTypeOK, FeedsOf, ViewNames
  <1>2. Has("tracking") \/ feed["tracking"].busy \/ feed["tracking"].error
    BY <1>1 DEF ViewIInv, NeverOff, Off, Late
  <1>3. CASE Has("tracking")
    <2>1. ShapleyTracking' = ShapleyTracking
      BY <1>1, <1>3, Failing
      DEF ShapleyTracking, TrackingSeries, Failed, IsLoading, Has, Full, Nothing
    <2> QED
      BY <2>1, KeptSame
  <1>4. CASE ~Has("tracking")
    <2>1. Mute(TrackingSeries)
      BY <1>2, <1>4, MutePart DEF TrackingSeries, Failed, IsLoading, Claims
    <2>2. Mute(Part("picker", "picker", {}))
      BY MutePart DEF Claims
    <2>3. Mute(Part("picker", "picker", {}) \cup TrackingSeries)
      BY <2>1, <2>2, MuteBoth
    <2>4. Mute(ShapleyTracking)
      BY <1>4, <2>3, MutePart DEF ShapleyTracking, Claims
    <2> QED
      BY <2>4, KeptMute
  <1> QED
    BY <1>3, <1>4

LEMMA FeePageKept ==
  ASSUME ViewIInv, view = "fees", NEW f \in DOMAIN feed, Fail(f)
  PROVE  Survives(FeePage, FeePage')
  <1>1. DOMAIN feed = {"fees"}
    BY DEF ViewIInv, ViewTypeOK, FeedsOf, ViewNames
  <1>2. \A g \in DOMAIN feed \ Late : Has(g) \/ feed[g].busy \/ feed[g].error
    BY DEF ViewIInv, NeverOff, Off
  <1>3. CASE Has("fees")
    <2>1. FeePage' = FeePage
      BY <1>1, <1>3, Failing
      DEF FeePage, FeeTable, Failed, IsLoading, Has, Full, Shows, Nothing
    <2> QED
      BY <2>1, KeptSame
  <1>4. CASE ~Has("fees")
    <2>1. Mute(FeePage)
      BY <1>1, <1>2, <1>4, MutePart
      DEF FeePage, FeeTable, Failed, IsLoading, Has, Full, Shows, Nothing, Claims,
        Late
    <2> QED
      BY <2>1, KeptMute
  <1> QED
    BY <1>3, <1>4

LEMMA ContributorsPageKept ==
  ASSUME ViewIInv, view = "contributors", NEW f \in DOMAIN feed, Fail(f)
  PROVE  Survives(ContributorsPage, ContributorsPage')
  <1>1. DOMAIN feed = {"topology", "hub", "baseline"}
    BY DEF ViewIInv, ViewTypeOK, FeedsOf, ViewNames
  <1>2. \A g \in DOMAIN feed \ Late : Has(g) \/ feed[g].busy \/ feed[g].error
    BY DEF ViewIInv, NeverOff, Off
  <1>3. CASE Has("topology")
    <2>1. ContributorsPage' = ContributorsPage
      BY <1>1, <1>3, Failing
      DEF ContributorsPage, ContributorRows, ContributorsCsv, Failed, IsLoading, Has,
        Full, Optional, OrDash, Shows, Nothing
    <2> QED
      BY <2>1, KeptSame
  <1>4. CASE ~Has("topology")
    <2>1. Mute(ContributorsPage)
      BY <1>1, <1>2, <1>4, MutePart
      DEF ContributorsPage, ContributorRows, ContributorsCsv, Failed, IsLoading, Has,
        Full, Optional, OrDash, Shows, Nothing, Claims, Late
    <2> QED
      BY <2>1, KeptMute
  <1> QED
    BY <1>3, <1>4

LEMMA ContributorDetailPageKept ==
  ASSUME ViewIInv, view = "contributor", NEW f \in DOMAIN feed, Fail(f)
  PROVE  Survives(ContributorDetailPage, ContributorDetailPage')
  <1>1. DOMAIN feed = {"topology", "hub", "baseline", "prices", "status"}
    BY DEF ViewIInv, ViewTypeOK, FeedsOf, ViewNames
  <1>2. CASE ~IsLoading("topology") /\ ~IsLoading("hub")
    <2>1. \A g \in {"topology", "hub"} : Has(g) \/ f # g
      BY <1>1, <1>2, Failing DEF IsLoading
    <2>2. \A g \in {"topology", "hub"} : IsLoading(g)' = FALSE /\ IsLoading(g) = FALSE
      BY <1>1, <1>2, <2>1, Failing DEF IsLoading, Has
    <2>3. \A g \in DOMAIN feed : feed'[g].data = feed[g].data
      BY Failing
    <2>4. /\ ContributorCards' = ContributorCards
          /\ ContributorTables' = ContributorTables
          /\ Full("topology")' = Full("topology")
      BY <1>1, <2>3 DEF ContributorCards, ContributorTables, Full, Optional, OrDash, Shows
    <2>5. ContributorDetailPage' = ContributorDetailPage
      BY <2>2, <2>4 DEF ContributorDetailPage
    <2> QED
      BY <2>5, KeptSame
  <1>3. CASE IsLoading("topology") \/ IsLoading("hub")
    <2>1. Mute(ContributorDetailPage)
      BY <1>3, MutePart
      DEF ContributorDetailPage, ContributorCards, ContributorTables, IsLoading, Has,
        Full, Optional, OrDash, Shows, Nothing, Claims
    <2> QED
      BY <2>1, KeptMute
  <1> QED
    BY <1>2, <1>3

LEMMA RewardReconciliationKept ==
  ASSUME ViewIInv, view = "reconciliation", NEW f \in DOMAIN feed, Fail(f)
  PROVE  Survives(RewardReconciliation, RewardReconciliation')
  <1>1. DOMAIN feed = {"hub", "baseline"}
    BY DEF ViewIInv, ViewTypeOK, FeedsOf, ViewNames
  <1>2. CASE Has("hub") /\ Has("baseline")
    <2>1. RewardReconciliation' = RewardReconciliation
      BY <1>1, <1>2, Failing DEF RewardReconciliation, IsLoading, Has, Full, Nothing
    <2> QED
      BY <2>1, KeptSame
  <1>3. CASE ~(Has("hub") /\ Has("baseline"))
    <2>1. Mute(RewardReconciliation)
      BY <1>3, MutePart
      DEF RewardReconciliation, IsLoading, Has, Full, Nothing, Claims
    <2> QED
      BY <2>1, KeptMute
  <1> QED
    BY <1>2, <1>3

LEMMA ContributorLinksPageKept ==
  ASSUME ViewIInv, view = "contributor links", NEW f \in DOMAIN feed, Fail(f)
  PROVE  Survives(ContributorLinksPage, ContributorLinksPage')
  <1>1. DOMAIN feed = {"topology", "status", "epochs", "estimate"}
    BY DEF ViewIInv, ViewTypeOK, FeedsOf, ViewNames
  <1>2. \A g \in DOMAIN feed : feed'[g].data = feed[g].data
    BY Failing
  <1>3. CASE ~Has("topology")
    <2>1. Mute(ContributorLinksPage)
      BY <1>3, MutePart DEF ContributorLinksPage, Guarded, Failed, Claims
    <2> QED
      BY <2>1, KeptMute
  <1>4. CASE Has("topology") /\ ~Full("topology")
    <2>1. ContributorLinksPage' = ContributorLinksPage
      BY <1>1, <1>2, <1>4 DEF ContributorLinksPage, Guarded, Failed, Has, Full
    <2> QED
      BY <2>1, KeptSame
  <1>5. CASE Has("topology") /\ Full("topology")
    <2>1. Mute(EstimateBanner)
      BY MutePart DEF EstimateBanner, Claims
    <2>2. ContributorLinkRows' = ContributorLinkRows
      BY <1>1, <1>2 DEF ContributorLinkRows, Shows, OrDash, Full
    <2>3. Survives(EstimateBanner \cup ContributorLinkRows,
                 EstimateBanner' \cup ContributorLinkRows')
      BY <2>1, <2>2, KeptMute, KeptSame, KeptBoth
    <2>4. /\ ContributorLinksPage = EstimateBanner \cup ContributorLinkRows
          /\ ContributorLinksPage' = EstimateBanner' \cup ContributorLinkRows'
      BY <1>1, <1>2, <1>5 DEF ContributorLinksPage, Guarded, Failed, Has, Full
    <2> QED
      BY <2>3, <2>4
  <1> QED
    BY <1>3, <1>4, <1>5

LEMMA LinksPageKept ==
  ASSUME ViewIInv, view = "links", NEW f \in DOMAIN feed, Fail(f)
  PROVE  Survives(LinksPage, LinksPage')
  <1>1. DOMAIN feed = {"topology", "status"}
    BY DEF ViewIInv, ViewTypeOK, FeedsOf, ViewNames
  <1>2. CASE Has("topology")
    <2>1. LinksPage' = LinksPage
      BY <1>1, <1>2, Failing
      DEF LinksPage, LinkRows, Failed, Has, Full, Guarded, OrDash, Shows, Nothing
    <2> QED
      BY <2>1, KeptSame
  <1>3. CASE ~Has("topology")
    <2>1. Mute(LinksPage)
      BY <1>3, MutePart
      DEF LinksPage, LinkRows, Failed, Has, Full, Guarded, OrDash, Shows, Nothing,
        Claims
    <2> QED
      BY <2>1, KeptMute
  <1> QED
    BY <1>2, <1>3

LEMMA LinkDetailPageKept ==
  ASSUME ViewIInv, view = "link", NEW f \in DOMAIN feed, Fail(f)
  PROVE  Survives(LinkDetailPage, LinkDetailPage')
  <1>1. DOMAIN feed = {"topology", "status", "epochs", "estimate"}
    BY DEF ViewIInv, ViewTypeOK, FeedsOf, ViewNames
  <1>2. \A g \in DOMAIN feed : feed'[g].data = feed[g].data
    BY Failing
  <1>3. CASE ~Has("topology")
    <2>1. Mute(LinkDetailPage)
      BY <1>3, MutePart DEF LinkDetailPage, Claims
    <2> QED
      BY <2>1, KeptMute
  <1>4. CASE Has("topology") /\ ~Full("topology")
    <2>1. LinkDetailPage' = LinkDetailPage
      BY <1>1, <1>2, <1>4 DEF LinkDetailPage, Has, Full
    <2> QED
      BY <2>1, KeptSame
  <1>5. CASE Has("topology") /\ Full("topology")
    <2>1. ASSUME f = "estimate"
          PROVE  Survives(RewardShare, RewardShare')
      <3>1. feed["estimate"].busy
        BY <2>1, Failing
      <3> QED
        BY <3>1, MutePart, KeptMute DEF RewardShare, Claims
    <2>2. ASSUME f # "estimate"
          PROVE  Survives(RewardShare, RewardShare')
      <3>1. feed'["estimate"] = feed["estimate"]
        BY <1>1, <2>2, Failing
      <3>2. RewardShare' = RewardShare
        BY <3>1 DEF RewardShare, Has, Full
      <3> QED
        BY <3>2, KeptSame
    <2>3. Survives(RewardShare, RewardShare')
      BY <2>1, <2>2
    <2>4. LinkFacts' = LinkFacts /\ Shows("spec", "topology")' = Shows("spec", "topology")
      BY <1>1, <1>2 DEF LinkFacts, Optional, Shows, Full
    <2>5. Survives(Shows("spec", "topology") \cup RewardShare \cup LinkFacts,
               Shows("spec", "topology")' \cup RewardShare' \cup LinkFacts')
      BY <2>3, <2>4, KeptSame, KeptBoth
    <2>6. /\ LinkDetailPage = Shows("spec", "topology") \cup RewardShare \cup LinkFacts
          /\ LinkDetailPage' = Shows("spec", "topology")' \cup RewardShare' \cup LinkFacts'
      BY <1>1, <1>2, <1>5 DEF LinkDetailPage, Has, Full
    <2> QED
      BY <2>5, <2>6
  <1> QED
    BY <1>3, <1>4, <1>5

LEMMA LinkValuePageKept ==
  ASSUME ViewIInv, view = "link value", NEW f \in DOMAIN feed, Fail(f)
  PROVE  Survives(LinkValuePage, LinkValuePage')
  <1>1. DOMAIN feed = {"topology", "epochs", "estimate"}
    BY DEF ViewIInv, ViewTypeOK, FeedsOf, ViewNames
  <1>2. CASE Has("topology") /\ Has("estimate") /\ ~feed["estimate"].error
    <2>1. LinkValuePage' = LinkValuePage
      BY <1>1, <1>2, Failing
      DEF LinkValuePage, LinkValueRows, Failed, Off, Has, Full, Guarded, Shows,
        Nothing
    <2> QED
      BY <2>1, KeptSame
  <1>3. CASE ~(Has("topology") /\ Has("estimate") /\ ~feed["estimate"].error)
    <2>1. Mute(LinkValuePage)
      BY <1>3, MutePart
      DEF LinkValuePage, LinkValueRows, Failed, Off, Has, Full, Guarded, Shows,
        Nothing, Claims
    <2> QED
      BY <2>1, KeptMute
  <1> QED
    BY <1>2, <1>3

LEMMA FailureKeeps ==
  ASSUME ViewIInv, view \notin TakesAway, NEW f \in DOMAIN feed, Fail(f)
  PROVE  Survives(Parts, Parts')
  <1>0. view \in ViewNames /\ view' = view
    BY Failing DEF ViewIInv, ViewTypeOK
  <1>1. CASE view = "network"
    BY <1>0, <1>1, NetworkPageKept DEF Parts
  <1>2. CASE view = "status"
    BY <1>0, <1>2, StatusPageKept DEF Parts
  <1>3. CASE view = "pulse"
    BY <1>0, <1>3, NetworkPulseKept DEF Parts
  <1>4. CASE view = "economics"
    BY <1>0, <1>4, EconomicsPageKept DEF Parts
  <1>5. CASE view = "share vs footprint"
    BY <1>0, <1>5, ShareVsFootprintKept DEF Parts
  <1>6. CASE view = "reward history"
    BY <1>0, <1>6, EpochRewardHistoryKept DEF Parts
  <1>7. CASE view = "digest"
    BY <1>0, <1>7, WeeklyDigestKept DEF Parts
  <1>8. CASE view = "live baseline"
    BY <1>0, <1>8, LiveBaselineShapleyKept DEF Parts
  <1>9. CASE view = "tracking"
    BY <1>0, <1>9, ShapleyTrackingKept DEF Parts
  <1>10. CASE view = "fees"
    BY <1>0, <1>10, FeePageKept DEF Parts
  <1>11. CASE view = "contributors"
    BY <1>0, <1>11, ContributorsPageKept DEF Parts
  <1>12. CASE view = "contributor"
    BY <1>0, <1>12, ContributorDetailPageKept DEF Parts
  <1>13. CASE view = "contributor links"
    BY <1>0, <1>13, ContributorLinksPageKept DEF Parts
  <1>14. CASE view = "reconciliation"
    BY <1>0, <1>14, RewardReconciliationKept DEF Parts
  <1>15. CASE view = "links"
    BY <1>0, <1>15, LinksPageKept DEF Parts
  <1>16. CASE view = "link"
    BY <1>0, <1>16, LinkDetailPageKept DEF Parts
  <1>17. CASE view = "link value"
    BY <1>0, <1>17, LinkValuePageKept DEF Parts
  <1> QED
    BY <1>0, <1>1, <1>2, <1>3, <1>4, <1>5, <1>6, <1>7, <1>8, <1>9, <1>10, <1>11, <1>12,
      <1>13, <1>14, <1>15, <1>16, <1>17
    DEF ViewNames, TakesAway

LEMMA StepKeeps ==
  ViewIInv /\ [ViewsNext]_viewVars =>
    [view \notin TakesAway /\ (\E f \in DOMAIN feed : Fail(f)) =>
        \A p \in Parts : p.says \in Claims => p \in Parts']_viewVars
  BY FailureKeeps DEF Survives

\* A failed refresh takes nothing from the screen, but on the views that are
\* listed to give it up (use-live.ts, hasLoadError).
THEOREM RefreshCorrect == ViewsSpec => RefreshKeepsValues
  BY ViewInvariance, StepKeeps, PTL DEF ViewsSpec, RefreshKeepsValues
=============================================================================
