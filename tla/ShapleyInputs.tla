---------------------------- MODULE ShapleyInputs ----------------------------
(****************************************************************************)
(* From a snapshot to the inputs of a solve: the canonical tables, the      *)
(* parsed view the pages show, and the pipeline that POST /api/shapley/jobs *)
(* and /simulate run over the edits of a what-if scenario.  Latencies,      *)
(* bandwidths and traffic are left out; identity, order and counts stay.    *)
(****************************************************************************)
EXTENDS Integers, FiniteSets, SequencesExt, FiniteSetsExt

CONSTANTS
    Metro,           \* exchange codes in upper case
    Location,        \* location codes
    Nowhere,
    Contributor,     \* operator codes, in the order of their raw keys
    Device, Link, User,   \* keys, in the order of the snapshot
    NewContributor,  \* NEW_CONTRIBUTOR_SIM_CODE
    Absent,
    MaxBandwidth, MaxLatency, MaxOverride

ASSUME InputsAssumption ==
    /\ Contributor \subseteq Nat /\ Device \subseteq Nat /\ Link \subseteq Nat
    /\ IsFiniteSet(Contributor) /\ IsFiniteSet(Device) /\ IsFiniteSet(Link) /\ IsFiniteSet(User)
    /\ Nowhere \notin Metro \cup Location
    /\ NewContributor \notin Contributor
    /\ Absent \notin Int
    /\ MaxBandwidth \in Nat \ {0} /\ MaxLatency \in Nat /\ MaxOverride \in Nat

Nobody == 0   \* an owner that is not in the snapshot
AddedLink == 0

\* A snapshot is a record: listed are its contributors; metro names the exchange
\* a location shares its name with; a link is sampled when it has more than
\* twenty valid samples.
Snapshot ==
    [listed : SUBSET Contributor,
     metro : [Location -> Metro \cup {Nowhere}],
     device : [Device -> [owner : Contributor \cup {Nobody}, exchange : Metro \cup {Nowhere},
                          location : Location \cup {Nowhere}, live : BOOLEAN]],
     link : [Link -> [owner : Contributor \cup {Nobody}, a : Device, z : Device,
                      live : BOOLEAN, sampled : BOOLEAN, thin : BOOLEAN]],
     user : [User -> [device : Device, slots : Nat,
                      kind : {"validator", "subscriber", "publisher", "banned"}]],
     price : [Metro -> Nat],
     window : BOOLEAN]

-----------------------------------------------------------------------------
(* The canonical tables. *)

Prepared(s) == {d \in Device : s.device[d].owner # Nobody /\ s.device[d].exchange # Nowhere}

Before(s, d, e) ==
    \/ s.device[d].owner < s.device[e].owner
    \/ s.device[d].owner = s.device[e].owner /\ d < e

InOrder(s) == SetToSortSeq(Prepared(s), LAMBDA d, e : Before(s, d, e))

\* A device is called by its city and a running number there.
Name(s, d) ==
    LET city == s.device[d].exchange IN
    [city |-> city,
     n |-> Cardinality({e \in Prepared(s) :
              s.device[e].exchange = city /\ (e = d \/ Before(s, e, d))})]

DeviceRows(s) ==
    [i \in DOMAIN InOrder(s) |->
        LET d == InOrder(s)[i] IN [name |-> Name(s, d), operator |-> s.device[d].owner]]

Usable(s, l) ==
    LET link == s.link[l] IN
    /\ link.live
    /\ link.sampled
    /\ \A d \in {link.a, link.z} : s.device[d].live /\ d \in Prepared(s)

\* Which link a row comes from is not in the table; the properties ask.
PrivateRows(s) ==
    LET kept == SetToSortSeq({l \in Link : Usable(s, l)}, <) IN
    [i \in DOMAIN kept |->
        [ends |-> <<Name(s, s.link[kept[i]].a), Name(s, s.link[kept[i]].z)>>, of |-> kept[i]]]

\* Who is counted where: a validator needs a location, a subscriber an owner.
Counted(s, m) == {u \in User :
    LET d == s.device[s.user[u].device] IN d.exchange = m /\ d.location # Nowhere}
Subscribed(s, m) == {u \in User :
    LET d == s.device[s.user[u].device] IN
    s.user[u].kind = "subscriber" /\ d.exchange = m /\ d.owner # Nobody}

Stake(s, m) == FoldSet(LAMBDA u, n : s.user[u].slots + n, 0, Counted(s, m))

CityStats(s) ==
    [m \in {x \in Metro : Counted(s, x) # {} \/ Subscribed(s, x) # {}} |->
        [validators |-> Cardinality(Counted(s, m)),
         stake |-> Stake(s, m),
         subscribers |-> Cardinality(Subscribed(s, m)),
         price |-> s.price[m]]]

\* Mutant: an override of zero leaves a metro in.
DemandsOfAll(stats) ==
    {[start |-> p[1], end |-> p[2], receivers |-> stats[p[2]].validators, multicast |-> FALSE] :
        p \in {q \in (DOMAIN stats) \X (DOMAIN stats) : q[1] # q[2]}}
Demands(stats) ==
    LET Senders == {m \in DOMAIN stats : stats[m].validators > 0}
        Shreds == {m \in DOMAIN stats : stats[m].subscribers > 0 /\ stats[m].price > 0}
    IN  {[start |-> p[1], end |-> p[2], receivers |-> stats[p[2]].validators, multicast |-> FALSE] :
            p \in {q \in Senders \X Senders : q[1] # q[2]}}
        \cup
        {[start |-> p[1], end |-> p[2], receivers |-> stats[p[2]].subscribers, multicast |-> TRUE] :
            p \in Senders \X Shreds}

\* A weight is a share of the total stake: uniform when nobody has any.
Weights(stats) ==
    LET total == FoldSet(LAMBDA m, n : stats[m].stake + n, 0, DOMAIN stats) IN
    [m \in DOMAIN stats |-> IF total > 0 THEN <<stats[m].stake, total>>
                                         ELSE <<1, Cardinality(DOMAIN stats)>>]

Canonical(s) == s.window /\ \E m \in Metro : s.price[m] > 0

CanonicalInput(s) ==
    [devices |-> DeviceRows(s), private |-> PrivateRows(s),
     demands |-> Demands(CityStats(s)), weights |-> Weights(CityStats(s))]

-----------------------------------------------------------------------------
(* The parsed snapshot of the pages. *)

LinksOf(s, c) == {l \in Link : s.link[l].owner = c}
PlaceOf(s, d) == s.device[d].location
MetroOf(s, place) == IF place = Nowhere THEN Nowhere ELSE s.metro[place]

\* Users at a place, by the location of their device.
UsersAt(s, place) == {u \in User : PlaceOf(s, s.user[u].device) = place}
SlotsAt(s, place) == FoldSet(LAMBDA u, n : s.user[u].slots + n, 0, UsersAt(s, place))
ActiveCities(s) == {p \in Location : SlotsAt(s, p) > 0}

\* The demand panel counts as the canonical builder does.
PanelMetros(s) == {m \in DOMAIN CityStats(s) : CityStats(s)[m].validators > 0}
PanelCount(s, m) == CityStats(s)[m].validators

-----------------------------------------------------------------------------
(* What the routes make of a body. *)

\* normalizeLinkEdits: an entry with a number that is no number, out of range,
\* or with one city twice, refuses the body.
WellFormed(add) ==
    \A i \in DOMAIN add :
        /\ add[i].a # add[i].z
        /\ add[i].bandwidth = Absent \/ (0 < add[i].bandwidth /\ add[i].bandwidth <= MaxBandwidth)
        /\ add[i].latency = Absent \/ (0 <= add[i].latency /\ add[i].latency <= MaxLatency)

\* normalizeDemandOverrides.
InRange(demand) == \A m \in DOMAIN demand : 0 <= demand[m] /\ demand[m] <= MaxOverride

\* validateLinkEditsAgainstSnapshot.
Applicable(s, c, remove, add) ==
    /\ IF c = NewContributor THEN remove = <<>> ELSE c \in s.listed
    /\ \A i \in DOMAIN add :
          /\ MetroOf(s, add[i].a) # Nowhere
          /\ MetroOf(s, add[i].z) # Nowhere
          /\ MetroOf(s, add[i].a) # MetroOf(s, add[i].z)
    /\ \A i \in DOMAIN remove : remove[i] \in LinksOf(s, c)

\* applyDemandOverrides: the demand table is built again from patched counts.
Overridden(s, demand) ==
    LET stats == CityStats(s) IN
    [m \in DOMAIN stats |->
        IF m \in DOMAIN demand THEN [stats[m] EXCEPT !.validators = demand[m]] ELSE stats[m]]

Overridable(s, demand) ==
    \/ demand = <<>>
    \/ /\ DOMAIN demand \subseteq DOMAIN CityStats(s)
       /\ Demands(Overridden(s, demand)) # {}

WithDemand(s, input, demand) ==
    IF demand = <<>> THEN input
    ELSE [input EXCEPT !.demands = Demands(Overridden(s, demand))]

NamesOf(input, c) == {r.name : r \in {x \in Range(input.devices) : x.operator = c}}

\* The first row between the two metros with a device of the contributor at
\* both ends.
RemoveLink(s, c, input, l) ==
    LET metros == {MetroOf(s, PlaceOf(s, s.link[l].a)), MetroOf(s, PlaceOf(s, s.link[l].z))}
        Matches(row) ==
            /\ {row.ends[1].city, row.ends[2].city} = metros
            /\ {row.ends[1], row.ends[2]} \subseteq NamesOf(input, c)
        rows == {i \in DOMAIN input.private : Matches(input.private[i])}
    IN  IF l \notin LinksOf(s, c) \/ Nowhere \in metros \/ rows = {} THEN input
        ELSE [input EXCEPT !.private = RemoveAt(@, Min(rows))]

At(input, c, m) ==
    SelectInSeq(input.devices, LAMBDA r : r.operator = c /\ r.name.city = m)

\* ensureDevice: a new device takes the next number of all operators.  Mutant: of
\* its own operator.
EnsureOwnNumber(c, input, m) ==
    LET numbers == {r.name.n : r \in {x \in Range(input.devices) : x.operator = c /\ x.name.city = m}} IN
    IF At(input, c, m) # 0 THEN input
    ELSE [input EXCEPT !.devices =
             Append(@, [name |-> [city |-> m, n |-> Max(numbers \cup {0}) + 1], operator |-> c])]
EnsureDevice(c, input, m) ==
    LET numbers == {r.name.n : r \in {x \in Range(input.devices) : x.name.city = m}} IN
    IF At(input, c, m) # 0 THEN input
    ELSE [input EXCEPT !.devices =
             Append(@, [name |-> [city |-> m, n |-> Max(numbers \cup {0}) + 1], operator |-> c])]

AddLink(s, c, input, link) ==
    LET a == MetroOf(s, link.a)
        z == MetroOf(s, link.z)
        ready == EnsureDevice(c, EnsureDevice(c, input, a), z)
        Ends(m) == ready.devices[At(ready, c, m)].name
    IN  IF a = Nowhere \/ z = Nowhere \/ a = z THEN input
        ELSE [ready EXCEPT !.private = Append(@, [ends |-> <<Ends(a), Ends(z)>>, of |-> AddedLink])]

\* Devices of the contributor that no link uses any more go.
DropOrphans(c, input) ==
    LET used == UNION {{row.ends[1], row.ends[2]} : row \in Range(input.private)} IN
    [input EXCEPT !.devices = SelectSeq(@, LAMBDA r : r.operator # c \/ r.name \in used)]

\* modifyShapleyInput: a copy, of which only the devices and the private links
\* are edited.
Edited(s, input, c, remove, add) ==
    LET removed == FoldLeft(LAMBDA in, l : RemoveLink(s, c, in, l), input, remove)
    IN  DropOrphans(c, FoldLeft(LAMBDA in, link : AddLink(s, c, in, link), removed, add))
Modified(s, input, c, remove, add) ==
    LET edited == Edited(s, input, c, remove, add)
    IN  [input EXCEPT !.devices = edited.devices, !.private = edited.private]

\* The route, from its body to the two inputs it submits.
Prepare(s, c, body) ==
    IF ~WellFormed(body.add) \/ ~InRange(body.demand) \/ ~Canonical(s)
       \/ ~Overridable(s, body.demand) \/ ~Applicable(s, c, body.remove, body.add)
    THEN [asked |-> TRUE, body |-> body, accepted |-> FALSE]
    ELSE LET base == CanonicalInput(s) IN
         [asked |-> TRUE, body |-> body, accepted |-> TRUE, baseline |-> base,
          modified |-> Modified(s, WithDemand(s, base, body.demand), c, body.remove, body.add)]
=============================================================================
