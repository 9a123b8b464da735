------------------------------ MODULE ChangeLog ------------------------------
(***************************************************************************)
(* The changelog (diff.rs, diff_routes.rs and the /api/diff routes): what  *)
(* changed between two epochs, computed from their shapes and, for the     *)
(* network, dated by the shapes in between; the CDN keeps an answer for    *)
(* days unless the service marked it degraded.                             *)
(*                                                                         *)
(* Records are those of ShapeRecords: written once, and absent until the   *)
(* ingest cron fills them.  A shape keeps, of each link, its owner and the *)
(* fields that are compared, and the codes of the contributors listed.     *)
(* The order of entries and rows, and the footprint counts the shape       *)
(* carries unchanged (devices, metros), are left out.                      *)
(***************************************************************************)
EXTENDS Integers, FiniteSets, FiniteSetsExt

CONSTANTS
    Epochs,
    DiffShapes,
    Codes,                  \* contributors one may ask for
    MaxWindow,              \* MAX_DIFF_WINDOW
    IntermediateReads,      \* INTERMEDIATE_CONCURRENCY
    NoRecord, Unread, Failed, NoAnswer, Network

ASSUME LogAssumption ==
    /\ Epochs \subseteq Nat /\ IsFiniteSet(Epochs)
    /\ MaxWindow \in Nat /\ IntermediateReads \in Nat \ {0}
    /\ {NoRecord, Unread, Failed} \intersect DiffShapes = {}
    /\ NoAnswer \notin Codes \union {Network} /\ Network \notin Codes

\* The owner of a link is a listed contributor, or "unknown".
ASSUME ShapeAssumption ==
    \A s \in DiffShapes :
        /\ IsFiniteSet(DOMAIN s.links) /\ "unknown" \notin s.codes
        /\ \A l \in DOMAIN s.links : s.links[l].owner \in s.codes \union {"unknown"}

VARIABLES
    record,     \* the readable record of each epoch
    span,       \* the window asked for
    asked,      \* the question under way: Network, a code, or NoAnswer
    read,       \* what the handler has read of each epoch
    kept        \* the answers the CDN holds

logVars == <<record, span, asked, read, kept>>

-----------------------------------------------------------------------------
(* Shapes.                                                                 *)

Links(s) == DOMAIN s.links
Owned(s, c) == {l \in Links(s) : s.links[l].owner = c}
Listed(s, c) == c \in s.codes
LinkCount(s, c) == IF Listed(s, c) THEN Cardinality(Owned(s, c)) ELSE 0
Bandwidth(s, c) == MapThenSumSet(LAMBDA l : s.links[l].bandwidth, Owned(s, c))

\* What is compared of a link.  The owner is not.
Fields == {"bandwidth", "kind", "ends"}
Differs(b, a, l, f) == b.links[l][f] # a.links[l][f]

FirstSeen(b, a, c) == ~Listed(b, c) /\ Listed(a, c)
LeftNetwork(b, a, c) == Listed(b, c) /\ ~Listed(a, c)

-----------------------------------------------------------------------------
(* compute_network_diff: between holds the intermediate shapes by epoch.   *)

\* The first of the intermediate epochs that show it, else the last of the window.
FirstOf(shows, to) == IF shows = {} THEN to ELSE Min(shows)

AddedIn(b, a, between, to) ==
    {[link |-> l, owner |-> a.links[l].owner,
      first |-> FirstOf({e \in DOMAIN between : l \in Links(between[e])}, to)] :
        l \in Links(a) \ Links(b)}

RemovedIn(b, a, between, to) ==
    {[link |-> l, owner |-> b.links[l].owner,
      first |-> FirstOf({e \in DOMAIN between : l \notin Links(between[e])}, to)] :
        l \in Links(b) \ Links(a)}

Carries(s, l, f, v) == l \in Links(s) /\ s.links[l][f] = v

ChangedIn(b, a, between, to) ==
    UNION {{[link |-> l, field |-> f, owner |-> a.links[l].owner,
             first |-> FirstOf({e \in DOMAIN between :
                                   Carries(between[e], l, f, a.links[l][f])}, to)] :
               f \in {g \in Fields : Differs(b, a, l, g)}} :
           l \in Links(b) \intersect Links(a)}

Of(c, entries) == {x \in entries : x.owner = c}

Row(b, a, c, added, removed, changed) ==
    [code |-> c,
     links |-> <<LinkCount(b, c), LinkCount(a, c)>>,
     added |-> Cardinality(Of(c, added)),
     removed |-> Cardinality(Of(c, removed)),
     changed |-> Cardinality(Of(c, changed)),
     bandwidth |-> <<IF Listed(b, c) THEN Bandwidth(b, c) ELSE 0,
                     IF Listed(a, c) THEN Bandwidth(a, c) ELSE 0>>,
     first_seen |-> FirstSeen(b, a, c),
     left_network |-> LeftNetwork(b, a, c)]

Active(row) ==
    \/ row.added > 0 \/ row.removed > 0 \/ row.changed > 0
    \/ row.first_seen \/ row.left_network

compute_network_diff(b, a, between, to) ==
    LET added == AddedIn(b, a, between, to)
        removed == RemovedIn(b, a, between, to)
        changed == ChangedIn(b, a, between, to)
    IN  [added |-> added, removed |-> removed, changed |-> changed,
         contributors |-> {r \in {Row(b, a, c, added, removed, changed) :
                                     c \in b.codes \union a.codes} : Active(r)}]

-----------------------------------------------------------------------------
(* compute_contributor_diff: only the links c owns in the respective epoch *)
(* take part; the endpoints are not compared.                              *)

\* Variant: the links before are looked up among everybody's.
BeforeLinksOfAll(b, c) == Links(b)

BeforeLinks(b, c) == Owned(b, c)

compute_contributor_diff(b, a, c) ==
    [added |-> Owned(a, c) \ BeforeLinks(b, c),
     removed |-> Owned(b, c) \ Owned(a, c),
     changed |-> {l \in Owned(a, c) \intersect BeforeLinks(b, c) :
                     Differs(b, a, l, "bandwidth") \/ Differs(b, a, l, "kind")},
     links |-> <<LinkCount(b, c), LinkCount(a, c)>>,
     bandwidth |-> <<Bandwidth(b, c), Bandwidth(a, c)>>,
     first_seen |-> FirstSeen(b, a, c),
     left_network |-> LeftNetwork(b, a, c)]

-----------------------------------------------------------------------------
(* A request.                                                              *)

validate_window(w) ==
    /\ w.from # w.to
    /\ w.from - w.to <= MaxWindow /\ w.to - w.from <= MaxWindow

Ends == {span.from, span.to}
Between == {e \in Epochs : span.from < e /\ e < span.to}

LogInit ==
    /\ record \in [Epochs -> DiffShapes \union {NoRecord}]
    /\ span \in {w \in [from : Epochs, to : Epochs] : validate_window(w)}
    /\ asked = NoAnswer
    /\ read = [e \in Epochs |-> Unread]
    /\ kept = [p \in Codes \union {Network} |-> NoAnswer]

\* The ingest cron supplies a record that was missing.
Fill ==
    /\ \E e \in Epochs, s \in DiffShapes :
          record[e] = NoRecord /\ record' = [record EXCEPT ![e] = s]
    /\ UNCHANGED <<span, asked, read, kept>>

Ask(p) ==
    /\ asked = NoAnswer
    /\ asked' = p
    /\ UNCHANGED <<record, span, read, kept>>

HasEnds == \A e \in Ends : read[e] \in DiffShapes

\* The two ends side by side; then, for the network, up to IntermediateReads
\* at a time, in ascending order.
UnderWay ==
    LET left == {e \in Between : read[e] = Unread}
    IN  IF ~HasEnds THEN {e \in Ends : read[e] = Unread}
        ELSE IF asked # Network THEN {}
        ELSE {e \in left : Cardinality({d \in left : d < e}) < IntermediateReads}

\* A read finds the record or its absence, or fails or runs out of time.
ReadShape ==
    /\ asked # NoAnswer
    /\ \E e \in UnderWay : \E r \in {record[e], Failed} :
          read' = [read EXCEPT ![e] = r]
    /\ UNCHANGED <<record, span, asked, kept>>

\* Variant: an epoch without a record is not a failure.
SkippedFailed == {e \in Between : read[e] = Failed}

Skipped == {e \in Between : read[e] \notin DiffShapes}

Intermediates == [e \in {d \in Between : read[d] \in DiffShapes} |-> read[e]]

Body ==
    LET b == read[span.from]  a == read[span.to]
    IN  IF asked = Network THEN compute_network_diff(b, a, Intermediates, span.to)
                           ELSE compute_contributor_diff(b, a, asked)

Closes ==
    /\ asked' = NoAnswer
    /\ read' = [e \in Epochs |-> Unread]

\* 200; x-diff-degraded keeps the answer out of the CDN.
Answer ==
    /\ asked # NoAnswer /\ HasEnds /\ UnderWay = {}
    /\ kept' = IF asked = Network /\ Skipped # {} THEN kept
               ELSE [kept EXCEPT ![asked] = Body]
    /\ Closes
    /\ UNCHANGED <<record, span>>

\* 404 or 502: an end that cannot be read; or the proxy gives up.  Not kept.
Refuse ==
    /\ asked # NoAnswer
    /\ Closes
    /\ UNCHANGED <<record, span, kept>>

LogNext ==
    \/ Fill \/ ReadShape \/ Answer \/ Refuse
    \/ \E p \in Codes \union {Network} : Ask(p)

LogSpec == LogInit /\ [][LogNext]_logVars

-----------------------------------------------------------------------------
(* Properties.                                                             *)

\* The entry is true of s, the record of an epoch.
IsTrue(kind, x, s) ==
    CASE kind = "added" -> x.link \in Links(s)
      [] kind = "removed" -> x.link \notin Links(s)
      [] kind = "changed" ->
            Carries(s, x.link, x.field, record[span.to].links[x.link][x.field])

\* What the CDN keeps of the network is dated right, and stays so while the
\* records fill up: each entry holds in the epoch it names and in no epoch
\* before it, so no unread or missing epoch has moved a change to a later one.
KeptIsExact ==
    kept[Network] # NoAnswer =>
        \A kind \in {"added", "removed", "changed"} : \A x \in kept[Network][kind] :
            /\ record[x.first] # NoRecord /\ IsTrue(kind, x, record[x.first])
            /\ \A e \in Epochs : span.from < e /\ e < x.first =>
                  record[e] # NoRecord /\ ~IsTrue(kind, x, record[e])

LinksOf(entries) == {x.link : x \in entries}
RowOf(c) == {r \in kept[Network].contributors : r.code = c}

\* The links present at both ends that c gained or lost.
HandedOver(c) ==
    LET b == record[span.from]  a == record[span.to]
    IN  (Links(b) \intersect Links(a))
            \intersect ((Owned(b, c) \ Owned(a, c)) \union (Owned(a, c) \ Owned(b, c)))

\* The page of a contributor and the network's page tell the same story of
\* them, though computed apart and at different times: the same links added,
\* removed and changed, but for links that changed hands, which only the
\* contributor's page tells, and for endpoints, which only the network's does;
\* the same counts in the row; and the counts of the page add up.
PagesAgree ==
    \A c \in Codes :
        LET mine == kept[c]
            all == kept[Network]
        IN  mine # NoAnswer /\ (\E e \in Ends : Listed(record[e], c)) =>
                /\ mine.links[1] + Cardinality(mine.added)
                      = mine.links[2] + Cardinality(mine.removed)
                /\ all # NoAnswer =>
                      /\ LinksOf(Of(c, all.added)) = mine.added \ HandedOver(c)
                      /\ LinksOf(Of(c, all.removed)) = mine.removed \ HandedOver(c)
                      /\ mine.changed = LinksOf({x \in Of(c, all.changed) : x.field # "ends"})
                                            \ HandedOver(c)
                      /\ \A r \in RowOf(c) :
                            r.links = mine.links /\ r.bandwidth = mine.bandwidth
                      /\ RowOf(c) = {} =>
                            /\ mine.added \union mine.removed \subseteq HandedOver(c)
                            /\ mine.changed = {}
=============================================================================
