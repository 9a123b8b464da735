------------------------------ MODULE RateLimit ------------------------------
(****************************************************************************)
(* The per-instance request limiter of the API routes: one fixed window per *)
(* bucket and caller, in a map whose stale and excess entries a request now *)
(* and then sweeps out.  A reset time is kept as the ticks left until it,   *)
(* and "used" records what the limiter itself forgets: how many requests of *)
(* each key it let through of late, and whether a sweep dropped its window  *)
(* while it was open.                                                       *)
(****************************************************************************)
EXTENDS Integers, FiniteSets

CONSTANTS
    Keys,        \* bucket and caller, as the map is keyed
    Limit,       \* per key, what its bucket allows in a window: 10, 60 or 120
    Window,      \* ticks
    MaxKeys,     \* MAX_BUCKET_KEYS
    MaxAge       \* MAX_AGE_MS, in ticks

ASSUME LimiterAssumption ==
    /\ Limit \in [Keys -> Nat \ {0}] /\ Window \in Nat \ {0}
    /\ MaxKeys \in Nat /\ MaxAge \in Nat

VARIABLES
    buckets,     \* key -> count and ticks left, for the keys with an entry
    used,        \* per key: the requests let through less than n ticks ago, for
                 \* each n up to a window, and the ticks for which an open
                 \* window that was dropped is remembered
    decision     \* the last one

limitVars == <<buckets, used, decision>>

Quiet == [key |-> "nobody", allowed |-> TRUE]
Spans == 0 .. Window
\* One more, up to as many as the property can tell apart.
OneMore(k, n) == IF n > 2 * Limit[k] THEN n ELSE n + 1

-----------------------------------------------------------------------------
(* evictStale. *)

NotStale == {k \in DOMAIN buckets : buckets[k].left + MaxAge >= 0}

\* Over the cap, those that reset first go.
Excess(ks) ==
    LET over == Cardinality(ks) - MaxKeys IN
    {out \in SUBSET ks :
        /\ Cardinality(out) = IF over > 0 THEN over ELSE 0
        /\ \A k \in out, l \in ks \ out : buckets[k].left <= buckets[l].left}

\* What is left after a request that sweeps, or does not.
Swept ==
    {buckets} \union
    {[k \in NotStale \ out |-> buckets[k]] : out \in Excess(NotStale)}

-----------------------------------------------------------------------------
(* checkRateLimit. *)

\* Mutant: a window that ends now still counts.
OpenTooLong(map, k) == k \in DOMAIN map /\ map[k].left >= 0
Open(map, k) == k \in DOMAIN map /\ map[k].left > 0

Dropped(map) == {k \in DOMAIN buckets \ DOMAIN map : buckets[k].left > 0}
Marked(map) == [k \in Keys |->
    IF k \in Dropped(map) THEN [used[k] EXCEPT !.lost = Window] ELSE used[k]]

Admits(k, map, entry) ==
    /\ buckets' = [x \in DOMAIN map \union {k} |-> IF x = k THEN entry ELSE map[x]]
    /\ used' = [Marked(map) EXCEPT ![k].last =
          [n \in Spans |-> IF n = 0 THEN 0 ELSE OneMore(k, @[n])]]
    /\ decision' = [key |-> k, allowed |-> TRUE]

Check(k) == \E map \in Swept :
    \/ ~Open(map, k) /\ Admits(k, map, [count |-> 1, left |-> Window])
    \/ /\ Open(map, k) /\ map[k].count < Limit[k]
       /\ Admits(k, map, [map[k] EXCEPT !.count = @ + 1])
    \/ /\ Open(map, k) /\ map[k].count >= Limit[k]
       /\ buckets' = map
       /\ used' = Marked(map)
       /\ decision' = [key |-> k, allowed |-> FALSE]

\* A caller without an address is let through and leaves no entry.
CheckUnknown == \E map \in Swept :
    /\ buckets' = map
    /\ used' = Marked(map)
    /\ decision' = Quiet

\* Time; an entry that even a sweep would drop need not grow older.
Pass ==
    /\ buckets' = [k \in DOMAIN buckets |->
          [buckets[k] EXCEPT !.left = IF @ < -MaxAge THEN @ ELSE @ - 1]]
    /\ used' = [k \in Keys |->
          [last |-> [n \in Spans |-> IF n = 0 THEN 0 ELSE used[k].last[n - 1]],
           lost |-> IF used[k].lost = 0 THEN 0 ELSE used[k].lost - 1]]
    /\ decision' = Quiet

LimitInit ==
    /\ buckets = <<>>
    /\ used = [k \in Keys |-> [last |-> [n \in Spans |-> 0], lost |-> 0]]
    /\ decision = Quiet

LimitNext == (\E k \in Keys : Check(k)) \/ CheckUnknown \/ Pass

LimitSpec == LimitInit /\ [][LimitNext]_limitVars

-----------------------------------------------------------------------------
(* Property. *)

\* A caller spends its own budget and nobody else's: one is refused only after
\* as many requests of its own as the bucket allows within the last window;
\* and it gets through at most twice that many in any stretch as long as a
\* window (its last ones of one window, its first of the next), unless the cap
\* on keys dropped its window while it was open.
Used(k) == used[k].last[Window]
OwnBudget ==
    /\ ~decision.allowed => Used(decision.key) >= Limit[decision.key]
    /\ \A k \in Keys : used[k].lost = 0 => Used(k) <= 2 * Limit[k]
=============================================================================
