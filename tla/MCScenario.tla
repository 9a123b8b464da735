------------------------------ MODULE MCScenario ------------------------------
(* Small instances of Scenario for TLC. *)
EXTENDS Scenario, TLC

CONSTANTS A, B, C, la, lb, lc, ld

MCMetro == {A, B, C}
MCLocation == {la, lb, lc, ld}

Places == (la :> A) @@ (lb :> B) @@ (lc :> C) @@ (ld :> A)
D(owner, exchange, location) ==
    [owner |-> owner, exchange |-> exchange, location |-> location, live |-> TRUE]
L(owner, a, z) ==
    [owner |-> owner, a |-> a, z |-> z, live |-> TRUE, sampled |-> TRUE, thin |-> FALSE]
U(device, slots, kind) == [device |-> device, slots |-> slots, kind |-> kind]

\* Two operators at three cities, two parallel links, and one that ends at the
\* other operator's device.
Mainnet ==
    [listed |-> {1, 2},
     metro |-> Places,
     device |-> <<D(1, A, la), D(1, B, lb), D(2, B, lb), D(2, C, lc), D(1, A, ld)>>,
     link |-> <<L(1, 1, 2), L(1, 5, 2), L(2, 3, 4), L(1, 1, 3)>>,
     user |-> <<U(1, 2, "validator"), U(2, 1, "validator"), U(4, 3, "validator"),
                U(3, 0, "subscriber"), U(5, 1, "publisher")>>,
     price |-> (A :> 1) @@ (B :> 2) @@ (C :> 0),
     window |-> TRUE]

MCSnapshots ==
    {Mainnet,
     [Mainnet EXCEPT !.window = FALSE],
     [Mainnet EXCEPT !.link[2].live = FALSE, !.link[1].thin = TRUE],
     [Mainnet EXCEPT !.link[1].sampled = FALSE, !.metro[ld] = Nowhere],
     [Mainnet EXCEPT !.device[2].live = FALSE, !.user[2].slots = 0, !.user[3].kind = "banned"],
     [Mainnet EXCEPT !.listed = {1}, !.device[3].owner = Nobody, !.device[4].owner = Nobody,
                     !.link[3].owner = Nobody, !.device[5].location = Nowhere]}

Link1(a, z, bandwidth, latency) ==
    [a |-> a, z |-> z, bandwidth |-> bandwidth, latency |-> latency]

\* Duplicated and stale removals, numbers at and past their bounds, an unknown
\* metro, demand that leaves no rows.
MCForeign ==
    {[remove |-> r, add |-> a, demand |-> d] :
        r \in {<<>>, <<1>>, <<1, 1>>, <<2, 1>>, <<3>>, <<9>>},
        a \in {<<>>, <<Link1(la, lc, Absent, Absent)>>, <<Link1(la, ld, 1, 0)>>,
               <<Link1(lb, lc, 0, 0)>>, <<Link1(lb, lc, MaxBandwidth + 1, 0)>>,
               <<Link1(lb, lc, 1, -1)>>, <<Link1(lc, lb, 1, MaxLatency)>>, <<Link1(la, la, 1, 0)>>},
        d \in {<<>>, A :> 0, A :> MaxOverride, A :> MaxOverride + 1, B :> -1,
               (A :> 0) @@ (B :> 0) @@ (C :> 0)}}

=============================================================================
