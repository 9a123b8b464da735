----------------------------- MODULE MCJobQueue -----------------------------
(* Small instances of JobQueue for TLC. *)
EXTENDS JobQueue, TLC

CONSTANTS w1, w2, s1, l1, l2, l3, estimate, simulation

\* All link estimates ask for the same thing, and so do all simulations.
MCHashOf == [j \in Job |-> IF j \in Linkest THEN estimate ELSE simulation]

MCHazard == {"crash", "fault", "lapse", "expiry", "backstop", "cancel"}
NoHazard == [k \in MCHazard |-> 0]
Once(K) == [k \in MCHazard |-> IF k \in K THEN 1 ELSE 0]

AnyTwo == {Once(K) : K \in {{j, k} : j, k \in MCHazard}}
TwoCancels == {[NoHazard EXCEPT !["cancel"] = 2]}
OneCrash == {Once({"crash"})}

Workers == Permutations({w1, w2})
=============================================================================
