-------------------------- MODULE MCBaselineFlight --------------------------
(* Small instances of BaselineFlight.                                       *)
EXTENDS BaselineFlight, TLC

CONSTANTS p1, p2, q1, q2, q3, h1, h2, h3

Alike ==
    Permutations(Process) \union Permutations(Request)
        \union Permutations(Hash \ Unsolvable)
=============================================================================
