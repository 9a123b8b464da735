------------------------------ MODULE MCSweep ------------------------------
(* Small instances of Sweep for TLC. *)
EXTENDS Sweep, TLC

CONSTANTS o1, o2, o3, s1, c1, d1, c2, d2, w1, w2

\* Two ids for the children of each operator.
MCFocusOf == [c \in Child |-> IF c \in {c1, d1} THEN o1 ELSE o2]

Solved == {{o1, o2}}

Workers == Permutations(Worker)
=============================================================================
