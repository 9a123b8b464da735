------------------------------- MODULE MCBrowser -------------------------------
(* A browser on one of the two pages that run jobs: the simulator's tab, or   *)
(* link values seen by two viewers.                                           *)
EXTENDS SimulateTab, LinkEstimate

CONSTANTS a0, a1, v1, v2, p1, p2

VARIABLE page

vars == <<page, tabVars, estVars>>

Init ==
    /\ page \in {"simulator", "link values"}
    /\ TabInit
    /\ EstInit
    /\ page = "link values" => scenario \in Blank /\ ~autoRun

Next ==
    \/ page = "simulator" /\ TabNext /\ UNCHANGED <<page, estVars>>
    \/ page = "link values" /\ EstNext /\ UNCHANGED <<page, tabVars>>

Spec == Init /\ [][Next]_vars

FairSpec == Spec /\ TabFair /\ EstFair
=============================================================================
