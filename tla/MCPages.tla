-------------------------------- MODULE MCPages --------------------------------
(* What keeps no job: the scenario editor over a small network, one of the live *)
(* views, one of the API routes, or the limiter in front of them.               *)
EXTENDS MCScenario, Views, Routes, RateLimit

CONSTANTS scan, solve

\* 60 and 10 a minute.
MCLimit == [k \in {scan, solve} |-> IF k = solve THEN 1 ELSE 2]

VARIABLE open

pagesVars == <<open, scenarioVars, viewVars, routeVars, limitVars>>

\* Whatever is not open stands still: the editor on the one snapshot it cannot
\* price, a view, a route.
PagesInit ==
    /\ open \in {"editor", "view", "route", "limit"}
    /\ ScenarioInit /\ (open # "editor" => ~snap.window /\ code = Nobody /\ url = Blank)
    /\ ViewsInit /\ (open # "view" => view = "economics")
    /\ RoutesInit /\ (open # "route" => route = stats)
    /\ LimitInit

PagesNext ==
    \/ open = "editor" /\ ScenarioNext /\ UNCHANGED <<open, viewVars, routeVars, limitVars>>
    \/ open = "view" /\ ViewsNext /\ UNCHANGED <<open, scenarioVars, routeVars, limitVars>>
    \/ open = "route" /\ RoutesNext /\ UNCHANGED <<open, scenarioVars, viewVars, limitVars>>
    \/ open = "limit" /\ LimitNext /\ UNCHANGED <<open, scenarioVars, viewVars, routeVars>>

PagesSpec == PagesInit /\ [][PagesNext]_pagesVars
=============================================================================
