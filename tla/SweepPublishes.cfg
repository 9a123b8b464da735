\* Two workers, three operators of which one is skipped, an explicit list, one mishap.
SPECIFICATION Spec
CONSTANTS
    o1 = o1  o2 = o2  o3 = o3  s1 = s1  c1 = c1  d1 = d1  c2 = c2  d2 = d2
    w1 = w1  w2 = w2  NoJob = NoJob
    Operator = {o1, o2, o3}
    Solvable = {o1, o2}
    Sweep = {s1}
    Child = {c1, d1, c2, d2}
    FocusOf <- MCFocusOf
    Worker = {w1, w2}
    MaxDeliveries = 2
    MaxDeliveriesLinkest = 1
    Lists <- Solved
    MaxMishap = 1
SYMMETRY Workers
INVARIANTS
    TypeOK
    AliasesResolve
    MarkerMeansComplete
CHECK_DEADLOCK FALSE
