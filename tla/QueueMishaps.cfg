\* A simulation and a link estimate, panics and any two mishaps.
SPECIFICATION Spec
CONSTANTS
    w1 = w1  w2 = w2  s1 = s1  l1 = l1  l2 = l2  l3 = l3
    estimate = estimate  simulation = simulation  NoJob = NoJob
    Worker = {w1, w2}
    Job = {s1, l1}
    Linkest = {l1}
    Hash = {estimate, simulation}
    HashOf <- MCHashOf
    MaxLen = 2
    ClaimCount = 10
    MaxDeliveries = 2
    MaxDeliveriesLinkest = 1
    Outcomes = {"done", "panic"}
    Hazard <- MCHazard
    Budgets <- AnyTwo
SYMMETRY Workers
INVARIANTS
    SettledWhenAcked
    ClaimReleased
    CancelledOnlyOnRequest
    AttemptsBounded
PROPERTIES
    
    ImplementsAtLeastOnce
CHECK_DEADLOCK FALSE
