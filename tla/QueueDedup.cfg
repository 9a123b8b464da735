\* Three requests for one link estimate and two DELETEs; nothing goes wrong.
SPECIFICATION Spec
CONSTANTS
    w1 = w1  w2 = w2  s1 = s1  l1 = l1  l2 = l2  l3 = l3
    estimate = estimate  simulation = simulation  NoJob = NoJob
    Worker = {w1, w2}
    Job = {l1, l2, l3}
    Linkest = {l1, l2, l3}
    Hash = {estimate, simulation}
    HashOf <- MCHashOf
    MaxLen = 3
    ClaimCount = 10
    MaxDeliveries = 2
    MaxDeliveriesLinkest = 1
    Outcomes = {"done"}
    Hazard <- MCHazard
    Budgets <- TwoCancels
SYMMETRY Workers
INVARIANTS
    DedupHolds
CHECK_DEADLOCK FALSE
