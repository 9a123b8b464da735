\* Liveness, with a stream too short for two entries.
SPECIFICATION FairSpec
CONSTANTS
    w1 = w1  w2 = w2  s1 = s1  l1 = l1  l2 = l2  l3 = l3
    estimate = estimate  simulation = simulation  NoJob = NoJob
    Worker = {w1, w2}
    Job = {s1, l1}
    Linkest = {l1}
    Hash = {estimate, simulation}
    HashOf <- MCHashOf
    MaxLen = 1
    ClaimCount = 10
    MaxDeliveries = 2
    MaxDeliveriesLinkest = 1
    Outcomes = {"done", "failed", "panic"}
    Hazard <- MCHazard
    Budgets <- OneCrash
PROPERTIES
    Settles
CHECK_DEADLOCK FALSE
