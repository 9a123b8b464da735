\* A cron that keeps firing and one mishap of any kind.
SPECIFICATION FairSpec
CONSTANTS
    o1 = o1  o2 = o2  o3 = o3  s1 = s1  c1 = c1  d1 = d1  c2 = c2  d2 = d2
    w1 = w1  w2 = w2  NoJob = NoJob
    Operator = {o1}
    Solvable = {o1}
    Sweep = {s1}
    Child = {c1, d1}
    FocusOf <- MCFocusOf
    Worker = {w1, w2}
    MaxDeliveries = 2
    MaxDeliveriesLinkest = 1
    Lists = {}
    MaxMishap = 1
PROPERTIES
    Swept
CHECK_DEADLOCK FALSE
