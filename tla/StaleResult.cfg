\* One tab, two scenarios, one run: a late answer to a cancelled run.
SPECIFICATION Spec
CONSTANTS
    a0 = a0  a1 = a1  v1 = v1  v2 = v2  p1 = p1  p2 = p2
    None = None  NoPair = NoPair
    Scenario = {a0, a1}
    Blank = {a0}
    MaxRun = 1
    MaxPollFailures = 2
    MaxCancelAttempts = 1
    Viewer = {}
    Pair = {}
    Unsolvable = {}
    MaxEffect = 0
    MaxEstFailures = 1
INVARIANT
    ResultIsCurrent
CHECK_DEADLOCK FALSE
