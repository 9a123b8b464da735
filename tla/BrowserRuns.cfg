\* Two runs of one tab; or two viewers with two selections between them.
SPECIFICATION FairSpec
CONSTANTS
    a0 = a0  a1 = a1  v1 = v1  v2 = v2  p1 = p1  p2 = p2
    None = None  NoPair = NoPair
    Scenario = {a0, a1}
    Blank = {a0}
    MaxRun = 2
    MaxPollFailures = 2
    MaxCancelAttempts = 1
    Viewer = {v1, v2}
    Pair = {p1, p2}
    Unsolvable = {p2}
    MaxEffect = 2
    MaxEstFailures = 2
INVARIANTS
    BusyIsLive
    JobsTracked
    ShownIsSelected
    EstimatesTracked
PROPERTIES
    EndsWithVerdict
    LoopsEnd
    LoadingEnds
CHECK_DEADLOCK FALSE
