\* Scenarios of up to two edits; every live view with its feeds; every read
\* route with two requests; the limiter with two keys and room for one.
SPECIFICATION PagesSpec
CONSTANTS
    A = A  B = B  C = C  la = la  lb = lb  lc = lc  ld = ld
    Nowhere = Nowhere  NewContributor = NewContributor  Absent = Absent
    Metro <- MCMetro
    Location <- MCLocation
    Contributor = {1, 2}
    Device = {1, 2, 3, 4, 5}
    Link = {1, 2, 3, 4}
    User = {1, 2, 3, 4, 5}
    MaxBandwidth = 2
    MaxLatency = 2
    MaxOverride = 4
    Snapshots <- MCSnapshots
    Foreign <- MCForeign
    Counts = {0, 3}
    Rtts = {0, 3}
    MaxEdits = 2
    Views <- ViewNames
    Requests = {r1, r2}
    Programs <- Routes
    MaxLull = 2
    scan = scan  solve = solve
    Keys = {scan, solve}
    Limit <- MCLimit
    Window = 2
    MaxKeys = 1
    MaxAge = 1
INVARIANTS
    ScenarioExact
    PanelIsDemand
    StagedIsAccepted
    ShownIsAnswered
    ServedIsRecent
    OwnBudget
PROPERTY
    RefreshKeepsValues
CHECK_DEADLOCK FALSE
