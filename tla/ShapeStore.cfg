\* Two requests on two processes over two epochs, of any kind, with two mishaps;
\* the changelog over four epochs, of which any may lack its record at first.
SPECIFICATION MCSpec
CONSTANTS
    r1 = r1  r2 = r2  q1 = q1  q2 = q2
    blue = blue  green = green  torn = torn  stale = stale
    Nothing = Nothing
    Replica = {r1, r2}
    Request = {q1, q2}
    Epoch = {1, 2}
    Shape = {blue, green}
    Garbage = {torn, stale}
    Ops = {"get", "put", "missing", "latest"}
    Concurrency = 1
    MaxMishap = 2
    Epochs = {1, 2, 3, 4}
    DiffShapes <- MCShapes
    Codes = {"x"}
    MaxWindow = 3
    IntermediateReads = 1
    NoRecord = NoRecord  Unread = Unread  Failed = Failed
    NoAnswer = NoAnswer  Network = Network
SYMMETRY Alike
INVARIANTS
    MemoryIsDurable
    GapsComplete
    LatestIsStored
    KeptIsExact
    PagesAgree
PROPERTIES
    ImplementsRecords
CHECK_DEADLOCK FALSE
