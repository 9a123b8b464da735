\* Three requests for one input; one may leave, one call or task may be lost.
SPECIFICATION FairSpec
CONSTANTS
    p1 = p1  p2 = p2  q1 = q1  q2 = q2  q3 = q3  h1 = h1  h2 = h2  h3 = h3
    None = None
    Process = {p1}
    Request = {q1, q2, q3}
    Hash = {h1}
    Unsolvable = {}
    MaxDisconnect = 1
    MaxMishap = 1
PROPERTIES
    Answered
    ResultLands
CHECK_DEADLOCK FALSE
