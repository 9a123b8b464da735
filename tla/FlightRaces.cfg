\* Three requests for three inputs, one of them rejected, on two processes.
SPECIFICATION Spec
CONSTANTS
    p1 = p1  p2 = p2  q1 = q1  q2 = q2  q3 = q3  h1 = h1  h2 = h2  h3 = h3
    None = None
    Process = {p1, p2}
    Request = {q1, q2, q3}
    Hash = {h1, h2, h3}
    Unsolvable = {h3}
    MaxDisconnect = 1
    MaxMishap = 1
SYMMETRY Alike
INVARIANTS
    OneSolver
    OwnValues
    NotSolvedAgain
CHECK_DEADLOCK FALSE
