SPECIFICATION RunSpec
CONSTANTS
    k1 = k1
    k2 = k2
    q1 = q1
    q2 = q2
    w1 = w1
    Runs = {k1, k2}
    NTargets = 2
    Scope <- Scopes
    Forced = {k2}
    Refused <- NoRefusals
    Delegated = {1}
    Requests = {q1, q2}
    Workers = {w1}
    MaxJobs = 2
    MaxReturns = 0
    MaxDeaths = 1
SYMMETRY RequestSymmetry
INVARIANTS AnsweredRunIsWhole WorkIsNew
CHECK_DEADLOCK FALSE
