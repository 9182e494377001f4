SPECIFICATION FairRunSpec
CONSTANTS
    k1 = k1
    k2 = k2
    q1 = q1
    q2 = q2
    w1 = w1
    Runs = {k1}
    NTargets = 2
    Scope <- BothTargets
    Forced = {}
    Refused <- FirstRefused
    Delegated = {}
    Requests = {q1, q2}
    Workers = {w1}
    MaxJobs = 2
    MaxReturns = 1
    MaxDeaths = 1
PROPERTIES RunsConclude
CHECK_DEADLOCK FALSE
