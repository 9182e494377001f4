SPECIFICATION Spec
CONSTANTS
    w1 = w1
    w2 = w2
    b1 = b1
    Workers = {w1, w2}
    Batches = {b1}
    MaxRows = 1
    MaxJobs = 2
    MaxAttempts = 2
    MaxClaims = 3
    Statuses = {"SUCCESS", "RATE_LIMITED"}
    LeaseTime = 2
    StaleTime = 2
    LookupMax = 1
    Delay = 1
    MaxTime = 4
    MaxCrashes = 1
SYMMETRY WorkerSymmetry
INVARIANTS ContactIsTheLastClaim JobAgreesWithDelegate
PROPERTIES HistoryIsFinal
CHECK_DEADLOCK FALSE
