SPECIFICATION Spec
CONSTANTS
    w1 = w1
    w2 = w2
    j1 = j1
    j2 = j2
    b1 = b1
    s1 = s1
    s2 = s2
    j3 = j3
    Workers = {w1, w2}
    Jobs = {j1, j2, j3}
    NoJob = NoJob
    SubjectOf <- SharedSubject
    Buckets = {b1}
    BucketOf <- OneBucket
    Configured = {j1, j2}
    Limit <- BudgetOfOne
    Unlimited = Unlimited
    Statuses = {"SUCCESS", "FAILED"}
    MaxAttempts = 2
    LeaseTime = 2
    StaleTime = 2
    LookupMax = 1
    MaxDay = 2
    MaxCrashes = 2
    Prompt = TRUE
SYMMETRY WorkerSymmetry
INVARIANTS AtMostOneCall CallsAreAccountedFor ContactSettlesJob DeadLetterReasonIsTrue LedgerMatchesUsage
PROPERTIES KeepsPromise
CHECK_DEADLOCK FALSE
