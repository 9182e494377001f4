SPECIFICATION FairSpec
CONSTANTS
    w1 = w1
    w2 = w2
    j1 = j1
    j2 = j2
    b1 = b1
    s1 = s1
    s2 = s2
    j3 = j3
    Workers = {w1, w2}
    Jobs = {j1}
    NoJob = NoJob
    SubjectOf <- OwnSubject
    Buckets = {b1}
    BucketOf <- OneBucket
    Configured = {j1}
    Limit <- NoBudget
    Unlimited = Unlimited
    Statuses = {"SUCCESS"}
    MaxAttempts = 2
    LeaseTime = 2
    StaleTime = 2
    LookupMax = 1
    MaxDay = 1
    MaxCrashes = 1
    Prompt = FALSE
INVARIANTS QueuedIsClaimable
PROPERTIES HistoryIsFinal EveryJobSettles EveryAttemptFinishes
CHECK_DEADLOCK FALSE
