SPECIFICATION Spec
CONSTANTS
    r1 = r1
    r2 = r2
    b1 = b1
    b2 = b2
    Findings = {1, 2}
    CVEs = {1, 2}
    Requests = {r1, r2}
    Batches = {b1, b2}
    Verdicts = {"listed"}
    Ttl <- Ttls
    MaxTime = 1
    MaxJobs = 2
    BatchSize = 2
    MaxAttempts = 2
    LeaseTime = 1
    Delay = 1
    MaxCves = 1
    HookLimit = 1
    TriggerLimit = 1
    Beginnings <- Attached
    MaxFailures = 1
SYMMETRY ProcessSymmetry
INVARIANTS ScoreNamesItsCves EvidenceReachesScores AnswerOfTheLastAttempt
CHECK_DEADLOCK FALSE
