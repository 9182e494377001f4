SPECIFICATION ScoreSpec
CONSTANTS
    r1 = r1
    r2 = r2
    Requests = {r1, r2}
    Instants = {0, 7, 30}
    FirstDays = {0, 7}
    Service = "TCP/3389"
    Owners <- MCOwners
    CVEs = {1, 2}
    Evidence <- MCEvidence
    FirstEvidence <- MCFirstEvidence
    Confidences = {0, 80}
    Ttl = 1
    MaxTroubles = 1
INVARIANTS ExplanationIsOfTheEvidence
PROPERTIES FallIsExplained
SYMMETRY Interchangeable
CHECK_DEADLOCK FALSE
