SPECIFICATION FairSpec
CONSTANTS
    old = old
    new = new
    rdp = rdp
    other = other
    u1 = u1
    u2 = u2
    Files = {old, new}
    Findings = {rdp, other}
    Uploads = {u1, u2}
    Times = {1, 2, 3}
    None = None
    Content <- FileContent
    MaxTroubles = 1
INVARIANTS ProjectionsMatchEvidence SuccessIsComplete RecurrencesAreCarried
PROPERTIES ReopeningsAreEvidenced RetriesConclude
CHECK_DEADLOCK FALSE
