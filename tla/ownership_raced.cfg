SPECIFICATION Spec
CONSTANTS
    a = a
    b = b
    r1 = r1
    r2 = r2
    Findings = {1, 2}
    Mappings = {1, 2, 3}
    Orgs = {a, b}
    Tier <- Tiers
    Inside <- Nested
    Prefixed <- Nested
    ReportedAs <- Reported
    Requests = {r1, r2}
    Take = 1
    MaxTries = 2
    MaxDeaths = 1
SYMMETRY RequestSymmetry
INVARIANTS StaleOnlyWhenExcused
PROPERTIES OverrideStands
CHECK_DEADLOCK FALSE
