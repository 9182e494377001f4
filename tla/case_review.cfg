SPECIFICATION Spec
CONSTANTS
    c1 = c1
    c2 = c2
    f1 = f1
    o1 = o1
    o2 = o2
    org1 = org1
    org2 = org2
    ana = ana
    rev = rev
    adm = adm
    r1 = r1
    r2 = r2
    p1 = p1
    h1 = h1
    h2 = h2
    Cases = {c1}
    Findings = {f1}
    Users = {ana, adm}
    Orgs = {org1, org2}
    Requests = {r1, r2}
    Responses = {p1}
    Occurrences = {o1}
    Handlers = {h1, h2}
    None = None
    OrgOf <- OneOrg
    FindingOf <- OneFinding
    Managers = {ana, adm}
    Reviewers = {ana, adm}
    SelfApprovers = {adm}
    Reasons = {"REMEDIATED", "ACCEPTED_RISK"}
    MaxEvents = 7
SYMMETRY Interchangeable
INVARIANTS PendingIffUnderReview ClosureWasReviewed TimelineAccounts
PROPERTIES LinksMatchOwnership HumanClosureStands
CHECK_DEADLOCK FALSE
