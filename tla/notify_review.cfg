SPECIFICATION Spec
CONSTANTS
    ana = ana
    rev = rev
    adm = adm
    h1 = h1
    h2 = h2
    t1 = t1
    t2 = t2
    addr = addr
    Users = {ana, adm}
    Handlers = {h1, h2}
    Texts = {t1}
    Addresses = {addr}
    None = None
    Managers = {ana, adm}
    Reviewers = {ana, adm}
    SelfApprovers = {adm}
    MaxRevisions = 2
    MaxExports = 1
    MaxDeliveries = 1
SYMMETRY Interchangeable
INVARIANTS ApprovalIsCurrent ExportsWereApproved TimelineExplains
PROPERTIES ApprovedAsRead
CHECK_DEADLOCK FALSE
