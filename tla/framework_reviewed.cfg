SPECIFICATION Spec
CONSTANTS
    r1 = r1
    w1 = w1
    s1 = s1
    s2 = s2
    q1 = q1
    q2 = q2
    Findings = {f1}
    References = {r1}
    Frameworks = {w1}
    FrameworkOf <- MCFrameworkOf
    Suggestions = {s1, s2}
    Requests = {q1, q2}
    MaxEvidence = 1
    MaxRows = 2
INVARIANTS DeterminationsExclude PromotionsAreDecisions
PROPERTIES DecidedOnce
SYMMETRY Interchangeable
