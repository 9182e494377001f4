--------------------------- MODULE MCRiskSnapshots ---------------------------
(* Instances of RiskSnapshots for TLC. *)
EXTENDS RiskSnapshots, TLC

CONSTANTS r1, r2

OwnerOf(status, confidence, isp, sector) ==
    [status |-> status, confidence |-> confidence, isp |-> isp, sector |-> sector]

Hospital == OwnerOf("OVERRIDDEN", "CONFIRMED", FALSE, "HEALTHCARE")
Carrier == OwnerOf("RESOLVED", "LOW", TRUE, "TELECOM")
Ministry == OwnerOf("RESOLVED", "MEDIUM", FALSE, "GOVERNMENT")
MCOwners == {Hospital, Carrier, Ministry}

Exploited == [kev |-> "LISTED", epss |-> 9500]
Harmless == [kev |-> "UNLISTED", epss |-> 500]
Unanswered == [kev |-> "UNKNOWN", epss |-> Unset]
MCEvidence == {NotAttached, Exploited, Harmless, Unanswered}

MCFirstEvidence ==
    {[c \in CVEs |-> NotAttached], [c \in CVEs |-> IF c = 1 THEN Exploited ELSE Harmless]}

Interchangeable == Permutations(Requests)
=============================================================================
