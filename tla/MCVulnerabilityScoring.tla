------------------------ MODULE MCVulnerabilityScoring ------------------------
(* Small instances of VulnerabilityScoring for TLC. *)
EXTENDS VulnerabilityScoring, TLC

CONSTANTS r1, r2, b1, b2

\* A verdict stays fresh for one unit of time, like a failure.
Ttls == "listed" :> 1 @@ Failed :> 1

\* One CVE for each finding: what is attached besides is beyond the cap of one, or takes its place.
Attached == {1 :> {1} @@ 2 :> {2}}

\* Requests and batches run the same code and are compared by nothing.
ProcessSymmetry == Permutations(Requests) \cup Permutations(Batches)
=============================================================================
