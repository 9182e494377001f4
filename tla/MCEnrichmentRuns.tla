--------------------------- MODULE MCEnrichmentRuns ---------------------------
(* Small instances of EnrichmentRuns for TLC. *)
EXTENDS EnrichmentRuns, TLC

CONSTANTS k1, k2, q1, q2, w1

\* Two findings that share a subject: one run asks about both targets, the other about
\* the shared one.
Scopes == k1 :> {1, 2} @@ k2 :> {2}
NoRefusals == k1 :> {} @@ k2 :> {}
\* One run, one of whose targets is refused.
BothTargets == k1 :> {1, 2}
FirstRefused == k1 :> {1}

\* Requests run the same code and are compared by nothing.
RequestSymmetry == Permutations(Requests)
=============================================================================
