-------------------------- MODULE MCDelegatedLookup --------------------------
(* Small instances of DelegatedLookup for TLC. *)
EXTENDS DelegatedLookup, TLC

CONSTANTS w1, w2, b1

\* Workers run the same code and are compared by nothing.
WorkerSymmetry == Permutations(Workers)
=============================================================================
