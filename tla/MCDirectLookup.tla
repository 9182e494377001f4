--------------------------- MODULE MCDirectLookup ---------------------------
(* Small instances of DirectLookup for TLC. *)
EXTENDS DirectLookup, TLC

CONSTANTS w1, w2, j1, j2, j3, b1, s1, s2

SharedSubject == [j \in Jobs |-> IF j = j3 THEN s2 ELSE s1]
OwnSubject == [j \in Jobs |-> j]
OneBucket == [j \in Jobs |-> b1]
BudgetOfOne == [b \in Buckets |-> 1]
NoBudget == [b \in Buckets |-> Unlimited]

\* Workers run the same code and are compared by nothing.
WorkerSymmetry == Permutations(Workers)
=============================================================================
