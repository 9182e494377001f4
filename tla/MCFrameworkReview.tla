-------------------------- MODULE MCFrameworkReview --------------------------
(* Instances of FrameworkReview for TLC. *)
EXTENDS FrameworkReview, TLC

CONSTANTS r1, w1, s1, s2, q1, q2

MCFrameworkOf == [r \in References |-> w1]
Interchangeable == Permutations(Suggestions) \cup Permutations(Requests)
=============================================================================
