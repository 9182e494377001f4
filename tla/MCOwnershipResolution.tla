------------------------ MODULE MCOwnershipResolution ------------------------
(* Small instances of OwnershipResolution for TLC. *)
EXTENDS OwnershipResolution, TLC

CONSTANTS a, b, r1, r2

\* A /16 and a /24 in it, and an AS number.
Tiers == 1 :> 17 @@ 2 :> 25 @@ 3 :> AsnTier
Nested == 1 :> {1, 2} @@ 2 :> {2} @@ 3 :> {}
Reported == 1 :> {} @@ 2 :> {} @@ 3 :> {1}

\* A range finer than a /24, whose octet prefix selects the other half too, and one of
\* its addresses.
HalfBlock == 1 :> 26 @@ 2 :> 34
UpperHalf == 1 :> {3, 4} @@ 2 :> {3}
WholeBlock == 1 :> {1, 2, 3, 4} @@ 2 :> {3}
NotReported == 1 :> {} @@ 2 :> {}

\* Requests run the same code and are compared by nothing.
RequestSymmetry == Permutations(Requests)
=============================================================================
