--------------------------- MODULE MCCaseWorkflow ---------------------------
(* Small instances of CaseWorkflow. *)
EXTENDS CaseWorkflow, TLC

CONSTANTS c1, c2, f1, o1, o2, org1, org2, ana, rev, adm, r1, r2, p1, h1, h2

OneOrg == [c \in Cases |-> org1]
OneFinding == [o \in Occurrences |-> f1]

Interchangeable == Permutations(Requests) \cup Permutations(Handlers)
=============================================================================
