------------------------- MODULE MCReportIngestion --------------------------
(* Two files: the older tells of one finding twice and has an invalid row; *)
(* the newer tells of it again and of another.  Either may arrive first.   *)
EXTENDS ReportIngestion, TLC

CONSTANTS old, new, rdp, other, u1, u2

FileContent == (old :> << [finding |-> rdp, at |-> 1], [finding |-> None, at |-> 1],
                          [finding |-> rdp, at |-> 2] >>)
            @@ (new :> << [finding |-> rdp, at |-> 3], [finding |-> other, at |-> 3] >>)

Concurrent == Permutations(Uploads)
=============================================================================
