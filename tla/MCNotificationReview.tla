------------------------ MODULE MCNotificationReview ------------------------
(* Small instances of NotificationReview. *)
EXTENDS NotificationReview, TLC

CONSTANTS ana, rev, adm, h1, h2, t1, t2, addr

Interchangeable == Permutations(Handlers) \cup Permutations(Texts)
=============================================================================
