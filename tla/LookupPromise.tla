---------------------------- MODULE LookupPromise ----------------------------
(***************************************************************************)
(* What the enrichment runner promises the Findings that ask: every        *)
(* question is open for at most one job at a time, is put to its provider  *)
(* at most once, and is settled once, with an answer only if it was asked  *)
(* and with "never asked" only if it was not.                              *)
(*                                                                         *)
(* phase is derived from ProviderLookupJob.state and asked from the calls  *)
(* that left the process; nothing here knows of leases, attempts, workers, *)
(* crashes or time.                                                        *)
(***************************************************************************)
CONSTANTS Jobs, SubjectOf

VARIABLES phase, asked

Phases == {"absent", "queued", "answered", "not_asked", "unknown"}

Init ==
    /\ phase = [j \in Jobs |-> "absent"]
    /\ asked = [j \in Jobs |-> FALSE]

Queue(j) ==
    /\ phase[j] = "absent"
    /\ ~ \E i \in Jobs : phase[i] = "queued" /\ SubjectOf[i] = SubjectOf[j]
    /\ phase' = [phase EXCEPT ![j] = "queued"]
    /\ UNCHANGED asked

Ask(j) ==
    /\ phase[j] = "queued" /\ ~asked[j]
    /\ asked' = [asked EXCEPT ![j] = TRUE]
    /\ UNCHANGED phase

Settle(j) ==
    /\ phase[j] = "queued"
    /\ \E p \in (IF asked[j] THEN {"answered", "unknown"} ELSE {"not_asked", "unknown"}) :
         phase' = [phase EXCEPT ![j] = p]
    /\ UNCHANGED asked

Next == \E j \in Jobs : Queue(j) \/ Ask(j) \/ Settle(j)

Spec == Init /\ [][Next]_<<phase, asked>>
=============================================================================
