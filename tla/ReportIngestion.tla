--------------------------- MODULE ReportIngestion --------------------------
(***************************************************************************)
(* The ingestion of accessible-RDP reports and the finding spine it feeds. *)
(*                                                                         *)
(* A file is known by the digest of its bytes.  An upload reads what is    *)
(* stored of the file, and then creates, begins, fills and finishes the    *)
(* report in separate statements: two uploads of the same file interleave, *)
(* and either may fail or die anywhere.  Only the observation of a finding *)
(* is a (serializable) transaction, and so one action.                     *)
(*                                                                         *)
(* Ownership, enrichment and risk run between these steps and never throw  *)
(* into them; the cases a recurrence reopens are in CaseWorkflow.          *)
(***************************************************************************)
EXTENDS Integers, Sequences, FiniteSets

CONSTANTS
    Files,       \* by digest
    Findings,
    Uploads,     \* concurrent uploads
    Times,       \* times of observation
    None,
    Content,     \* the rows of a file: the finding of each, None if it is invalid, and its time
    MaxTroubles  \* bound on the attempts that end in an error or die

VARIABLES
    report,      \* RawReport.status, by file
    rows,        \* RawReportRow, by file
    finding,     \* Finding
    occurrence,  \* FindingOccurrence, by finding and file
    upload,      \* where each upload stands
    offered,     \* recurrences handed to the reopening of cases
    failures,
    crashes

vars == <<report, rows, finding, occurrence, upload, offered, failures, crashes>>

RowNumbers(f) == DOMAIN Content[f]
Group(f, g) == {n \in RowNumbers(f) : Content[f][n].finding = g}
FindingsOf(f) == {Content[f][n].finding : n \in RowNumbers(f)} \ {None}

Succeeded == {"COMPLETED", "PARTIALLY_VALID"}
Idle == [pc |-> "idle", file |-> None, todo |-> {}, rows |-> {}, reopened |-> {}]

\* A file none of whose rows is valid is refused before anything is stored; dates end.
ParamsAssumption ==
    /\ Times \subseteq Nat
    /\ \E last \in Times : \A t \in Times : t <= last
    /\ None \notin Findings \cup Files \cup Times
    /\ Content \in [Files -> Seq([finding: Findings \cup {None}, at: Times])]
    /\ \A f \in Files : FindingsOf(f) # {}
    /\ MaxTroubles \in Nat
ASSUME Params == ParamsAssumption

Init ==
    /\ report = [f \in Files |-> "ABSENT"]
    /\ rows = [f \in Files |-> {}]
    /\ finding = [g \in Findings |-> [status |-> "ABSENT", firstSeen |-> None, lastSeen |-> None,
                                      occurrences |-> 0, recurrences |-> 0, through |-> None]]
    /\ occurrence = [k \in Findings \X Files |-> [action |-> "NONE", at |-> None]]
    /\ upload = [u \in Uploads |-> Idle]
    /\ offered = {}
    /\ failures = 0
    /\ crashes = 0

-----------------------------------------------------------------------------
(* The identity of a file and the row of its report.                       *)

\* Slip: a failed report counts as one already processed.
RetryableIfReceived(s) == s = "RECEIVED"

Retryable(s) == s \in {"FAILED", "RECEIVED"}

GoTo(u, pc) == upload' = [upload EXCEPT ![u].pc = pc]

\* A duplicate of a report that is processed, or in process, ends here.
ReceiveUpload(u, f) ==
    /\ upload[u].pc = "idle"
    /\ report[f] = "ABSENT" \/ Retryable(report[f])
    /\ upload' = [upload EXCEPT ![u] =
         [Idle EXCEPT !.pc = IF report[f] = "ABSENT" THEN "creating" ELSE "beginning", !.file = f]]
    /\ UNCHANGED <<report, rows, finding, occurrence, offered, failures, crashes>>

\* The unique digest decides a race; the loser works on from what it finds.
CreateRawReport(u) ==
    LET f == upload[u].file IN
    /\ upload[u].pc = "creating"
    /\ report' = IF report[f] = "ABSENT" THEN [report EXCEPT ![f] = "RECEIVED"] ELSE report
    /\ IF report[f] = "ABSENT" \/ Retryable(report[f])
       THEN GoTo(u, "beginning")
       ELSE upload' = [upload EXCEPT ![u] = Idle]
    /\ UNCHANGED <<rows, finding, occurrence, offered, failures, crashes>>

\* The status is not looked at again.
BeginProcessing(u) ==
    LET f == upload[u].file IN
    /\ upload[u].pc = "beginning"
    /\ report' = [report EXCEPT ![f] = "PROCESSING"]
    /\ upload' = [upload EXCEPT ![u].pc = "working", ![u].todo = FindingsOf(f),
                                ![u].rows = Group(f, None)]
    /\ UNCHANGED <<rows, finding, occurrence, offered, failures, crashes>>

-----------------------------------------------------------------------------
(* The rows and the findings.                                              *)

\* Slip: the first row of a group stands for it, not the latest.
FirstRow(f, g) ==
    CHOOSE n \in Group(f, g) : \A m \in Group(f, g) : n <= m

\* The latest row of a group, and the first of those.
CanonicalRow(f, g) ==
    CHOOSE n \in Group(f, g) :
        \A m \in Group(f, g) :
            \/ Content[f][m].at < Content[f][n].at
            \/ Content[f][m].at = Content[f][n].at /\ n <= m

Row(f, n) ==
    LET g == Content[f][n].finding IN
    [row |-> n, finding |-> g, duplicate |-> g # None /\ n # CanonicalRow(f, g)]

IsNewRow(f, n) == \A r \in rows[f] : r.row # n

PersistRow(u) ==
    LET f == upload[u].file IN
    /\ upload[u].pc = "working"
    /\ upload[u].rows # {}
    /\ LET n == CHOOSE m \in upload[u].rows : \A k \in upload[u].rows : m <= k IN
         /\ rows' = IF IsNewRow(f, n) THEN [rows EXCEPT ![f] = @ \cup {Row(f, n)}] ELSE rows
         /\ upload' = [upload EXCEPT ![u].rows = @ \ {n}]
    /\ UNCHANGED <<report, finding, occurrence, offered, failures, crashes>>

\* Slip: an observation at the time of the closure reopens.
ReopenedAtClosure(g, at) ==
    IF finding[g].status = "ABSENT" THEN "CREATED"
    ELSE IF finding[g].status = "CLOSED"
         THEN IF at >= finding[g].through THEN "RECURRED" ELSE "HISTORICAL"
         ELSE IF at < finding[g].lastSeen THEN "HISTORICAL" ELSE "PERSISTED"

Classified(g, at) ==
    IF finding[g].status = "ABSENT" THEN "CREATED"
    ELSE IF finding[g].status = "CLOSED"
         THEN IF at > finding[g].through THEN "RECURRED" ELSE "HISTORICAL"
         ELSE IF at < finding[g].lastSeen THEN "HISTORICAL" ELSE "PERSISTED"

Earlier(s, t) == IF s <= t THEN s ELSE t
Later(s, t) == IF s <= t THEN t ELSE s

Projection(g, at, action) ==
    IF action = "CREATED"
    THEN [status |-> "OPEN", firstSeen |-> at, lastSeen |-> at,
          occurrences |-> 1, recurrences |-> 0, through |-> None]
    ELSE [finding[g] EXCEPT
            !.firstSeen = Earlier(@, at), !.lastSeen = Later(@, at), !.occurrences = @ + 1,
            !.status = IF action = "RECURRED" THEN "OPEN" ELSE @,
            !.recurrences = IF action = "RECURRED" THEN @ + 1 ELSE @,
            !.through = IF action = "RECURRED" THEN None ELSE @]

\* Slip: a replay is taken for a new observation.
NeverReplayed(g, f) == FALSE

Replayed(g, f) == occurrence[<<g, f>>].action # "NONE"

\* Slip: a replay answers with what the observation would be now.
ActionNow(g, f, at) == Classified(g, at)

\* What the transaction answers: on a replay, the action stored by the first.
ActionTaken(g, f, at) == IF Replayed(g, f) THEN occurrence[<<g, f>>].action ELSE Classified(g, at)

RecordFindingObservation(u) ==
    LET f == upload[u].file
        g == CHOOSE x \in upload[u].todo : TRUE
        at == Content[f][CanonicalRow(f, g)].at
        action == ActionTaken(g, f, at) IN
    /\ upload[u].pc = "working"
    /\ upload[u].rows = {} /\ upload[u].todo # {}
    /\ IF Replayed(g, f)
       THEN UNCHANGED <<finding, occurrence>>
       ELSE /\ finding' = [finding EXCEPT ![g] = Projection(g, at, Classified(g, at))]
            /\ occurrence' = [occurrence EXCEPT ![<<g, f>>] =
                                [action |-> Classified(g, at), at |-> at]]
    /\ upload' = [upload EXCEPT ![u].todo = @ \ {g}, ![u].rows = Group(f, g),
                                ![u].reopened = IF action = "RECURRED" THEN @ \cup {g} ELSE @]
    /\ UNCHANGED <<report, rows, offered, failures, crashes>>

-----------------------------------------------------------------------------
(* How an attempt ends.                                                    *)

FinishReport(u) ==
    LET f == upload[u].file IN
    /\ upload[u].pc = "working"
    /\ upload[u].rows = {} /\ upload[u].todo = {}
    /\ report' = [report EXCEPT ![f] =
                    IF Group(f, None) = {} THEN "COMPLETED" ELSE "PARTIALLY_VALID"]
    /\ GoTo(u, "concluding")
    /\ UNCHANGED <<rows, finding, occurrence, offered, failures, crashes>>

\* The last step of an upload.
ReopenCases(u) ==
    /\ upload[u].pc = "concluding"
    /\ offered' = offered \cup (upload[u].reopened \X {upload[u].file})
    /\ upload' = [upload EXCEPT ![u] = Idle]
    /\ UNCHANGED <<report, rows, finding, occurrence, failures, crashes>>

\* Any exception while working, the row another upload has just stored among them.
FailReport(u) ==
    /\ upload[u].pc = "working"
    /\ failures + crashes < MaxTroubles
    /\ failures' = failures + 1
    /\ report' = [report EXCEPT ![upload[u].file] = "FAILED"]
    /\ upload' = [upload EXCEPT ![u] = Idle]
    /\ UNCHANGED <<rows, finding, occurrence, offered, crashes>>

\* The process dies, or a statement outside the guarded part throws.
Crash(u) ==
    /\ upload[u].pc # "idle"
    /\ failures + crashes < MaxTroubles
    /\ crashes' = crashes + 1
    /\ upload' = [upload EXCEPT ![u] = Idle]
    /\ UNCHANGED <<report, rows, finding, occurrence, offered, failures>>

\* Closing a finding has no service yet; whoever closes one sets both columns.
CloseFinding(g, t) ==
    /\ finding[g].status = "OPEN"
    /\ finding' = [finding EXCEPT ![g].status = "CLOSED", ![g].through = t]
    /\ UNCHANGED <<report, rows, occurrence, upload, offered, failures, crashes>>

Proceed(u) ==
    \/ CreateRawReport(u) \/ BeginProcessing(u)
    \/ PersistRow(u) \/ RecordFindingObservation(u)
    \/ FinishReport(u) \/ ReopenCases(u)

Receive(f) == \E u \in Uploads : ReceiveUpload(u, f)

Next ==
    \/ \E u \in Uploads : Proceed(u) \/ FailReport(u) \/ Crash(u)
    \/ \E f \in Files : Receive(f)
    \/ \E g \in Findings, t \in Times : CloseFinding(g, t)

Spec == Init /\ [][Next]_vars

\* An upload runs to its end, and a file is uploaded again for as long as that can help.
FairSpec ==
    /\ Spec
    /\ \A u \in Uploads : WF_vars(Proceed(u))
    /\ \A f \in Files : SF_vars(Receive(f))
-----------------------------------------------------------------------------
Statuses == {"ABSENT", "RECEIVED", "PROCESSING", "FAILED"} \cup Succeeded
Actions == {"CREATED", "PERSISTED", "RECURRED", "HISTORICAL"}
FindingRow == [status: {"ABSENT", "OPEN", "CLOSED"},
               firstSeen: Times \cup {None}, lastSeen: Times \cup {None},
               occurrences: Nat, recurrences: Nat, through: Times \cup {None}]
OccurrenceRow == [action: Actions \cup {"NONE"}, at: Times \cup {None}]
Upload == [pc: {"idle", "creating", "beginning", "working", "concluding"},
           file: Files \cup {None}, todo: SUBSET Findings,
           rows: SUBSET Nat, reopened: SUBSET Findings]

\* Rows are well formed; a finding tells of a closure exactly while it is closed,
\* without which the next observation of it throws.
TypeOK ==
    /\ report \in [Files -> Statuses]
    /\ rows \in [Files -> SUBSET [row: Nat, finding: Findings \cup {None}, duplicate: BOOLEAN]]
    /\ \A f \in Files : rows[f] \subseteq {Row(f, n) : n \in RowNumbers(f)}
    /\ finding \in [Findings -> FindingRow]
    /\ \A g \in Findings : /\ finding[g].status = "CLOSED" <=> finding[g].through # None
                           /\ finding[g].status = "ABSENT" <=> finding[g].firstSeen = None
                           /\ finding[g].status = "ABSENT" <=> finding[g].lastSeen = None
    /\ occurrence \in [Findings \X Files -> OccurrenceRow]
    /\ upload \in [Uploads -> Upload]
    /\ offered \subseteq Findings \X Files
    /\ failures \in Nat /\ crashes \in Nat /\ failures + crashes <= MaxTroubles

Seen(g) == {f \in Files : occurrence[<<g, f>>].action # "NONE"}

\* The columns of a finding can be derived from its occurrences, whatever was replayed,
\* retried, or arrived out of order: one occurrence created it, the counts and the
\* first and last sighting are those of the rows.
ProjectionsMatchEvidence ==
    \A g \in Findings :
        LET With(a) == {f \in Seen(g) : occurrence[<<g, f>>].action = a}
            At == {occurrence[<<g, f>>].at : f \in Seen(g)} IN
        /\ finding[g].occurrences = Cardinality(Seen(g))
        /\ finding[g].recurrences = Cardinality(With("RECURRED"))
        /\ Cardinality(With("CREATED")) = IF finding[g].status = "ABSENT" THEN 0 ELSE 1
        /\ Seen(g) # {} =>
             /\ finding[g].firstSeen \in At /\ \A t \in At : finding[g].firstSeen <= t
             /\ finding[g].lastSeen \in At /\ \A t \in At : t <= finding[g].lastSeen

\* A report that claims success has all its evidence, even when it took several
\* attempts: every row is there, and every finding named in it has an occurrence, at
\* the latest time the report gives and shown by exactly one row.
SuccessIsComplete ==
    \A f \in Files : report[f] \in Succeeded =>
        /\ {r.row : r \in rows[f]} = RowNumbers(f)
        /\ \A g \in FindingsOf(f) :
             /\ f \in Seen(g)
             /\ occurrence[<<g, f>>].at \in {Content[f][n].at : n \in Group(f, g)}
             /\ \A n \in Group(f, g) : Content[f][n].at <= occurrence[<<g, f>>].at
             /\ \E r \in rows[f] :
                  /\ r.finding = g /\ ~r.duplicate
                  /\ Content[f][r.row].at = occurrence[<<g, f>>].at
                  /\ \A q \in rows[f] : q.finding = g /\ q # r => q.duplicate

\* Whichever attempt concludes a report hands over all its recurrences, those an
\* earlier attempt recorded before it failed among them.
RecurrencesAreCarried ==
    \A u \in Uploads : upload[u].pc = "concluding" =>
        upload[u].reopened = {g \in FindingsOf(upload[u].file) :
                                occurrence[<<g, upload[u].file>>].action = "RECURRED"}

Reopens(g) == finding[g].status = "CLOSED" /\ finding'[g].status = "OPEN"

\* Each reopening of a finding is one recurrence, by evidence newer than its closure;
\* stored rows and occurrences are never touched again.
ReopeningsAreEvidenced ==
    [][ /\ \A k \in Findings \X Files :
             occurrence[k].action # "NONE" => occurrence'[k] = occurrence[k]
        /\ \A f \in Files : rows[f] \subseteq rows'[f]
        /\ \A g \in Findings :
             /\ Reopens(g) <=> finding'[g].recurrences # finding[g].recurrences
             /\ Reopens(g) => \E f \in Files : /\ occurrence[<<g, f>>].action = "NONE"
                                              /\ occurrence'[<<g, f>>].action = "RECURRED"
                                              /\ occurrence'[<<g, f>>].at > finding[g].through ]_vars

\* As long as no upload dies, a file that is uploaded again after an error is processed
\* to its end.
RetriesConclude ==
    [](crashes = 0) => \A f \in Files : report[f] # "ABSENT" ~> report[f] \in Succeeded

\* A report that was processed stays processed.
SuccessStands ==
    [][ \A f \in Files : report[f] \in Succeeded => report'[f] = report[f] ]_vars

\* The recurrences of a processed report reach the cases, by a later upload if not by
\* the first.
RecurrencesReachCases ==
    \A k \in Findings \X Files :
        occurrence[k].action = "RECURRED" /\ report[k[2]] \in Succeeded ~> k \in offered
=============================================================================
