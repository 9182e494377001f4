------------------------ MODULE IngestionAndRunsProofs -----------------------
(***************************************************************************)
(* Theorems about two components that share nothing but this module.       *)
(*                                                                         *)
(* Those about ReportIngestion hold for every number of files, findings    *)
(* and concurrent uploads, and for every content of the files.             *)
(*                                                                         *)
(* Those about EnrichmentRuns, from "Enrichment runs" on, hold for any     *)
(* keys, targets, requests and workers.  Their inductive invariant says    *)
(* what a request that stopped between two statements may rely on: once it *)
(* has listed the items of its run, each target of the key has an item or  *)
(* is still to be done; and an item about to be written has a job that was *)
(* not over when the run was created, since jobs that are over stay so.    *)
(***************************************************************************)
EXTENDS ReportIngestion, EnrichmentRuns, FiniteSetTheorems, WellFoundedInduction, TLAPS

-----------------------------------------------------------------------------
(* The rows of a file.                                                     *)

LEMMA LeastNatural ==
    ASSUME NEW T \in SUBSET Nat, T # {}
    PROVE  \E x \in T : \A y \in T : x <= y
<1> DEFINE R == {p \in Nat \X Nat : p[1] < p[2]}
<1>1. IsWellFoundedOn(R, Nat)
  BY NatLessThanWellFounded DEF OpToRel
<1> HIDE DEF R
<1>2. PICK x \in T : \A y \in T : ~ (<<y, x>> \in R)
  BY <1>1, WFMin
<1>3. \A y \in T : <<y, x>> \in R <=> y < x
  BY DEF R
<1>4. ASSUME NEW y \in T
      PROVE  x <= y
  <2>1. ~ (y < x) /\ x \in Nat /\ y \in Nat
    BY <1>2, <1>3
  <2>2. QED
    BY <2>1
<1>5. QED
  BY <1>4

LEMMA Elements ==
    ASSUME NEW S, NEW s \in Seq(S)
    PROVE  DOMAIN s \subseteq Nat /\ \A n \in DOMAIN s : s[n] \in S
<1>1. DOMAIN s = 1 .. Len(s) /\ Len(s) \in Nat
  OBVIOUS
<1>2. QED
  BY <1>1

LEMMA ContentTyped ==
    ASSUME NEW f \in Files
    PROVE  /\ RowNumbers(f) \subseteq Nat
           /\ \A n \in RowNumbers(f) : /\ Content[f][n].finding \in Findings \cup {None}
                                       /\ Content[f][n].at \in Times
           /\ FindingsOf(f) \subseteq Findings
           /\ \A g : Group(f, g) \subseteq RowNumbers(f)
<1>1. Content[f] \in Seq([finding: Findings \cup {None}, at: Times])
  BY Params DEF ParamsAssumption
<1>2. \A n \in RowNumbers(f) : n \in Nat /\ Content[f][n] \in [finding: Findings \cup {None}, at: Times]
  BY <1>1, Elements DEF RowNumbers
<1>3. QED
  BY <1>2 DEF FindingsOf, Group

\* A group that has a row has a latest one, and a first of those.
LEMMA CanonicalIsLatest ==
    ASSUME NEW f \in Files, NEW g, Group(f, g) # {}
    PROVE  /\ CanonicalRow(f, g) \in Group(f, g)
           /\ \A m \in Group(f, g) : Content[f][m].at <= Content[f][CanonicalRow(f, g)].at
<1>1. PICK last \in Nat : \A t \in Times : t <= last
  BY Params DEF ParamsAssumption
<1>2. /\ Group(f, g) \subseteq Nat
      /\ \A m \in Group(f, g) : Content[f][m].at \in Nat /\ Content[f][m].at <= last
  BY <1>1, ContentTyped, Params DEF ParamsAssumption
<1> DEFINE Before == {last - Content[f][m].at : m \in Group(f, g)}
<1>3. Before \in SUBSET Nat /\ Before # {}
  BY <1>2
<1>4. PICK b \in Before : \A y \in Before : b <= y
  BY <1>3, LeastNatural
<1>5. PICK k \in Group(f, g) : b = last - Content[f][k].at
  BY <1>4
<1>6. ASSUME NEW m \in Group(f, g)
      PROVE  Content[f][m].at <= Content[f][k].at
  <2>1. b <= last - Content[f][m].at
    BY <1>4
  <2>2. QED
    BY <2>1, <1>2, <1>5
<1> DEFINE Latest == {m \in Group(f, g) : Content[f][m].at = Content[f][k].at}
<1>7. Latest \in SUBSET Nat /\ Latest # {}
  BY <1>2, <1>5
<1>8. PICK n \in Latest : \A y \in Latest : n <= y
  BY <1>7, LeastNatural
<1> DEFINE Best(x) == \A m \in Group(f, g) :
                         \/ Content[f][m].at < Content[f][x].at
                         \/ Content[f][m].at = Content[f][x].at /\ x <= m
<1>9. n \in Group(f, g) /\ Best(n)
  <2> SUFFICES ASSUME NEW m \in Group(f, g), Content[f][m].at # Content[f][n].at
               PROVE  Content[f][m].at < Content[f][n].at
    BY <1>8
  <2>1. Content[f][m].at <= Content[f][n].at
    BY <1>6, <1>8
  <2>2. QED
    BY <2>1, <1>2, <1>8
<1>10. CanonicalRow(f, g) \in Group(f, g) /\ Best(CanonicalRow(f, g))
  BY <1>9 DEF CanonicalRow
<1>11. QED
  BY <1>10, <1>2

-----------------------------------------------------------------------------
(* The inductive invariant.                                                *)

Persisted(f) == {r.row : r \in rows[f]}

\* All the evidence of a file is stored.
Whole(f) ==
    /\ RowNumbers(f) \subseteq Persisted(f)
    /\ \A g \in FindingsOf(f) : Replayed(g, f)

Recurred(f) == {g \in FindingsOf(f) : occurrence[<<g, f>>].action = "RECURRED"}

\* What an upload has not still to do is done, by itself or by an earlier attempt, and
\* it has noted the recurrences of it.
Knows(u) ==
    LET f == upload[u].file
        todo == upload[u].todo IN
    /\ upload[u].pc # "idle" => f \in Files
    /\ upload[u].pc \in {"creating", "beginning"} => upload[u].reopened = {}
    /\ upload[u].pc = "working" =>
         /\ todo \subseteq FindingsOf(f) /\ upload[u].rows \subseteq RowNumbers(f)
         /\ \A n \in RowNumbers(f) :
              n \in Persisted(f) \/ n \in upload[u].rows \/ Content[f][n].finding \in todo
         /\ \A g \in FindingsOf(f) \ todo : Replayed(g, f)
         /\ upload[u].reopened = Recurred(f) \ todo
    /\ upload[u].pc = "concluding" => Whole(f) /\ upload[u].reopened = Recurred(f)

UploadsKnow == \A u \in Uploads : Knows(u)

SuccessIsWhole == \A f \in Files : report[f] \in Succeeded => Whole(f)

\* A finding is observed in a file at the latest time the file gives it.
ObservedAtLatest ==
    \A f \in Files : \A g \in Findings : Replayed(g, f) =>
        /\ g \in FindingsOf(f)
        /\ occurrence[<<g, f>>].at = Content[f][CanonicalRow(f, g)].at

IInv == TypeOK /\ UploadsKnow /\ SuccessIsWhole /\ ObservedAtLatest

\* No step forgets evidence.
Grows ==
    /\ \A f \in Files : rows[f] \subseteq rows'[f]
    /\ \A k \in Findings \X Files : occurrence[k].action # "NONE" => occurrence'[k] = occurrence[k]

LEMMA InitHolds == Init => IInv
<1> SUFFICES ASSUME Init PROVE IInv
  OBVIOUS
<1>1. TypeOK
  BY Params DEF Init, TypeOK, ParamsAssumption, Statuses, FindingRow, OccurrenceRow, Upload, Idle
<1>2. UploadsKnow
  BY DEF Init, UploadsKnow, Knows, Idle
<1>3. SuccessIsWhole
  BY DEF Init, SuccessIsWhole, Succeeded
<1>4. ObservedAtLatest
  BY DEF Init, ObservedAtLatest, Replayed
<1>5. QED
  BY <1>1, <1>2, <1>3, <1>4 DEF IInv

-----------------------------------------------------------------------------
(* The transaction that records an observation.                            *)

LEMMA GroupsHaveRows ==
    ASSUME NEW f \in Files, NEW g \in FindingsOf(f)
    PROVE  /\ g \in Findings /\ g # None
           /\ CanonicalRow(f, g) \in Group(f, g)
           /\ Content[f][CanonicalRow(f, g)].at \in Times
<1>1. Group(f, g) # {} /\ g # None
  BY DEF FindingsOf, Group
<1>2. QED
  BY <1>1, CanonicalIsLatest, ContentTyped

LEMMA ClassifiedTyped ==
    ASSUME TypeOK, NEW g \in Findings, NEW at \in Times
    PROVE  /\ Classified(g, at) \in Actions
           /\ Classified(g, at) = "CREATED" <=> finding[g].status = "ABSENT"
           /\ Classified(g, at) = "RECURRED" => finding[g].status = "CLOSED" /\ at > finding[g].through
BY DEF Classified, Actions

LEMMA ProjectionTyped ==
    ASSUME TypeOK, NEW g \in Findings, NEW at \in Times, NEW p, NEW a,
           a = Classified(g, at), p = Projection(g, at, a)
    PROVE  /\ p \in FindingRow
           /\ p.status = "CLOSED" <=> p.through # None
           /\ p.status # "ABSENT" /\ p.firstSeen # None /\ p.lastSeen # None
<1>1. None \notin Times /\ Times \subseteq Nat
  BY Params DEF ParamsAssumption
<1>2. CASE a = "CREATED"
  BY <1>1, <1>2 DEF Projection, FindingRow
<1>3. CASE a # "CREATED"
  <2> DEFINE row == finding[g]
  <2>1. row \in FindingRow
    BY DEF TypeOK
  <2>2. /\ row.status # "ABSENT" /\ row.firstSeen \in Times /\ row.lastSeen \in Times
        /\ row.status = "CLOSED" <=> row.through # None
    BY <1>3, <2>1, ClassifiedTyped DEF TypeOK, FindingRow
  <2>3. p = [status |-> IF a = "RECURRED" THEN "OPEN" ELSE row.status,
             firstSeen |-> Earlier(row.firstSeen, at), lastSeen |-> Later(row.lastSeen, at),
             occurrences |-> row.occurrences + 1,
             recurrences |-> IF a = "RECURRED" THEN row.recurrences + 1 ELSE row.recurrences,
             through |-> IF a = "RECURRED" THEN None ELSE row.through]
    BY <1>3, <2>1 DEF Projection, FindingRow
  <2>4. Earlier(row.firstSeen, at) \in Times /\ Later(row.lastSeen, at) \in Times
    BY <2>2 DEF Earlier, Later
  <2>5. row.occurrences + 1 \in Nat /\ row.recurrences + 1 \in Nat /\ row.recurrences \in Nat
        /\ row.through \in Times \cup {None} /\ row.status \in {"OPEN", "CLOSED"}
    BY <2>1, <2>2 DEF FindingRow
  <2> HIDE DEF row
  <2>6. p \in FindingRow
    BY <2>3, <2>4, <2>5 DEF FindingRow
  <2>7. QED
    BY <2>2, <2>3, <2>4, <2>5, <2>6, <1>1
<1>4. QED
  BY <1>2, <1>3

LEMMA UploadUpdate ==
    ASSUME NEW row \in Upload, NEW d \in SUBSET Findings, NEW r \in SUBSET Nat,
           NEW o \in SUBSET Findings
    PROVE  [row EXCEPT !.todo = d, !.rows = r, !.reopened = o]
            = [pc |-> row.pc, file |-> row.file, todo |-> d, rows |-> r, reopened |-> o]
<1> DEFINE new == [row EXCEPT !.todo = d, !.rows = r, !.reopened = o]
<1>1. /\ new \in Upload
      /\ new.pc = row.pc /\ new.file = row.file
      /\ new.todo = d /\ new.rows = r /\ new.reopened = o
  BY DEF Upload
<1> HIDE DEF new
<1>2. new = [pc |-> new.pc, file |-> new.file, todo |-> new.todo, rows |-> new.rows,
             reopened |-> new.reopened]
  BY <1>1 DEF Upload
<1>3. QED
  BY <1>1, <1>2 DEF new

\* What the step is about, and what it does to the rows.
ObservationOf(u, f, g, at) ==
    /\ f = upload[u].file /\ f \in Files
    /\ g \in upload[u].todo /\ g \in FindingsOf(f) /\ g \in Findings
    /\ at = Content[f][CanonicalRow(f, g)].at /\ at \in Times
    /\ \/ Replayed(g, f) /\ UNCHANGED <<finding, occurrence>>
       \/ /\ ~Replayed(g, f)
          /\ finding' = [finding EXCEPT ![g] = Projection(g, at, Classified(g, at))]
          /\ occurrence' = [occurrence EXCEPT ![<<g, f>>] =
                              [action |-> Classified(g, at), at |-> at]]
    /\ occurrence'[<<g, f>>].action = ActionTaken(g, f, at)
    /\ occurrence'[<<g, f>>].action # "NONE"
    /\ upload' = [upload EXCEPT ![u] =
         [pc |-> "working", file |-> f, todo |-> upload[u].todo \ {g}, rows |-> Group(f, g),
          reopened |-> IF ActionTaken(g, f, at) = "RECURRED" THEN upload[u].reopened \cup {g}
                       ELSE upload[u].reopened]]

LEMMA ObservationEffect ==
    ASSUME IInv, NEW u \in Uploads, RecordFindingObservation(u)
    PROVE  \E f, g, at : ObservationOf(u, f, g, at)
<1> DEFINE f == upload[u].file
           g == CHOOSE x \in upload[u].todo : TRUE
           at == Content[f][CanonicalRow(f, g)].at
           action == ActionTaken(g, f, at)
<1>1. upload[u].pc = "working" /\ upload[u].todo # {}
  BY DEF RecordFindingObservation
<1>2. f \in Files /\ upload[u].todo \subseteq FindingsOf(f)
  BY <1>1 DEF IInv, UploadsKnow, Knows
<1>3. g \in upload[u].todo /\ g \in FindingsOf(f)
  BY <1>1, <1>2
<1>4. g \in Findings /\ at \in Times
  BY <1>2, <1>3, GroupsHaveRows
<1>5. \/ Replayed(g, f) /\ UNCHANGED <<finding, occurrence>>
      \/ /\ ~Replayed(g, f)
         /\ finding' = [finding EXCEPT ![g] = Projection(g, at, Classified(g, at))]
         /\ occurrence' = [occurrence EXCEPT ![<<g, f>>] =
                             [action |-> Classified(g, at), at |-> at]]
  BY DEF RecordFindingObservation
<1>6. upload' = [upload EXCEPT ![u] =
        [upload[u] EXCEPT !.todo = upload[u].todo \ {g}, !.rows = Group(f, g),
           !.reopened = IF action = "RECURRED" THEN upload[u].reopened \cup {g}
                        ELSE upload[u].reopened]]
  BY DEF RecordFindingObservation, IInv, TypeOK
<1>7. f = upload[u].file /\ at = Content[f][CanonicalRow(f, g)].at /\ action = ActionTaken(g, f, at)
  OBVIOUS
<1> HIDE DEF f, g, at, action
<1>8. <<g, f>> \in Findings \X Files /\ occurrence \in [Findings \X Files -> OccurrenceRow]
  BY <1>2, <1>4 DEF IInv, TypeOK
<1>9. Classified(g, at) # "NONE"
  BY <1>4, ClassifiedTyped DEF IInv, Actions
<1>10. occurrence'[<<g, f>>].action = ActionTaken(g, f, at)
  <2>1. CASE Replayed(g, f)
    BY <2>1, <1>5 DEF ActionTaken
  <2>2. CASE ~Replayed(g, f)
    <3>1. occurrence'[<<g, f>>] = [action |-> Classified(g, at), at |-> at]
      BY <2>2, <1>5, <1>8
    <3>2. QED
      BY <2>2, <3>1 DEF ActionTaken
  <2>3. QED
    BY <2>1, <2>2
<1>11. occurrence'[<<g, f>>].action # "NONE"
  BY <1>9, <1>10 DEF ActionTaken, Replayed
<1>12. /\ upload[u] \in Upload /\ upload[u].pc = "working" /\ upload[u].file = f
       /\ upload[u].todo \ {g} \in SUBSET Findings /\ Group(f, g) \in SUBSET Nat
       /\ upload[u].reopened \in SUBSET Findings /\ upload[u].reopened \cup {g} \in SUBSET Findings
  BY <1>1, <1>2, <1>4, <1>7, ContentTyped DEF IInv, TypeOK, Upload
<1>13. upload' = [upload EXCEPT ![u] =
         [pc |-> "working", file |-> f, todo |-> upload[u].todo \ {g}, rows |-> Group(f, g),
          reopened |-> IF ActionTaken(g, f, at) = "RECURRED" THEN upload[u].reopened \cup {g}
                       ELSE upload[u].reopened]]
  <2> DEFINE o == IF action = "RECURRED" THEN upload[u].reopened \cup {g} ELSE upload[u].reopened
  <2>1. o \in SUBSET Findings
    BY <1>12
  <2>2. upload' = [upload EXCEPT ![u] =
          [upload[u] EXCEPT !.todo = upload[u].todo \ {g}, !.rows = Group(f, g), !.reopened = o]]
    BY <1>6
  <2>3. o = IF ActionTaken(g, f, at) = "RECURRED" THEN upload[u].reopened \cup {g}
            ELSE upload[u].reopened
    BY <1>7
  <2> HIDE DEF o
  <2>4. [upload[u] EXCEPT !.todo = upload[u].todo \ {g}, !.rows = Group(f, g), !.reopened = o]
        = [pc |-> "working", file |-> f, todo |-> upload[u].todo \ {g}, rows |-> Group(f, g),
           reopened |-> o]
    <3> DEFINE d == upload[u].todo \ {g}
               r == Group(f, g)
               row == upload[u]
    <3>1. /\ row \in Upload /\ d \in SUBSET Findings /\ r \in SUBSET Nat
          /\ row.pc = "working" /\ row.file = f
      BY <1>12
    <3> HIDE DEF d, r, row
    <3>2. [row EXCEPT !.todo = d, !.rows = r, !.reopened = o]
          = [pc |-> row.pc, file |-> row.file, todo |-> d, rows |-> r, reopened |-> o]
      BY ZenonT(40), <3>1, <2>1, UploadUpdate
    <3>3. QED
      BY <3>1, <3>2 DEF d, r, row
  <2>5. QED
    BY <2>2, <2>3, <2>4
<1>14. ObservationOf(u, f, g, at)
  BY <1>2, <1>3, <1>4, <1>5, <1>7, <1>10, <1>11, <1>13 DEF ObservationOf
<1>15. QED
  BY <1>14

LEMMA StepGrows == IInv /\ [Next]_vars => Grows
<1> SUFFICES ASSUME IInv, [Next]_vars PROVE Grows
  OBVIOUS
<1>1. ASSUME NEW u \in Uploads, PersistRow(u)
      PROVE  Grows
  <2>1. upload[u].file \in Files /\ rows \in [Files -> SUBSET [row: Nat, finding: Findings \cup {None}, duplicate: BOOLEAN]]
    BY <1>1 DEF PersistRow, IInv, UploadsKnow, Knows, TypeOK
  <2>2. QED
    BY <1>1, <2>1 DEF PersistRow, Grows
<1>2. ASSUME NEW u \in Uploads, RecordFindingObservation(u)
      PROVE  Grows
  <2>1. UNCHANGED rows
    BY <1>2 DEF RecordFindingObservation
  <2>2. PICK f, g, at : ObservationOf(u, f, g, at)
    BY <1>2, ObservationEffect
  <2>3. occurrence \in [Findings \X Files -> OccurrenceRow]
    BY DEF IInv, TypeOK
  <2>4. QED
    BY <2>1, <2>2, <2>3 DEF Grows, Replayed, ObservationOf
<1>3. CASE UNCHANGED vars
  BY <1>3 DEF Grows, vars
<1>4. ASSUME UNCHANGED <<rows, occurrence>>
      PROVE  Grows
  BY <1>4 DEF Grows
<1>5. QED
  BY <1>1, <1>2, <1>3, <1>4 DEF Next, Proceed, Receive, ReceiveUpload, CreateRawReport,
     BeginProcessing, FinishReport, ReopenCases, FailReport, Crash, CloseFinding

\* A file whose evidence is whole stays so.
LEMMA WholeStays ==
    ASSUME IInv, Grows, NEW f \in Files, Whole(f)
    PROVE  Whole(f)' /\ Recurred(f)' = Recurred(f)
<1>1. \A g \in FindingsOf(f) : <<g, f>> \in Findings \X Files
  BY ContentTyped
<1>2. \A g \in FindingsOf(f) : occurrence'[<<g, f>>] = occurrence[<<g, f>>] /\ Replayed(g, f)'
  BY <1>1 DEF Grows, Whole, Replayed
<1>3. Persisted(f) \subseteq Persisted(f)'
  BY DEF Grows, Persisted
<1>4. Whole(f)'
  BY <1>2, <1>3 DEF Whole
<1>5. Recurred(f)' = Recurred(f)
  BY <1>2 DEF Recurred
<1>6. QED
  BY <1>4, <1>5

\* What an upload knows stays true while others work.
LEMMA OthersStillKnow ==
    ASSUME IInv, Grows, NEW v \in Uploads, upload'[v] = upload[v]
    PROVE  Knows(v)'
<1> DEFINE f == upload[v].file
           todo == upload[v].todo
<1>1. Knows(v)
  BY DEF IInv, UploadsKnow
<1>2. CASE upload[v].pc = "working"
  <2>1. /\ f \in Files /\ todo \subseteq FindingsOf(f) /\ upload[v].rows \subseteq RowNumbers(f)
        /\ \A n \in RowNumbers(f) :
             n \in Persisted(f) \/ n \in upload[v].rows \/ Content[f][n].finding \in todo
        /\ \A g \in FindingsOf(f) \ todo : Replayed(g, f)
        /\ upload[v].reopened = Recurred(f) \ todo
    BY <1>1, <1>2 DEF Knows
  <2>2. Persisted(f) \subseteq Persisted(f)'
    BY <2>1 DEF Grows, Persisted
  <2>3. \A g \in FindingsOf(f) \ todo :
          occurrence'[<<g, f>>] = occurrence[<<g, f>>] /\ Replayed(g, f)'
    BY <2>1, ContentTyped DEF Grows, Replayed
  <2>4. Recurred(f)' \ todo = Recurred(f) \ todo
    BY <2>3 DEF Recurred
  <2>5. \A n \in RowNumbers(f) :
             n \in Persisted(f)' \/ n \in upload[v].rows \/ Content[f][n].finding \in todo
    BY <2>1, <2>2
  <2>6. QED
    BY <1>2, <2>1, <2>3, <2>4, <2>5 DEF Knows
<1>3. CASE upload[v].pc = "concluding"
  <2>1. f \in Files /\ Whole(f) /\ upload[v].reopened = Recurred(f)
    BY <1>1, <1>3 DEF Knows
  <2>2. Whole(f)' /\ Recurred(f)' = Recurred(f)
    BY <2>1, WholeStays
  <2>3. QED
    BY <1>3, <2>1, <2>2 DEF Knows
<1>4. CASE upload[v].pc \notin {"working", "concluding"}
  BY <1>1, <1>4 DEF Knows
<1>5. QED
  BY <1>2, <1>3, <1>4

-----------------------------------------------------------------------------
(* One lemma per action.                                                   *)

\* A step of one upload that observes nothing and finishes nothing that is not whole.
LEMMA QuietStep ==
    ASSUME IInv, Grows, NEW u \in Uploads, TypeOK', Knows(u)',
           UNCHANGED occurrence,
           \A v \in Uploads : v # u => upload'[v] = upload[v],
           \A f \in Files : report'[f] \in Succeeded => Whole(f)
    PROVE  IInv'
<1>1. UploadsKnow'
  BY OthersStillKnow DEF UploadsKnow
<1>2. SuccessIsWhole'
  BY WholeStays DEF SuccessIsWhole
<1>3. ObservedAtLatest'
  BY DEF IInv, ObservedAtLatest, Replayed
<1>4. QED
  BY <1>1, <1>2, <1>3 DEF IInv

LEMMA ReceiveUploadPreserves ==
    ASSUME IInv, Grows, NEW u \in Uploads, NEW f \in Files, ReceiveUpload(u, f)
    PROVE  IInv'
<1> DEFINE row == [Idle EXCEPT !.pc = IF report[f] = "ABSENT" THEN "creating" ELSE "beginning",
                               !.file = f]
<1>1. /\ row \in Upload /\ row.pc \in {"creating", "beginning"} /\ row.file = f
      /\ row.reopened = {}
  BY DEF Upload, Idle
<1>2. upload' = [upload EXCEPT ![u] = row]
  BY DEF ReceiveUpload
<1> HIDE DEF row
<1>3. TypeOK'
  BY <1>1, <1>2 DEF ReceiveUpload, IInv, TypeOK
<1>4. upload'[u] = row /\ \A v \in Uploads : v # u => upload'[v] = upload[v]
  BY <1>2 DEF IInv, TypeOK
<1>5. Knows(u)'
  BY <1>1, <1>4 DEF Knows
<1>6. QED
  BY <1>3, <1>4, <1>5, QuietStep DEF ReceiveUpload, IInv, SuccessIsWhole

\* A step after which the upload is at rest.
LEMMA BackToIdle ==
    ASSUME IInv, NEW u \in Uploads, upload' = [upload EXCEPT ![u] = Idle]
    PROVE  /\ upload' \in [Uploads -> Upload] /\ Knows(u)'
           /\ \A v \in Uploads : v # u => upload'[v] = upload[v]
<1>1. Idle \in Upload /\ Idle.pc = "idle"
  BY DEF Idle, Upload
<1>2. upload'[u] = Idle /\ \A v \in Uploads : v # u => upload'[v] = upload[v]
  BY DEF IInv, TypeOK
<1>3. upload' \in [Uploads -> Upload]
  BY <1>1 DEF IInv, TypeOK
<1>4. Knows(u)'
  BY <1>1, <1>2 DEF Knows
<1>5. QED
  BY <1>2, <1>3, <1>4

LEMMA CreateRawReportPreserves ==
    ASSUME IInv, Grows, NEW u \in Uploads, CreateRawReport(u)
    PROVE  IInv'
<1> DEFINE f == upload[u].file
<1>1. f \in Files /\ upload[u] \in Upload /\ upload[u].reopened = {}
  BY DEF CreateRawReport, IInv, TypeOK, UploadsKnow, Knows
<1>2. /\ report' \in [Files -> Statuses]
      /\ \A e \in Files : report'[e] \in Succeeded => report[e] \in Succeeded
  BY DEF CreateRawReport, IInv, TypeOK, Statuses, Succeeded
<1>3. \A e \in Files : report'[e] \in Succeeded => Whole(e)
  BY <1>2 DEF IInv, SuccessIsWhole
<1>4. CASE upload' = [upload EXCEPT ![u] = Idle]
  <2>1. TypeOK'
    BY <1>2, <1>4, BackToIdle DEF CreateRawReport, IInv, TypeOK
  <2>2. QED
    BY <2>1, <1>3, <1>4, BackToIdle, QuietStep DEF CreateRawReport
<1>5. CASE GoTo(u, "beginning")
  <2> DEFINE row == [upload[u] EXCEPT !.pc = "beginning"]
  <2>1. row \in Upload /\ row.pc = "beginning" /\ row.file = f /\ row.reopened = {}
    BY <1>1 DEF Upload
  <2>2. upload' = [upload EXCEPT ![u] = row]
    BY <1>5 DEF GoTo, IInv, TypeOK
  <2> HIDE DEF row
  <2>3. upload'[u] = row /\ \A v \in Uploads : v # u => upload'[v] = upload[v]
    BY <2>2 DEF IInv, TypeOK
  <2>4. Knows(u)'
    BY <2>1, <2>3, <1>1 DEF Knows
  <2>5. TypeOK'
    BY <2>1, <2>2, <1>2 DEF CreateRawReport, IInv, TypeOK
  <2>6. QED
    BY <2>3, <2>4, <2>5, <1>3, QuietStep DEF CreateRawReport
<1>6. QED
  BY <1>4, <1>5 DEF CreateRawReport

LEMMA BeginProcessingPreserves ==
    ASSUME IInv, Grows, NEW u \in Uploads, BeginProcessing(u)
    PROVE  IInv'
<1> DEFINE f == upload[u].file
           row == [upload[u] EXCEPT !.pc = "working", !.todo = FindingsOf(f),
                                    !.rows = Group(f, None)]
<1>1. f \in Files /\ upload[u] \in Upload /\ upload[u].reopened = {}
  BY DEF BeginProcessing, IInv, TypeOK, UploadsKnow, Knows
<1>2. FindingsOf(f) \in SUBSET Findings /\ Group(f, None) \in SUBSET Nat
      /\ Group(f, None) \subseteq RowNumbers(f)
  BY <1>1, ContentTyped
<1>3. row \in Upload /\ row.pc = "working" /\ row.file = f /\ row.todo = FindingsOf(f)
      /\ row.rows = Group(f, None) /\ row.reopened = {}
  BY <1>1, <1>2 DEF Upload
<1>4. upload' = [upload EXCEPT ![u] = row]
  BY DEF BeginProcessing, IInv, TypeOK
<1>5. /\ report' \in [Files -> Statuses]
      /\ \A e \in Files : report'[e] \in Succeeded => report[e] \in Succeeded
  BY DEF BeginProcessing, IInv, TypeOK, Statuses, Succeeded
<1>6. \A n \in RowNumbers(f) : n \in Group(f, None) \/ Content[f][n].finding \in FindingsOf(f)
  BY DEF Group, FindingsOf
<1> HIDE DEF row
<1>7. upload'[u] = row /\ \A v \in Uploads : v # u => upload'[v] = upload[v]
  BY <1>4 DEF IInv, TypeOK
<1>8. Knows(u)'
  <2>1. \A e \in Files : Recurred(e)' \ FindingsOf(e) = {}
    BY DEF Recurred
  <2> HIDE DEF f
  <2>2. QED
    BY <2>1, <1>1, <1>2, <1>3, <1>6, <1>7 DEF Knows, Recurred
<1>9. TypeOK'
  BY ZenonT(40), <1>3, <1>4, <1>5 DEF BeginProcessing, IInv, TypeOK
<1>10. QED
  BY <1>5, <1>7, <1>8, <1>9, QuietStep DEF BeginProcessing, IInv, SuccessIsWhole

LEMMA PersistRowPreserves ==
    ASSUME IInv, Grows, NEW u \in Uploads, PersistRow(u)
    PROVE  IInv'
<1>1. PICK f \in Files : f = upload[u].file
  BY DEF PersistRow, IInv, UploadsKnow, Knows
<1>2. /\ upload[u].pc = "working" /\ upload[u].rows # {} /\ upload[u] \in Upload
      /\ upload[u].rows \subseteq RowNumbers(f) /\ upload[u].todo \subseteq FindingsOf(f)
      /\ RowNumbers(f) \subseteq Nat
  BY <1>1, ContentTyped DEF PersistRow, IInv, TypeOK, UploadsKnow, Knows
<1>3. \E m \in upload[u].rows : \A k \in upload[u].rows : m <= k
  BY <1>2, LeastNatural
<1>4. PICK n \in upload[u].rows :
        /\ rows' = IF IsNewRow(f, n) THEN [rows EXCEPT ![f] = @ \cup {Row(f, n)}] ELSE rows
        /\ upload' = [upload EXCEPT ![u].rows = @ \ {n}]
  BY <1>1, <1>3 DEF PersistRow
<1> DEFINE row == [upload[u] EXCEPT !.rows = upload[u].rows \ {n}]
<1>5. /\ row \in Upload /\ row.pc = "working" /\ row.file = f /\ row.todo = upload[u].todo
      /\ row.rows = upload[u].rows \ {n} /\ row.reopened = upload[u].reopened
  BY <1>1, <1>2 DEF Upload
<1>6. upload' = [upload EXCEPT ![u] = row]
  BY <1>4 DEF IInv, TypeOK
<1> HIDE DEF row
<1>7. upload'[u] = row /\ \A v \in Uploads : v # u => upload'[v] = upload[v]
  BY <1>6 DEF IInv, TypeOK
<1>8. UNCHANGED occurrence /\ UNCHANGED report
  BY DEF PersistRow
<1>9. Row(f, n) \in [row: Nat, finding: Findings \cup {None}, duplicate: BOOLEAN]
      /\ Row(f, n).row = n /\ n \in RowNumbers(f)
  <2>1. n \in RowNumbers(f) /\ Content[f][n].finding \in Findings \cup {None}
    BY <1>2, ContentTyped
  <2>2. QED
    BY <2>1, <1>2 DEF Row
<1>10. /\ rows \in [Files -> SUBSET [row: Nat, finding: Findings \cup {None}, duplicate: BOOLEAN]]
       /\ \A e \in Files : rows[e] \subseteq {Row(e, m) : m \in RowNumbers(e)}
  BY DEF IInv, TypeOK
<1>11. /\ rows' \in [Files -> SUBSET [row: Nat, finding: Findings \cup {None}, duplicate: BOOLEAN]]
       /\ \A e \in Files : rows'[e] \subseteq {Row(e, m) : m \in RowNumbers(e)}
  <2>1. \A e \in Files : rows'[e] = rows[e] \/ (e = f /\ rows'[e] = rows[e] \cup {Row(f, n)})
    BY <1>4, <1>10
  <2>2. rows' \in [Files -> SUBSET [row: Nat, finding: Findings \cup {None}, duplicate: BOOLEAN]]
    BY <1>4, <1>9, <1>10
  <2>3. QED
    BY <2>1, <2>2, <1>9, <1>10
<1>12. n \in Persisted(f)'
  <2>1. CASE IsNewRow(f, n)
    <3>1. Row(f, n) \in rows'[f]
      BY <2>1, <1>4, <1>10
    <3>2. QED
      BY <3>1, <1>9 DEF Persisted
  <2>2. CASE ~IsNewRow(f, n)
    BY <2>2, <1>4 DEF Persisted, IsNewRow
  <2>3. QED
    BY <2>1, <2>2
<1>13. Knows(u)'
  <2>1. Persisted(f) \subseteq Persisted(f)'
    BY DEF Grows, Persisted
  <2>2. /\ \A m \in RowNumbers(f) :
             m \in Persisted(f) \/ m \in upload[u].rows \/ Content[f][m].finding \in upload[u].todo
        /\ \A g \in FindingsOf(f) \ upload[u].todo : Replayed(g, f)
        /\ upload[u].reopened = Recurred(f) \ upload[u].todo
    BY <1>1, <1>2 DEF IInv, UploadsKnow, Knows
  <2>3. \A g \in FindingsOf(f) : Replayed(g, f)' = Replayed(g, f)
    BY <1>8 DEF Replayed
  <2>4. Recurred(f)' = Recurred(f)
    BY <1>8 DEF Recurred
  <2>5. \A m \in RowNumbers(f) :
             m \in Persisted(f)' \/ m \in row.rows \/ Content[f][m].finding \in row.todo
    BY <2>1, <2>2, <1>5, <1>12
  <2>6. row.todo \subseteq FindingsOf(f) /\ row.rows \subseteq RowNumbers(f)
    BY <1>2, <1>5
  <2>7. (\A g \in FindingsOf(f) \ row.todo : Replayed(g, f)') /\ row.reopened = Recurred(f)' \ row.todo
    BY <2>2, <2>3, <2>4, <1>5
  <2>8. QED
    BY <2>5, <2>6, <2>7, <1>5, <1>7 DEF Knows
<1>14. TypeOK'
  BY <1>5, <1>6, <1>11 DEF PersistRow, IInv, TypeOK
<1>15. QED
  BY <1>7, <1>8, <1>13, <1>14, QuietStep DEF IInv, SuccessIsWhole

LEMMA RecordFindingObservationPreserves ==
    ASSUME IInv, Grows, NEW u \in Uploads, RecordFindingObservation(u)
    PROVE  IInv'
<1>1. PICK f, g, at : ObservationOf(u, f, g, at)
  BY ObservationEffect
<1>2. /\ f = upload[u].file /\ f \in Files /\ g \in FindingsOf(f) /\ g \in Findings /\ at \in Times
      /\ g \in upload[u].todo /\ at = Content[f][CanonicalRow(f, g)].at
  BY <1>1 DEF ObservationOf
<1>3. UNCHANGED <<report, rows, offered, failures, crashes>>
  BY DEF RecordFindingObservation
<1> DEFINE row == [pc |-> "working", file |-> f, todo |-> upload[u].todo \ {g}, rows |-> Group(f, g),
                   reopened |-> IF ActionTaken(g, f, at) = "RECURRED" THEN upload[u].reopened \cup {g}
                                ELSE upload[u].reopened]
<1>4. upload' = [upload EXCEPT ![u] = row]
  BY <1>1 DEF ObservationOf
<1>5. upload'[u] = row /\ \A v \in Uploads : v # u => upload'[v] = upload[v]
  BY <1>4 DEF IInv, TypeOK
<1>6. upload[u] \in Upload /\ upload[u].pc = "working"
  BY DEF RecordFindingObservation, IInv, TypeOK
<1>7. Group(f, g) \in SUBSET Nat /\ Group(f, g) \subseteq RowNumbers(f)
  BY <1>2, ContentTyped
<1>8. row \in Upload
  BY <1>2, <1>6, <1>7 DEF Upload
<1>9. /\ finding' \in [Findings -> FindingRow]
      /\ \A x \in Findings : /\ finding'[x].status = "CLOSED" <=> finding'[x].through # None
                             /\ finding'[x].status = "ABSENT" <=> finding'[x].firstSeen = None
                             /\ finding'[x].status = "ABSENT" <=> finding'[x].lastSeen = None
  <2>1. CASE UNCHANGED finding
    BY <2>1 DEF IInv, TypeOK
  <2>2. CASE finding' = [finding EXCEPT ![g] = Projection(g, at, Classified(g, at))]
    <3> DEFINE p == Projection(g, at, Classified(g, at))
    <3>1. /\ p \in FindingRow
          /\ p.status = "CLOSED" <=> p.through # None
          /\ p.status # "ABSENT" /\ p.firstSeen # None /\ p.lastSeen # None
      BY <1>2, ProjectionTyped DEF IInv
    <3>0. finding' = [finding EXCEPT ![g] = p]
      BY <2>2
    <3> HIDE DEF p
    <3>2. \A x \in Findings : finding'[x] = IF x = g THEN p ELSE finding[x]
      BY <3>0, <1>2 DEF IInv, TypeOK
    <3>3. finding' \in [Findings -> FindingRow]
      BY <3>0, <3>1 DEF IInv, TypeOK
    <3>4. QED
      BY <3>1, <3>2, <3>3 DEF IInv, TypeOK
  <2>3. QED
    BY <2>1, <2>2, <1>1 DEF ObservationOf
<1>10. occurrence' \in [Findings \X Files -> OccurrenceRow]
  <2> DEFINE observed == [action |-> Classified(g, at), at |-> at]
  <2>1. observed \in OccurrenceRow
    BY <1>2, ClassifiedTyped DEF IInv, OccurrenceRow
  <2>2. UNCHANGED occurrence \/ occurrence' = [occurrence EXCEPT ![<<g, f>>] = observed]
    BY <1>1 DEF ObservationOf
  <2> HIDE DEF observed
  <2>3. QED
    BY <2>1, <2>2 DEF IInv, TypeOK
<1>11. TypeOK'
  BY <1>3, <1>4, <1>8, <1>9, <1>10 DEF IInv, TypeOK
<1>12. Knows(u)'
  <2>1. /\ upload[u].todo \subseteq FindingsOf(f)
        /\ \A m \in RowNumbers(f) :
             m \in Persisted(f) \/ m \in upload[u].rows \/ Content[f][m].finding \in upload[u].todo
        /\ \A x \in FindingsOf(f) \ upload[u].todo : Replayed(x, f)
        /\ upload[u].reopened = Recurred(f) \ upload[u].todo
    BY <1>2, <1>6 DEF IInv, UploadsKnow, Knows
  <2>2. upload[u].rows = {}
    BY DEF RecordFindingObservation
  <2>3. \A m \in RowNumbers(f) :
             m \in Persisted(f)' \/ m \in row.rows \/ Content[f][m].finding \in row.todo
    BY <2>1, <2>2, <1>3 DEF Persisted, Group
  <2>4. \A x \in FindingsOf(f) \ upload[u].todo :
          occurrence'[<<x, f>>] = occurrence[<<x, f>>]
    BY <2>1, <1>2, ContentTyped DEF Grows, Replayed
  <2>5. \A x \in FindingsOf(f) \ row.todo : Replayed(x, f)'
    <3>1. occurrence'[<<g, f>>].action # "NONE"
      BY <1>1 DEF ObservationOf
    <3>2. \A x \in FindingsOf(f) \ row.todo : x = g \/ x \in FindingsOf(f) \ upload[u].todo
      OBVIOUS
    <3> HIDE DEF row
    <3>3. QED
      BY <3>1, <3>2, <2>1, <2>4 DEF Replayed
  <2>6. row.reopened = Recurred(f)' \ row.todo
    <3>1. \A x : x \in Recurred(f)' \ row.todo
                   <=> \/ x \in Recurred(f) \ upload[u].todo
                       \/ x = g /\ occurrence'[<<g, f>>].action = "RECURRED"
      BY <2>4, <1>2 DEF Recurred
    <3>2. occurrence'[<<g, f>>].action = ActionTaken(g, f, at)
      BY <1>1 DEF ObservationOf
    <3>3. QED
      BY <3>1, <3>2, <2>1
  <2>7. /\ row.pc = "working" /\ row.file = f
        /\ row.todo \subseteq FindingsOf(f) /\ row.rows \subseteq RowNumbers(f)
    BY <2>1, <1>7
  <2> HIDE DEF row
  <2>8. QED
    BY <2>3, <2>5, <2>6, <2>7, <1>2, <1>5 DEF Knows
<1>13. UploadsKnow'
  BY <1>5, <1>12, OthersStillKnow DEF UploadsKnow
<1>14. SuccessIsWhole'
  BY <1>3, WholeStays DEF IInv, SuccessIsWhole
<1>15. ObservedAtLatest'
  <2> DEFINE observed == [action |-> Classified(g, at), at |-> at]
  <2>1. UNCHANGED occurrence \/ occurrence' = [occurrence EXCEPT ![<<g, f>>] = observed]
    BY <1>1 DEF ObservationOf
  <2>2. observed.at = at
    OBVIOUS
  <2> HIDE DEF observed
  <2>3. \A e \in Files, x \in Findings :
          \/ occurrence'[<<x, e>>] = occurrence[<<x, e>>]
          \/ x = g /\ e = f /\ occurrence'[<<x, e>>].at = at
    BY <2>1, <2>2 DEF IInv, TypeOK
  <2>4. QED
    BY <2>3, <1>2 DEF IInv, ObservedAtLatest, Replayed
<1>16. QED
  BY <1>11, <1>13, <1>14, <1>15 DEF IInv

LEMMA FinishReportPreserves ==
    ASSUME IInv, Grows, NEW u \in Uploads, FinishReport(u)
    PROVE  IInv'
<1>1. PICK f \in Files : f = upload[u].file
  BY DEF FinishReport, IInv, UploadsKnow, Knows
<1>2. /\ upload[u].pc = "working" /\ upload[u].rows = {} /\ upload[u].todo = {}
      /\ upload[u] \in Upload
  BY DEF FinishReport, IInv, TypeOK
<1>3. Whole(f) /\ upload[u].reopened = Recurred(f)
  BY <1>1, <1>2 DEF IInv, UploadsKnow, Knows, Whole
<1>4. /\ report' \in [Files -> Statuses]
      /\ \A e \in Files : e = f \/ report'[e] = report[e]
  BY <1>1 DEF FinishReport, IInv, TypeOK, Statuses, Succeeded
<1>5. \A e \in Files : report'[e] \in Succeeded => Whole(e)
  BY <1>3, <1>4 DEF IInv, SuccessIsWhole
<1> DEFINE row == [upload[u] EXCEPT !.pc = "concluding"]
<1>6. /\ row \in Upload /\ row.pc = "concluding" /\ row.file = f
      /\ row.reopened = upload[u].reopened
  BY <1>1, <1>2 DEF Upload
<1>7. upload' = [upload EXCEPT ![u] = row]
  BY DEF FinishReport, GoTo, IInv, TypeOK
<1> HIDE DEF row
<1>8. upload'[u] = row /\ \A v \in Uploads : v # u => upload'[v] = upload[v]
  BY <1>7 DEF IInv, TypeOK
<1>9. Whole(f)' /\ Recurred(f)' = Recurred(f)
  BY <1>3, WholeStays
<1>10. Knows(u)'
  BY <1>3, <1>6, <1>8, <1>9 DEF Knows
<1>11. TypeOK'
  BY <1>4, <1>6, <1>7 DEF FinishReport, IInv, TypeOK
<1>12. QED
  BY <1>5, <1>8, <1>10, <1>11, QuietStep DEF FinishReport

LEMMA AttemptEnds ==
    ASSUME IInv, Grows, NEW u \in Uploads, ReopenCases(u) \/ FailReport(u) \/ Crash(u)
    PROVE  IInv'
<1>1. upload' = [upload EXCEPT ![u] = Idle] /\ UNCHANGED <<rows, finding, occurrence>>
  BY DEF ReopenCases, FailReport, Crash
<1>2. /\ report' \in [Files -> Statuses]
      /\ \A e \in Files : report'[e] \in Succeeded => report[e] \in Succeeded
  BY DEF ReopenCases, FailReport, Crash, IInv, TypeOK, Statuses, Succeeded
<1>3. offered' \subseteq Findings \X Files
  <2>1. CASE ReopenCases(u)
    <3>1. upload[u].file \in Files /\ upload[u].reopened \subseteq Findings
      BY <2>1 DEF ReopenCases, IInv, TypeOK, Upload, UploadsKnow, Knows
    <3>2. QED
      BY <2>1, <3>1 DEF ReopenCases, IInv, TypeOK
  <2>2. CASE ~ReopenCases(u)
    BY <2>2 DEF FailReport, Crash, IInv, TypeOK
  <2>3. QED
    BY <2>1, <2>2
<1>4. failures' \in Nat /\ crashes' \in Nat /\ failures' + crashes' <= MaxTroubles
  BY Params DEF ParamsAssumption, ReopenCases, FailReport, Crash, IInv, TypeOK
<1>5. TypeOK'
  BY <1>1, <1>2, <1>3, <1>4, BackToIdle DEF IInv, TypeOK
<1>6. QED
  BY <1>1, <1>2, <1>5, BackToIdle, QuietStep DEF IInv, SuccessIsWhole

LEMMA CloseFindingPreserves ==
    ASSUME IInv, Grows, NEW g \in Findings, NEW t \in Times, CloseFinding(g, t)
    PROVE  IInv'
<1> DEFINE row == [finding[g] EXCEPT !.status = "CLOSED", !.through = t]
<1>1. finding[g] \in FindingRow /\ finding[g].status = "OPEN" /\ t # None
  BY Params DEF CloseFinding, IInv, TypeOK, ParamsAssumption
<1>2. /\ row \in FindingRow /\ row.status = "CLOSED" /\ row.through = t
      /\ row.firstSeen = finding[g].firstSeen /\ row.lastSeen = finding[g].lastSeen
  BY <1>1 DEF FindingRow
<1>3. finding' = [finding EXCEPT ![g] = row]
  BY DEF CloseFinding, IInv, TypeOK
<1> HIDE DEF row
<1>4. \A x \in Findings : finding'[x] = IF x = g THEN row ELSE finding[x]
  BY <1>3 DEF IInv, TypeOK
<1>5. finding' \in [Findings -> FindingRow]
  BY <1>2, <1>3 DEF IInv, TypeOK
<1>6. UNCHANGED <<report, rows, occurrence, upload, offered, failures, crashes>>
  BY DEF CloseFinding
<1>7. TypeOK'
  BY <1>1, <1>2, <1>4, <1>5, <1>6 DEF IInv, TypeOK
<1>8. UploadsKnow'
  BY <1>6, OthersStillKnow DEF UploadsKnow
<1>9. SuccessIsWhole'
  BY <1>6, WholeStays DEF IInv, SuccessIsWhole
<1>10. ObservedAtLatest'
  BY <1>6 DEF IInv, ObservedAtLatest, Replayed
<1>11. QED
  BY <1>7, <1>8, <1>9, <1>10 DEF IInv

LEMMA StepPreserves == IInv /\ [Next]_vars => IInv'
<1> SUFFICES ASSUME IInv, [Next]_vars PROVE IInv'
  OBVIOUS
<1>1. Grows
  BY StepGrows
<1>2. ASSUME NEW u \in Uploads, Proceed(u) \/ FailReport(u) \/ Crash(u)
      PROVE  IInv'
  BY <1>1, <1>2, CreateRawReportPreserves, BeginProcessingPreserves, PersistRowPreserves,
     RecordFindingObservationPreserves, FinishReportPreserves, AttemptEnds DEF Proceed
<1>3. ASSUME NEW f \in Files, Receive(f)
      PROVE  IInv'
  BY <1>1, <1>3, ReceiveUploadPreserves DEF Receive
<1>4. ASSUME NEW g \in Findings, NEW t \in Times, CloseFinding(g, t)
      PROVE  IInv'
  BY <1>1, <1>4, CloseFindingPreserves
<1>5. CASE UNCHANGED vars
  <2>1. TypeOK'
    BY <1>5 DEF vars, IInv, TypeOK
  <2>2. UploadsKnow'
    BY <1>1, <1>5, OthersStillKnow DEF vars, UploadsKnow
  <2>3. SuccessIsWhole'
    BY <1>1, <1>5, WholeStays DEF vars, IInv, SuccessIsWhole
  <2>4. ObservedAtLatest'
    BY <1>5 DEF vars, IInv, ObservedAtLatest, Replayed
  <2>5. QED
    BY <2>1, <2>2, <2>3, <2>4 DEF IInv
<1>6. QED
  BY <1>2, <1>3, <1>4, <1>5 DEF Next

LEMMA Inductive == Spec => []IInv
<1>1. QED
  BY InitHolds, StepPreserves, PTL DEF Spec

-----------------------------------------------------------------------------
(* What follows.                                                           *)

\* Every row is well formed; a finding tells of a closure exactly while it is closed.
THEOREM TypeCorrect == Spec => []TypeOK
<1>1. IInv => TypeOK
  BY DEF IInv
<1>2. QED
  BY <1>1, Inductive, PTL

\* Whichever attempt concludes a report hands over every recurrence of it, those that an
\* earlier attempt or another upload recorded among them.
THEOREM RecurrencesCarried == Spec => []RecurrencesAreCarried
<1>1. IInv => RecurrencesAreCarried
  BY DEF IInv, UploadsKnow, Knows, Recurred, RecurrencesAreCarried
<1>2. QED
  BY <1>1, Inductive, PTL

\* A report that claims success has all its evidence, whatever attempts and uploads it
\* took, and each finding in it is shown by exactly one row, the latest.
THEOREM SuccessfulReportsAreComplete == Spec => []SuccessIsComplete
<1>1. IInv => SuccessIsComplete
  <2> SUFFICES ASSUME IInv, NEW f \in Files, report[f] \in Succeeded
               PROVE  /\ {r.row : r \in rows[f]} = RowNumbers(f)
                      /\ \A g \in FindingsOf(f) :
                           /\ f \in Seen(g)
                           /\ occurrence[<<g, f>>].at \in {Content[f][n].at : n \in Group(f, g)}
                           /\ \A n \in Group(f, g) : Content[f][n].at <= occurrence[<<g, f>>].at
                           /\ \E r \in rows[f] :
                                /\ r.finding = g /\ ~r.duplicate
                                /\ Content[f][r.row].at = occurrence[<<g, f>>].at
                                /\ \A q \in rows[f] : q.finding = g /\ q # r => q.duplicate
    BY DEF SuccessIsComplete
  <2>1. Whole(f)
    BY DEF IInv, SuccessIsWhole
  <2>2. \A r \in rows[f] : \E n \in RowNumbers(f) : r = Row(f, n)
    BY DEF IInv, TypeOK
  <2>3. \A n : /\ Row(f, n).row = n /\ Row(f, n).finding = Content[f][n].finding
               /\ Row(f, n).duplicate =
                    (Content[f][n].finding # None /\ n # CanonicalRow(f, Content[f][n].finding))
    BY DEF Row
  <2>4. {r.row : r \in rows[f]} = RowNumbers(f)
    <3>1. \A r \in rows[f] : r.row \in RowNumbers(f)
      BY <2>2, <2>3
    <3>2. QED
      BY <3>1, <2>1 DEF Whole, Persisted
  <2>5. ASSUME NEW g \in FindingsOf(f)
        PROVE  /\ f \in Seen(g)
               /\ occurrence[<<g, f>>].at \in {Content[f][n].at : n \in Group(f, g)}
               /\ \A n \in Group(f, g) : Content[f][n].at <= occurrence[<<g, f>>].at
               /\ \E r \in rows[f] :
                    /\ r.finding = g /\ ~r.duplicate
                    /\ Content[f][r.row].at = occurrence[<<g, f>>].at
                    /\ \A q \in rows[f] : q.finding = g /\ q # r => q.duplicate
    <3> DEFINE k == CanonicalRow(f, g)
    <3>1. /\ g \in Findings /\ g # None /\ k \in Group(f, g)
          /\ \A n \in Group(f, g) : Content[f][n].at <= Content[f][k].at
      BY GroupsHaveRows, CanonicalIsLatest
    <3>2. Replayed(g, f) /\ occurrence[<<g, f>>].at = Content[f][k].at
      BY <2>1, <3>1 DEF Whole, IInv, ObservedAtLatest
    <3> HIDE DEF k
    <3>3. k \in RowNumbers(f) /\ Content[f][k].finding = g
      BY <3>1 DEF Group
    <3>4. PICK r \in rows[f] : r.row = k
      BY <3>3, <2>4
    <3>5. r = Row(f, k)
      BY <3>4, <2>2, <2>3
    <3>6. r.finding = g /\ ~r.duplicate
      BY <3>3, <3>5, <2>3 DEF k
    <3>7. ASSUME NEW q \in rows[f], q.finding = g, q # r
          PROVE  q.duplicate
      <4>1. PICK n \in RowNumbers(f) : q = Row(f, n)
        BY <2>2
      <4>2. Content[f][n].finding = g
        BY <4>1, <3>7, <2>3
      <4>3. n # k
        BY <4>1, <3>5, <3>7
      <4>4. q.duplicate = (g # None /\ n # k)
        BY <4>1, <4>2, <2>3 DEF k
      <4>5. QED
        BY <4>3, <4>4, <3>1
    <3>8. QED
      BY <3>1, <3>2, <3>4, <3>6, <3>7 DEF Seen, Replayed
  <2>6. QED
    BY <2>4, <2>5
<1>2. QED
  BY <1>1, Inductive, PTL

-----------------------------------------------------------------------------
(* The projections of a finding.                                           *)

With(g, a) == {f \in Seen(g) : occurrence[<<g, f>>].action = a}

TimesOf(g) == {occurrence[<<g, f>>].at : f \in Seen(g)}

\* The columns of one finding agree with its occurrences, which are finitely many.
Agrees(g) ==
    /\ IsFiniteSet(Seen(g))
    /\ finding[g].status = "ABSENT" <=> Seen(g) = {}
    /\ finding[g].occurrences = Cardinality(Seen(g))
    /\ finding[g].recurrences = Cardinality(With(g, "RECURRED"))
    /\ Cardinality(With(g, "CREATED")) = IF finding[g].status = "ABSENT" THEN 0 ELSE 1
    /\ Seen(g) # {} =>
         /\ finding[g].firstSeen \in TimesOf(g) /\ \A t \in TimesOf(g) : finding[g].firstSeen <= t
         /\ finding[g].lastSeen \in TimesOf(g) /\ \A t \in TimesOf(g) : t <= finding[g].lastSeen

PInv == \A g \in Findings : Agrees(g)

\* What the projection of an observation changes, column by column.
LEMMA ProjectionColumns ==
    ASSUME TypeOK, NEW g \in Findings, NEW at \in Times, NEW a, NEW p,
           a = Classified(g, at), p = Projection(g, at, a)
    PROVE  /\ p.status # "ABSENT"
           /\ a = "CREATED" <=> finding[g].status = "ABSENT"
           /\ a = "CREATED" => /\ p.status = "OPEN" /\ p.occurrences = 1 /\ p.recurrences = 0
                               /\ p.firstSeen = at /\ p.lastSeen = at
           /\ a # "CREATED" =>
                /\ p.occurrences = finding[g].occurrences + 1
                /\ p.recurrences = IF a = "RECURRED" THEN finding[g].recurrences + 1
                                   ELSE finding[g].recurrences
                /\ p.status = IF a = "RECURRED" THEN "OPEN" ELSE finding[g].status
                /\ p.firstSeen = Earlier(finding[g].firstSeen, at)
                /\ p.lastSeen = Later(finding[g].lastSeen, at)
                /\ finding[g].firstSeen \in Times /\ finding[g].lastSeen \in Times
           /\ a = "RECURRED" => finding[g].status = "CLOSED" /\ at > finding[g].through
<1>1. a = "CREATED" <=> finding[g].status = "ABSENT"
  BY ClassifiedTyped
<1>2. a = "RECURRED" => finding[g].status = "CLOSED" /\ at > finding[g].through
  BY ClassifiedTyped
<1>3. p.status # "ABSENT"
  BY ProjectionTyped
<1>4. CASE a = "CREATED"
  BY <1>1, <1>2, <1>3, <1>4 DEF Projection
<1>5. CASE a # "CREATED"
  <2>1. finding[g] \in FindingRow
    BY DEF TypeOK
  <2>2. finding[g].firstSeen \in Times /\ finding[g].lastSeen \in Times
    BY <1>1, <1>5, <2>1 DEF TypeOK, FindingRow
  <2>3. /\ p.occurrences = finding[g].occurrences + 1
        /\ p.recurrences = IF a = "RECURRED" THEN finding[g].recurrences + 1
                           ELSE finding[g].recurrences
        /\ p.status = IF a = "RECURRED" THEN "OPEN" ELSE finding[g].status
        /\ p.firstSeen = Earlier(finding[g].firstSeen, at)
        /\ p.lastSeen = Later(finding[g].lastSeen, at)
    BY <1>5, <2>1 DEF Projection, FindingRow
  <2>4. QED
    BY <1>1, <1>2, <1>3, <1>5, <2>2, <2>3
<1>6. QED
  BY <1>4, <1>5

LEMMA EarliestAndLatest ==
    ASSUME NEW T \in SUBSET Nat, NEW at \in Nat, NEW s \in T
    PROVE  /\ (\A t \in T : s <= t) =>
                Earlier(s, at) \in T \cup {at} /\ \A t \in T \cup {at} : Earlier(s, at) <= t
           /\ (\A t \in T : t <= s) =>
                Later(s, at) \in T \cup {at} /\ \A t \in T \cup {at} : t <= Later(s, at)
<1>1. s \in Nat
  OBVIOUS
<1>2. (\A t \in T : s <= t) =>
         Earlier(s, at) \in T \cup {at} /\ \A t \in T \cup {at} : Earlier(s, at) <= t
  BY <1>1 DEF Earlier
<1>3. (\A t \in T : t <= s) =>
         Later(s, at) \in T \cup {at} /\ \A t \in T \cup {at} : t <= Later(s, at)
  BY <1>1 DEF Later
<1>4. QED
  BY <1>2, <1>3

\* A new observation adds one occurrence to its finding.
LEMMA NewObservation ==
    ASSUME IInv, PInv, NEW f \in Files, NEW g \in Findings, NEW at \in Times,
           NEW a, a = Classified(g, at), ~Replayed(g, f),
           finding' = [finding EXCEPT ![g] = Projection(g, at, a)],
           occurrence' = [occurrence EXCEPT ![<<g, f>>] = [action |-> a, at |-> at]]
    PROVE  PInv'
<1> DEFINE p == Projection(g, at, a)
<1>1. /\ p.status # "ABSENT"
      /\ a = "CREATED" <=> finding[g].status = "ABSENT"
      /\ a = "CREATED" => /\ p.occurrences = 1 /\ p.recurrences = 0
                          /\ p.firstSeen = at /\ p.lastSeen = at
      /\ a # "CREATED" =>
           /\ p.occurrences = finding[g].occurrences + 1
           /\ p.recurrences = IF a = "RECURRED" THEN finding[g].recurrences + 1
                              ELSE finding[g].recurrences
           /\ p.firstSeen = Earlier(finding[g].firstSeen, at)
           /\ p.lastSeen = Later(finding[g].lastSeen, at)
           /\ finding[g].firstSeen \in Times /\ finding[g].lastSeen \in Times
  BY ProjectionColumns DEF IInv
<1>2. a # "NONE"
  BY ClassifiedTyped DEF IInv, Actions
<1>3. finding' = [finding EXCEPT ![g] = p]
  OBVIOUS
<1> HIDE DEF p
<1>4. \A x \in Findings : finding'[x] = IF x = g THEN p ELSE finding[x]
  BY <1>3 DEF IInv, TypeOK
<1>5. \A x \in Findings, e \in Files :
        occurrence'[<<x, e>>] = IF x = g /\ e = f THEN [action |-> a, at |-> at]
                                ELSE occurrence[<<x, e>>]
  BY DEF IInv, TypeOK
<1>6. f \notin Seen(g) /\ Seen(g)' = Seen(g) \cup {f}
  BY <1>2, <1>5 DEF Seen, Replayed
<1>7. \A b : With(g, b)' = IF a = b THEN With(g, b) \cup {f} ELSE With(g, b)
  <2> SUFFICES ASSUME NEW b
               PROVE With(g, b)' = IF a = b THEN With(g, b) \cup {f} ELSE With(g, b)
    OBVIOUS
  <2>1. \A e \in Seen(g) : occurrence'[<<g, e>>] = occurrence[<<g, e>>]
    BY <1>5, <1>6 DEF Seen
  <2>2. occurrence'[<<g, f>>].action = a
    BY <1>5
  <2>3. QED
    BY <1>6, <2>1, <2>2 DEF With
<1>8. TimesOf(g)' = TimesOf(g) \cup {at}
  <2>1. \A e \in Seen(g) : occurrence'[<<g, e>>] = occurrence[<<g, e>>]
    BY <1>5, <1>6 DEF Seen
  <2>2. occurrence'[<<g, f>>].at = at
    BY <1>5
  <2>3. QED
    BY <1>6, <2>1, <2>2 DEF TimesOf
<1>9. ASSUME NEW x \in Findings, x # g
      PROVE  Agrees(x)'
  <2>1. finding'[x] = finding[x]
    BY <1>4, <1>9
  <2>2. \A e \in Files : occurrence'[<<x, e>>] = occurrence[<<x, e>>]
    BY <1>5, <1>9
  <2>3. Seen(x)' = Seen(x)
    BY <2>2 DEF Seen
  <2>4. \A e \in Seen(x) : e \in Files
    BY DEF Seen
  <2>5. (\A b : With(x, b)' = With(x, b)) /\ TimesOf(x)' = TimesOf(x)
    BY <2>2, <2>3, <2>4 DEF With, TimesOf
  <2>6. QED
    BY <2>1, <2>3, <2>5 DEF PInv, Agrees
<1>10. Agrees(g)'
  <2>1. /\ IsFiniteSet(Seen(g))
        /\ finding[g].status = "ABSENT" <=> Seen(g) = {}
        /\ finding[g].occurrences = Cardinality(Seen(g))
        /\ finding[g].recurrences = Cardinality(With(g, "RECURRED"))
        /\ Cardinality(With(g, "CREATED")) = IF finding[g].status = "ABSENT" THEN 0 ELSE 1
        /\ Seen(g) # {} =>
             /\ finding[g].firstSeen \in TimesOf(g) /\ \A t \in TimesOf(g) : finding[g].firstSeen <= t
             /\ finding[g].lastSeen \in TimesOf(g) /\ \A t \in TimesOf(g) : t <= finding[g].lastSeen
    BY DEF PInv, Agrees
  <2>2. IsFiniteSet(Seen(g)') /\ Cardinality(Seen(g)') = Cardinality(Seen(g)) + 1
    BY <1>6, <2>1, FS_AddElement
  <2>3. \A b : f \notin With(g, b) /\ IsFiniteSet(With(g, b)) /\ Cardinality(With(g, b)) \in Nat
    <3>1. \A b : With(g, b) \in SUBSET Seen(g)
      BY DEF With
    <3>2. QED
      BY <3>1, <1>6, <2>1, FS_Subset, FS_CardinalityType
  <2>4. \A b : Cardinality(With(g, b)') = IF a = b THEN Cardinality(With(g, b)) + 1
                                         ELSE Cardinality(With(g, b))
    BY <1>7, <2>3, FS_AddElement
  <2>5. finding'[g] = p
    BY <1>4
  <2>6. a = "CREATED" => Seen(g) = {} /\ \A b : With(g, b) = {}
    BY <1>1, <2>1 DEF With
  <2>7. finding'[g].occurrences = Cardinality(Seen(g)')
    BY <1>1, <2>1, <2>2, <2>5, <2>6, FS_EmptySet
  <2>8. finding'[g].recurrences = Cardinality(With(g, "RECURRED")')
    BY <1>1, <2>1, <2>4, <2>5, <2>6, FS_EmptySet
  <2>9. Cardinality(With(g, "CREATED")') = IF finding'[g].status = "ABSENT" THEN 0 ELSE 1
    BY <1>1, <2>1, <2>4, <2>5
  <2>10. /\ finding'[g].firstSeen \in TimesOf(g)' /\ \A t \in TimesOf(g)' : finding'[g].firstSeen <= t
         /\ finding'[g].lastSeen \in TimesOf(g)' /\ \A t \in TimesOf(g)' : t <= finding'[g].lastSeen
    <3>1. Times \subseteq Nat
      BY Params DEF ParamsAssumption
    <3>2. CASE a = "CREATED"
      <4>1. TimesOf(g) = {}
        BY <3>2, <2>6 DEF TimesOf
      <4>2. QED
        BY <4>1, <3>1, <3>2, <1>1, <1>8, <2>5
    <3>3. CASE a # "CREATED"
      <4>1. Seen(g) # {}
        BY <3>3, <1>1, <2>1
      <4>2. \A t \in TimesOf(g) : t \in Times
        <5>1. \A e \in Seen(g) : e \in Files /\ occurrence[<<g, e>>].at \in Times
          BY GroupsHaveRows DEF Seen, Replayed, IInv, ObservedAtLatest
        <5>2. QED
          BY <5>1 DEF TimesOf
      <4> DEFINE first == finding[g].firstSeen
                 last == finding[g].lastSeen
      <4>3. /\ first \in TimesOf(g) /\ \A t \in TimesOf(g) : first <= t
            /\ last \in TimesOf(g) /\ \A t \in TimesOf(g) : t <= last
        BY <4>1, <2>1
      <4>4. finding'[g].firstSeen = Earlier(first, at) /\ finding'[g].lastSeen = Later(last, at)
        BY <3>3, <1>1, <2>5
      <4> HIDE DEF first, last
      <4>5. TimesOf(g) \in SUBSET Nat /\ at \in Nat
        BY <4>2, <3>1
      <4>6. /\ Earlier(first, at) \in TimesOf(g) \cup {at}
            /\ \A t \in TimesOf(g) \cup {at} : Earlier(first, at) <= t
        BY <4>2, <4>3, <4>5, EarliestAndLatest
      <4>7. /\ Later(last, at) \in TimesOf(g) \cup {at}
            /\ \A t \in TimesOf(g) \cup {at} : t <= Later(last, at)
        BY <4>2, <4>3, <4>5, EarliestAndLatest
      <4>8. QED
        BY <4>4, <4>6, <4>7, <1>8
    <3>4. QED
      BY <3>2, <3>3
  <2>11. finding'[g].status # "ABSENT" /\ Seen(g)' # {}
    BY <1>1, <1>6, <2>5
  <2>12. QED
    BY <2>2, <2>7, <2>8, <2>9, <2>10, <2>11 DEF Agrees
<1>11. QED
  BY <1>9, <1>10 DEF PInv

\* Steps that observe nothing keep the columns, but for a closure.
LEMMA ColumnsKept ==
    ASSUME PInv, UNCHANGED occurrence,
           \A g \in Findings :
             /\ finding'[g].status = "ABSENT" <=> finding[g].status = "ABSENT"
             /\ finding'[g].occurrences = finding[g].occurrences
             /\ finding'[g].recurrences = finding[g].recurrences
             /\ finding'[g].firstSeen = finding[g].firstSeen
             /\ finding'[g].lastSeen = finding[g].lastSeen
    PROVE  PInv'
<1>1. \A g : Seen(g)' = Seen(g) /\ TimesOf(g)' = TimesOf(g) /\ \A a : With(g, a)' = With(g, a)
  BY DEF Seen, TimesOf, With
<1>2. ASSUME NEW g \in Findings
      PROVE  Agrees(g)'
  BY <1>1 DEF PInv, Agrees
<1>3. QED
  BY <1>2 DEF PInv

LEMMA ColumnsOfAClosure ==
    ASSUME TypeOK, NEW g \in Findings, NEW t \in Times, CloseFinding(g, t), NEW x \in Findings
    PROVE  /\ finding'[x].status = "ABSENT" <=> finding[x].status = "ABSENT"
           /\ finding'[x].occurrences = finding[x].occurrences
           /\ finding'[x].recurrences = finding[x].recurrences
           /\ finding'[x].firstSeen = finding[x].firstSeen
           /\ finding'[x].lastSeen = finding[x].lastSeen
           /\ finding'[x].status # finding[x].status => finding'[x].status = "CLOSED"
<1>1. finding[g] \in FindingRow /\ finding[g].status = "OPEN"
  BY DEF CloseFinding, TypeOK
<1>2. finding' = [finding EXCEPT ![g] = [finding[g] EXCEPT !.status = "CLOSED", !.through = t]]
  BY DEF CloseFinding, TypeOK
<1>3. finding'[x] = IF x = g THEN [finding[g] EXCEPT !.status = "CLOSED", !.through = t]
                    ELSE finding[x]
  BY <1>2 DEF TypeOK
<1>4. QED
  BY <1>1, <1>3 DEF FindingRow

LEMMA ProjectionsInit == Init => PInv
<1> SUFFICES ASSUME Init, NEW g \in Findings PROVE Agrees(g)
  BY DEF PInv
<1>1. Seen(g) = {} /\ \A a : With(g, a) = {}
  BY DEF Init, Seen, With
<1>2. QED
  BY <1>1, FS_EmptySet DEF Init, Agrees

LEMMA ProjectionsStep == IInv /\ PInv /\ [Next]_vars => PInv'
<1> SUFFICES ASSUME IInv, PInv, [Next]_vars PROVE PInv'
  OBVIOUS
<1>1. ASSUME NEW u \in Uploads, RecordFindingObservation(u)
      PROVE  PInv'
  <2>1. PICK f, g, at : ObservationOf(u, f, g, at)
    BY <1>1, ObservationEffect
  <2>2. f \in Files /\ g \in Findings /\ at \in Times
    BY <2>1 DEF ObservationOf
  <2>3. CASE UNCHANGED <<finding, occurrence>>
    BY <2>3, ColumnsKept
  <2>4. CASE /\ ~Replayed(g, f)
             /\ finding' = [finding EXCEPT ![g] = Projection(g, at, Classified(g, at))]
             /\ occurrence' = [occurrence EXCEPT ![<<g, f>>] =
                                 [action |-> Classified(g, at), at |-> at]]
    BY <2>2, <2>4, NewObservation
  <2>5. QED
    BY <2>1, <2>3, <2>4 DEF ObservationOf
<1>2. ASSUME NEW g \in Findings, NEW t \in Times, CloseFinding(g, t)
      PROVE  PInv'
  <2>1. UNCHANGED occurrence
    BY <1>2 DEF CloseFinding
  <2>2. QED
    BY <1>2, <2>1, ColumnsOfAClosure, ColumnsKept DEF IInv
<1>3. ASSUME UNCHANGED <<finding, occurrence>>
      PROVE  PInv'
  BY <1>3, ColumnsKept
<1>4. QED
  BY <1>1, <1>2, <1>3 DEF Next, Proceed, Receive, ReceiveUpload, CreateRawReport,
     BeginProcessing, PersistRow, FinishReport, ReopenCases, FailReport, Crash, vars

LEMMA ProjectionsInductive == Spec => [](IInv /\ PInv)
<1>1. QED
  BY InitHolds, StepPreserves, ProjectionsInit, ProjectionsStep, PTL DEF Spec

\* The columns of a finding can always be derived from its occurrences, whatever was
\* replayed, retried or arrived out of order.
THEOREM ProjectionsMatch == Spec => []ProjectionsMatchEvidence
<1>1. PInv => ProjectionsMatchEvidence
  <2> SUFFICES ASSUME PInv, NEW g \in Findings
               PROVE  /\ finding[g].occurrences = Cardinality(Seen(g))
                      /\ finding[g].recurrences
                           = Cardinality({f \in Seen(g) : occurrence[<<g, f>>].action = "RECURRED"})
                      /\ Cardinality({f \in Seen(g) : occurrence[<<g, f>>].action = "CREATED"})
                           = IF finding[g].status = "ABSENT" THEN 0 ELSE 1
                      /\ Seen(g) # {} =>
                           /\ finding[g].firstSeen \in TimesOf(g)
                           /\ \A t \in TimesOf(g) : finding[g].firstSeen <= t
                           /\ finding[g].lastSeen \in TimesOf(g)
                           /\ \A t \in TimesOf(g) : t <= finding[g].lastSeen
    BY DEF ProjectionsMatchEvidence, TimesOf
  <2>1. QED
    BY DEF PInv, Agrees, With
<1>2. QED
  BY <1>1, ProjectionsInductive, PTL

\* A finding is reopened by one recurrence and by nothing else, on evidence newer than
\* its closure; rows and occurrences are never touched again.
THEOREM ReopeningsEvidenced == Spec => ReopeningsAreEvidenced
<1> DEFINE Evidenced ==
             /\ \A k \in Findings \X Files :
                  occurrence[k].action # "NONE" => occurrence'[k] = occurrence[k]
             /\ \A f \in Files : rows[f] \subseteq rows'[f]
             /\ \A g \in Findings :
                  /\ Reopens(g) <=> finding'[g].recurrences # finding[g].recurrences
                  /\ Reopens(g) => \E f \in Files : /\ occurrence[<<g, f>>].action = "NONE"
                                                   /\ occurrence'[<<g, f>>].action = "RECURRED"
                                                   /\ occurrence'[<<g, f>>].at > finding[g].through
<1>1. ASSUME IInv, PInv, [Next]_vars
      PROVE  [Evidenced]_vars
  <2>1. Grows
    BY <1>1, StepGrows
  <2>2. ASSUME NEW u \in Uploads, RecordFindingObservation(u), NEW x \in Findings
        PROVE  /\ Reopens(x) <=> finding'[x].recurrences # finding[x].recurrences
               /\ Reopens(x) => \E f \in Files : /\ occurrence[<<x, f>>].action = "NONE"
                                                /\ occurrence'[<<x, f>>].action = "RECURRED"
                                                /\ occurrence'[<<x, f>>].at > finding[x].through
    <3>1. PICK f, g, at : ObservationOf(u, f, g, at)
      BY <1>1, <2>2, ObservationEffect
    <3>2. f \in Files /\ g \in Findings /\ at \in Times
      BY <3>1 DEF ObservationOf
    <3>3. CASE UNCHANGED finding
      BY <3>3 DEF Reopens
    <3>4. CASE /\ ~Replayed(g, f)
               /\ finding' = [finding EXCEPT ![g] = Projection(g, at, Classified(g, at))]
               /\ occurrence' = [occurrence EXCEPT ![<<g, f>>] =
                                   [action |-> Classified(g, at), at |-> at]]
      <4> DEFINE a == Classified(g, at)
                 p == Projection(g, at, a)
      <4>1. /\ a = "CREATED" <=> finding[g].status = "ABSENT"
            /\ a = "CREATED" => p.status = "OPEN" /\ p.recurrences = 0
            /\ a # "CREATED" =>
                 /\ p.recurrences = IF a = "RECURRED" THEN finding[g].recurrences + 1
                                    ELSE finding[g].recurrences
                 /\ p.status = IF a = "RECURRED" THEN "OPEN" ELSE finding[g].status
            /\ a = "RECURRED" => finding[g].status = "CLOSED" /\ at > finding[g].through
        BY <1>1, <3>2, ProjectionColumns DEF IInv
      <4>2. finding' = [finding EXCEPT ![g] = p]
        BY <3>4
      <4>3. occurrence' = [occurrence EXCEPT ![<<g, f>>] = [action |-> a, at |-> at]]
        BY <3>4
      <4> HIDE DEF a, p
      <4>4. finding'[x] = IF x = g THEN p ELSE finding[x]
        BY <4>2, <1>1 DEF IInv, TypeOK
      <4>5. occurrence'[<<g, f>>].action = a /\ occurrence'[<<g, f>>].at = at
        BY <4>3, <3>2, <1>1 DEF IInv, TypeOK
      <4>6. occurrence[<<g, f>>].action = "NONE"
        BY <3>4 DEF Replayed
      <4>7. finding[g].recurrences \in Nat
        BY <1>1, <3>2 DEF IInv, TypeOK, FindingRow
      <4>8. finding[g].status = "ABSENT" => finding[g].recurrences = 0
        <5>1. Agrees(g)
          BY <1>1, <3>2 DEF PInv
        <5>2. Seen(g) = {} => With(g, "RECURRED") = {}
          BY DEF With
        <5>3. QED
          BY <5>1, <5>2, FS_EmptySet DEF Agrees
      <4>9. CASE x = g /\ a = "RECURRED"
        BY <4>9, <4>1, <4>4, <4>5, <4>6, <4>7, <3>2 DEF Reopens
      <4>10. CASE x # g \/ a # "RECURRED"
        BY <4>10, <4>1, <4>4, <4>8 DEF Reopens
      <4>11. QED
        BY <4>9, <4>10
    <3>5. QED
      BY <3>1, <3>3, <3>4 DEF ObservationOf
  <2>3. ASSUME NEW u \in Uploads, RecordFindingObservation(u)
        PROVE  Evidenced
    BY <2>1, <2>2, <2>3 DEF Grows
  <2>4. ASSUME NEW g \in Findings, NEW t \in Times, CloseFinding(g, t)
        PROVE  Evidenced
    <3>1. \A x \in Findings : /\ ~Reopens(x)
                             /\ finding'[x].recurrences = finding[x].recurrences
      BY <1>1, <2>4, ColumnsOfAClosure DEF IInv, Reopens
    <3>2. QED
      BY <2>1, <3>1 DEF Grows
  <2>5. ASSUME UNCHANGED finding
        PROVE  Evidenced
    BY <2>1, <2>5 DEF Grows, Reopens
  <2>6. QED
    BY <1>1, <2>3, <2>4, <2>5 DEF Next, Proceed, Receive, ReceiveUpload, CreateRawReport,
       BeginProcessing, PersistRow, FinishReport, ReopenCases, FailReport, Crash, vars
<1>2. QED
  BY <1>1, ProjectionsInductive, PTL DEF Spec, ReopeningsAreEvidenced

-----------------------------------------------------------------------------
(* Enrichment runs: the inductive invariant. *)

\* A request that has listed the items of its run.
Listed == {"resolving", "delegating", "opening", "colliding", "writing", "storing", "answered"}

\* The job of an eligible item is its target's, and was not settled when the run was asked for.
WorkFits(i, k, t) ==
    i.decision = "ELIGIBLE" => i.job \in Jobs /\ i.job[1] = t /\ i.job \notin run[k].settled

\* A request at work has a run; once it has listed the items, what is not there is still to
\* be done; and what it is about to write fits.
Fits(x) ==
    /\ x.pc \notin {"idle", "failed"} => x.run \in Runs
    /\ x.pc \in {"idle", "failed"} => x.todo = {}
    /\ x.run \in Runs => x.todo \subseteq Scope[x.run]
    /\ x.pc \in Listed \cup {"listing"} => run[x.run].state # "ABSENT"
    /\ x.pc \in Listed => Scope[x.run] \subseteq Present(x.run) \cup x.todo
    /\ x.pc \in {"storing", "answered"} => x.todo = {}
    /\ x.pc \in {"delegating", "opening", "colliding", "writing"} => x.todo # {}
    /\ x.pc = "writing" => x.item.decision \in Decisions /\ WorkFits(x.item, x.run, First(x.todo))
    /\ x.pc = "storing" => x.state \in RunStates

RequestsFit == \A q \in Requests : Fits(rq[q])

\* A job that is over stays so.
SettledAreOver == \A k \in Runs : \A j \in run[k].settled : IsSettled(j)

ItemFits(k, t) ==
    /\ item[<<k, t>>].decision = "ABSENT" => item[<<k, t>>] = NoItem
    /\ item[<<k, t>>].decision # "ABSENT" => run[k].state # "ABSENT" /\ t \in Scope[k]
    /\ WorkFits(item[<<k, t>>], k, t)

ItemsFit == \A k \in Runs, t \in Targets : ItemFits(k, t)

\* The jobs of a target are numbered as they are created, without a gap.
JobsNumbered ==
    \A t \in Targets : \E c \in 0..MaxJobs :
        \A m \in 1..MaxJobs : job[<<t, m>>].state # "ABSENT" <=> m <= c

WorkersFit ==
    \A w \in Workers : wk[w].pc = "storing" => wk[w].run \in Runs /\ wk[w].state \in RunStates

RunInv ==
    /\ RunTypeOK
    /\ RequestsFit
    /\ SettledAreOver
    /\ ItemsFit
    /\ JobsNumbered
    /\ WorkersFit

-----------------------------------------------------------------------------
(* Targets and states. *)

LEMMA FirstIsIn ==
    ASSUME NEW S \in SUBSET Targets, S # {}
    PROVE  First(S) \in S
<1>1. S \subseteq Nat
  BY DEF Targets
<1> QED BY <1>1, LeastNatural DEF First

LEMMA ScopesAreTargets ==
    ASSUME NEW k \in Runs
    PROVE  Scope[k] \in SUBSET Targets
BY RunParams DEF RunParamsAssumption, Targets

LEMMA RunStateDerived ==
    ASSUME NEW k
    PROVE  RecomputeRunState(k) \in RunStates
<1> DEFINE states == {job[j].state : j \in JobsOf(k)}
<1>1. CASE states = {}
  BY <1>1 DEF RecomputeRunState, RunStates, TerminalRunStates
<1>2. CASE states # {} /\ "LEASED" \in states
  BY <1>2 DEF RecomputeRunState, RunStates, TerminalRunStates
<1> QED BY <1>1, <1>2 DEF RecomputeRunState, RunStates, TerminalRunStates

LEMMA StatesDiffer ==
    /\ "ABSENT" \notin Open \cup Closed \cup RunStates \cup Decisions
    /\ Open \cap Closed = {}
    /\ "PENDING" \in RunStates
BY DEF Open, Closed, RunStates, TerminalRunStates, Decisions

-----------------------------------------------------------------------------
(* Steps in general. *)

\* No run goes, and no item does.
RunsGrow ==
    /\ \A k \in Runs : run[k].state # "ABSENT" =>
          run[k].state' # "ABSENT" /\ run[k].settled' = run[k].settled
    /\ \A k \in Runs : Present(k) \subseteq Present(k)'

\* What fits goes on to fit as runs and items are added.
LEMMA FittingLasts ==
    ASSUME RunsGrow, NEW x, Fits(x)
    PROVE  Fits(x)'
<1>1. x.pc \in Listed \cup {"listing"} => x.run \in Runs
  BY DEF Fits, Listed
<1>2. x.pc \in Listed \cup {"listing"} =>
          run'[x.run].state # "ABSENT" /\ run'[x.run].settled = run[x.run].settled
  BY <1>1 DEF Fits, RunsGrow
<1>3. x.pc \in Listed => Scope[x.run] \subseteq Present(x.run)' \cup x.todo
  BY <1>1 DEF Fits, RunsGrow
<1>4. x.pc = "writing" => WorkFits(x.item, x.run, First(x.todo))'
  BY <1>2 DEF Fits, WorkFits, Listed, First
<1> HIDE DEF Listed
<1> QED BY <1>1, <1>2, <1>3, <1>4 DEF Fits, First

LEMMA OneRequestMoves ==
    ASSUME RunInv, RunsGrow, NEW q \in Requests, NEW x, rq' = [rq EXCEPT ![q] = x], Fits(x)'
    PROVE  RequestsFit'
<1> SUFFICES ASSUME NEW p \in Requests
             PROVE  Fits(rq[p])'
  BY DEF RequestsFit
<1>1. PICK y : y = rq'[p]
  OBVIOUS
<1>2. Fits(y)'
  <2>1. CASE p = q
    <3>1. y = x BY <1>1, <2>1 DEF RunInv, RunTypeOK
    <3> QED BY <3>1
  <2>2. CASE p # q
    <3>1. y = rq[p] BY <1>1, <2>2 DEF RunInv, RunTypeOK
    <3>2. Fits(y) BY <3>1 DEF RunInv, RequestsFit
    <3> QED BY <3>2, FittingLasts
  <2> QED BY <2>1, <2>2
<1> QED BY <1>1, <1>2 DEF Fits, WorkFits, First, Present

LEMMA NoRequestMoves ==
    ASSUME RunInv, RunsGrow, rq' = rq
    PROVE  RequestsFit'
<1> SUFFICES ASSUME NEW p \in Requests
             PROVE  Fits(rq[p])'
  BY DEF RequestsFit
<1>1. PICK y : y = rq'[p]
  OBVIOUS
<1>2. Fits(y)
  BY <1>1 DEF RunInv, RequestsFit
<1>3. Fits(y)'
  BY <1>2, FittingLasts
<1> QED BY <1>1, <1>3 DEF Fits, WorkFits, First, Present

LEMMA SameRunsGrow ==
    ASSUME UNCHANGED <<run, item>>
    PROVE  RunsGrow
BY DEF RunsGrow, Present

\* A step of a request that writes no row.
LEMMA LocalStep ==
    ASSUME RunInv, UNCHANGED <<run, item, job, wk, returns>>, deaths' \in 0..MaxDeaths,
           NEW q \in Requests, NEW x \in Request, rq' = [rq EXCEPT ![q] = x], Fits(x)
    PROVE  RunInv'
<1>1. RunsGrow
  BY SameRunsGrow
<1>2. Fits(x)'
  BY <1>1, FittingLasts
<1>3. RequestsFit'
  BY <1>1, <1>2, OneRequestMoves
<1>4. RunTypeOK'
  BY DEF RunInv, RunTypeOK
<1>5. SettledAreOver' /\ ItemsFit' /\ JobsNumbered' /\ WorkersFit'
  BY DEF RunInv, SettledAreOver, IsSettled, ItemsFit, ItemFits, WorkFits, JobsNumbered, WorkersFit
<1> QED BY <1>3, <1>4, <1>5 DEF RunInv

-----------------------------------------------------------------------------
(* The steps of a request. *)

LEMMA RequestIs ==
    ASSUME RunInv, NEW q \in Requests
    PROVE  /\ rq[q] \in Request /\ Fits(rq[q])
           /\ deaths \in 0..MaxDeaths
BY DEF RunInv, RunTypeOK, RequestsFit

\* A request that is through, with or without an answer, keeps only its run.
Over(r, pc) == [NewRequest EXCEPT !.pc = pc, !.run = r]

LEMMA OverIsRequest ==
    ASSUME NEW r \in Runs \cup {"none"}, NEW pc \in RequestPCs
    PROVE  /\ Over(r, pc) \in Request
           /\ Over(r, pc).pc = pc /\ Over(r, pc).run = r /\ Over(r, pc).todo = {}
BY DEF Over, NewRequest, Request, NoItem, Item, Decisions

LEMMA FailedFits ==
    ASSUME NEW r \in Runs \cup {"none"}
    PROVE  Over(r, "failed") \in Request /\ Fits(Over(r, "failed"))
<1>1. "failed" \in RequestPCs
  BY DEF RequestPCs
<1> QED BY <1>1, OverIsRequest DEF Fits, Listed

LEMMA AskKeeps ==
    ASSUME RunInv, NEW q \in Requests, NEW k \in Runs, Ask(q, k)
    PROVE  RunInv'
<1> DEFINE x == [rq[q] EXCEPT !.pc = "routing", !.run = k, !.todo = Scope[k]]
<1>1. x \in Request
  BY RequestIs, ScopesAreTargets DEF Request, RequestPCs
<1>2. Fits(x)
  BY RequestIs DEF Request, Fits, Listed
<1>3. rq' = [rq EXCEPT ![q] = x] /\ UNCHANGED <<run, item, job, wk, returns, deaths>>
  BY DEF Ask, Local
<1> HIDE DEF x
<1> QED BY <1>1, <1>2, <1>3, RequestIs, LocalStep

LEMMA RouteTargetKeeps ==
    ASSUME RunInv, NEW q \in Requests, RouteTarget(q)
    PROVE  RunInv'
<1> DEFINE t == First(rq[q].todo)
           x == [rq[q] EXCEPT !.todo = @ \ {t}, !.route[t] = Route(rq[q].run, t)]
<1>1. t \in Targets
  BY RequestIs, FirstIsIn DEF Request, RouteTarget
<1>2. Route(rq[q].run, t) \in Decisions
  BY DEF Route, Decisions
<1> HIDE DEF t
<1>3. x \in Request
  BY <1>1, <1>2, RequestIs DEF Request
<1>4. Fits(x)
  BY RequestIs DEF Request, Fits, Listed, RouteTarget
<1>5. rq' = [rq EXCEPT ![q] = x] /\ UNCHANGED <<run, item, job, wk, returns, deaths>>
  BY DEF RouteTarget, Local, t
<1> HIDE DEF x
<1> QED BY <1>3, <1>4, <1>5, RequestIs, LocalStep

LEMMA FindRunKeeps ==
    ASSUME RunInv, NEW q \in Requests, FindRun(q)
    PROVE  RunInv'
<1> DEFINE pc == IF run[rq[q].run].state = "ABSENT" THEN "creating" ELSE "listing"
           x == [rq[q] EXCEPT !.pc = pc]
<1>1. x \in Request
  BY RequestIs DEF Request, RequestPCs
<1>2. Fits(x)
  BY RequestIs DEF Request, Fits, Listed, FindRun
<1>3. rq' = [rq EXCEPT ![q] = x] /\ UNCHANGED <<run, item, job, wk, returns, deaths>>
  BY DEF FindRun, Goto
<1> HIDE DEF x
<1> QED BY <1>1, <1>2, <1>3, RequestIs, LocalStep

LEMMA ListItemsKeeps ==
    ASSUME RunInv, NEW q \in Requests, ListItems(q)
    PROVE  RunInv'
<1> DEFINE x == [rq[q] EXCEPT !.pc = "resolving", !.todo = Scope[rq[q].run] \ Present(rq[q].run)]
<1>1. rq[q].run \in Runs
  BY RequestIs DEF Fits, ListItems
<1>2. x \in Request
  BY <1>1, RequestIs, ScopesAreTargets DEF Request, RequestPCs
<1>3. Fits(x)
  BY <1>1, RequestIs DEF Request, Fits, Listed, ListItems
<1>4. rq' = [rq EXCEPT ![q] = x] /\ UNCHANGED <<run, item, job, wk, returns, deaths>>
  BY DEF ListItems, Local
<1> HIDE DEF x
<1> QED BY <1>2, <1>3, <1>4, RequestIs, LocalStep

LEMMA ReadItemsKeeps ==
    ASSUME RunInv, NEW q \in Requests, ReadItems(q)
    PROVE  RunInv'
<1> DEFINE x == [rq[q] EXCEPT !.pc = "storing", !.state = RecomputeRunState(rq[q].run)]
<1>1. x \in Request
  BY RunStateDerived, RequestIs DEF Request, RequestPCs
<1>2. Fits(x)
  BY RunStateDerived, RequestIs DEF Request, Fits, Listed, ReadItems
<1>3. rq' = [rq EXCEPT ![q] = x] /\ UNCHANGED <<run, item, job, wk, returns, deaths>>
  BY DEF ReadItems, Local
<1> HIDE DEF x
<1> QED BY <1>1, <1>2, <1>3, RequestIs, LocalStep

LEMMA RequestFailsKeeps ==
    ASSUME RunInv, NEW q \in Requests, RequestFails(q)
    PROVE  RunInv'
<1>1. rq[q].run \in Runs \cup {"none"}
  BY RequestIs DEF Request
<1>2. rq' = [rq EXCEPT ![q] = Over(rq[q].run, "failed")] /\ UNCHANGED <<run, item, job, wk, returns>>
  BY DEF RequestFails, End, Local, Over
<1>3. deaths' \in 0..MaxDeaths
  BY RequestIs, RunParams DEF RequestFails, RunParamsAssumption
<1> QED BY <1>1, <1>2, <1>3, FailedFits, LocalStep

\* A request turns to the writing of an item that fits, for the first of its targets.
LEMMA TurningToWrite ==
    ASSUME RunInv, UNCHANGED <<run, item, job, wk, returns, deaths>>, NEW q \in Requests,
           rq[q].pc \in {"resolving", "delegating", "opening", "colliding"}, rq[q].todo # {},
           NEW i \in Item, i.decision \in Decisions, WorkFits(i, rq[q].run, First(rq[q].todo)),
           Local(q, [rq[q] EXCEPT !.pc = "writing", !.item = i])
    PROVE  RunInv'
<1> DEFINE x == [rq[q] EXCEPT !.pc = "writing", !.item = i]
<1>1. x \in Request
  BY RequestIs DEF Request, RequestPCs
<1>2. x.run = rq[q].run /\ x.todo = rq[q].todo /\ x.pc = "writing" /\ x.item = i
  BY RequestIs DEF Request
<1>3. Fits(x)
  BY <1>2, RequestIs DEF Fits, Listed
<1>4. rq' = [rq EXCEPT ![q] = x]
  BY DEF Local
<1> HIDE DEF x
<1> QED BY <1>1, <1>3, <1>4, RequestIs, LocalStep

LEMMA SkippingFits ==
    ASSUME NEW k, NEW t
    PROVE  Skip \in Item /\ Skip.decision \in Decisions /\ WorkFits(Skip, k, t)
BY DEF Skip, Item, Decisions, WorkFits

\* A job that is open was not over when the run was asked for.
LEMMA SharingFits ==
    ASSUME RunInv, NEW k \in Runs, NEW t, NEW j \in Jobs, j[1] = t, IsOpen(j)
    PROVE  Share(j) \in Item /\ Share(j).decision \in Decisions /\ WorkFits(Share(j), k, t)
<1>1. j \notin run[k].settled
  BY StatesDiffer DEF RunInv, SettledAreOver, IsSettled, IsOpen
<1> QED BY <1>1 DEF Share, Item, Decisions, WorkFits

\* A request goes on to another step for the same target.
LEMMA GoingOn ==
    ASSUME RunInv, UNCHANGED <<run, item, job, wk, returns, deaths>>, NEW q \in Requests,
           rq[q].pc \in {"resolving", "delegating", "opening", "colliding"}, rq[q].todo # {},
           NEW pc \in {"delegating", "opening", "colliding"}, Goto(q, pc)
    PROVE  RunInv'
<1> DEFINE x == [rq[q] EXCEPT !.pc = pc]
<1>1. x \in Request
  BY RequestIs DEF Request, RequestPCs
<1>2. Fits(x)
  BY RequestIs DEF Request, Fits, Listed
<1>3. rq' = [rq EXCEPT ![q] = x]
  BY DEF Goto
<1> HIDE DEF x
<1> QED BY <1>1, <1>2, <1>3, RequestIs, LocalStep

LEMMA ResolveTargetKeeps ==
    ASSUME RunInv, NEW q \in Requests, ResolveTarget(q)
    PROVE  RunInv'
<1> DEFINE t == First(rq[q].todo)
           j == CHOOSE j \in OpenJobs(t) : TRUE
           pc == IF t \in Delegated THEN "delegating" ELSE "opening"
<1>1. /\ rq[q].pc = "resolving" /\ rq[q].todo # {}
      /\ UNCHANGED <<run, item, job, wk, returns, deaths>>
  BY DEF ResolveTarget
<1>2. rq[q].run \in Runs
  BY <1>1, RequestIs DEF Fits
<1>3. CASE rq[q].route[t] = "SKIPPED"
  <2>1. Local(q, [rq[q] EXCEPT !.pc = "writing", !.item = Skip])
    BY <1>3 DEF ResolveTarget
  <2> QED BY <1>1, <2>1, SkippingFits, TurningToWrite
<1>4. CASE rq[q].route[t] # "SKIPPED" /\ OpenJobs(t) # {} /\ rq[q].route[t] = "ELIGIBLE"
  <2>1. Local(q, [rq[q] EXCEPT !.pc = "writing", !.item = Share(j)])
    BY <1>4 DEF ResolveTarget
  <2>2. j \in Jobs /\ j[1] = t /\ IsOpen(j)
    BY <1>4 DEF OpenJobs
  <2> HIDE DEF j
  <2> QED BY <1>1, <1>2, <2>1, <2>2, SharingFits, TurningToWrite
<1>5. CASE rq[q].route[t] # "SKIPPED" /\ ~(OpenJobs(t) # {} /\ rq[q].route[t] = "ELIGIBLE")
  <2>1. Local(q, [rq[q] EXCEPT !.pc = pc])
    BY <1>5 DEF ResolveTarget
  <2>2. Goto(q, pc) /\ pc \in {"delegating", "opening", "colliding"}
    BY <2>1 DEF Local, Goto
  <2> HIDE DEF pc
  <2> QED BY <1>1, <2>2, GoingOn
<1> QED BY <1>3, <1>4, <1>5

LEMMA EstablishDelegateKeeps ==
    ASSUME RunInv, NEW q \in Requests, EstablishDelegate(q)
    PROVE  RunInv'
<1>1. /\ rq[q].pc = "delegating" /\ rq[q].todo # {}
      /\ UNCHANGED <<run, item, job, wk, returns, deaths>>
  BY RequestIs DEF EstablishDelegate, Fits
<1>2. CASE Local(q, [rq[q] EXCEPT !.pc = "writing", !.item = Skip])
  BY <1>1, <1>2, SkippingFits, TurningToWrite
<1>3. CASE Goto(q, "opening")
  BY <1>1, <1>3, GoingOn
<1> QED BY <1>2, <1>3 DEF EstablishDelegate

LEMMA ReadWinnerKeeps ==
    ASSUME RunInv, NEW q \in Requests, ReadWinner(q)
    PROVE  RunInv'
<1> DEFINE t == First(rq[q].todo)
           j == CHOOSE j \in OpenJobs(t) : TRUE
<1>1. /\ rq[q].pc = "colliding" /\ rq[q].todo # {} /\ rq[q].run \in Runs
      /\ UNCHANGED <<run, item, job, wk, returns, deaths>>
  BY RequestIs DEF ReadWinner, Fits
<1>2. CASE OpenJobs(t) # {}
  <2>1. Local(q, [rq[q] EXCEPT !.pc = "writing", !.item = Share(j)])
    BY <1>2 DEF ReadWinner
  <2>2. j \in Jobs /\ j[1] = t /\ IsOpen(j)
    BY <1>2 DEF OpenJobs
  <2> HIDE DEF j
  <2> QED BY <1>1, <2>1, <2>2, SharingFits, TurningToWrite
<1>3. CASE OpenJobs(t) = {}
  <2>1. rq' = [rq EXCEPT ![q] = Over(rq[q].run, "failed")]
    BY <1>3 DEF ReadWinner, End, Local, Over
  <2>2. deaths' \in 0..MaxDeaths
    BY <1>1, RequestIs
  <2> QED BY <1>1, <2>1, <2>2, FailedFits, LocalStep
<1> QED BY <1>2, <1>3

-----------------------------------------------------------------------------
(* The steps of a request that write a row. *)

LEMMA WriteItemKeeps ==
    ASSUME RunInv, NEW q \in Requests, WriteItem(q)
    PROVE  RunInv'
<1>0. PICK r, t, x : /\ r = rq[q] /\ t = First(r.todo)
                    /\ x = [r EXCEPT !.pc = "resolving", !.todo = @ \ {t}, !.item = NoItem,
                                      !.route[t] = "SKIPPED"]
  OBVIOUS
<1>1. /\ r.pc = "writing" /\ UNCHANGED <<run, job, wk, returns, deaths>>
      /\ rq' = [rq EXCEPT ![q] = x]
      /\ item' = IF item[<<r.run, t>>] = NoItem THEN [item EXCEPT ![<<r.run, t>>] = r.item] ELSE item
  BY <1>0 DEF WriteItem, Local
<1>2. /\ r \in Request /\ r.run \in Runs /\ r.todo # {} /\ r.todo \subseteq Scope[r.run]
      /\ run[r.run].state # "ABSENT" /\ Scope[r.run] \subseteq Present(r.run) \cup r.todo
      /\ r.item \in Item /\ r.item.decision \in Decisions /\ WorkFits(r.item, r.run, t)
  BY <1>0, <1>1, RequestIs DEF Fits, Listed, Request
<1>3. t \in r.todo /\ t \in Targets /\ t \in Scope[r.run]
  BY <1>0, <1>2, FirstIsIn DEF Request
<1>4. x \in Request /\ x.pc = "resolving" /\ x.todo = r.todo \ {t} /\ x.run = r.run
  BY <1>0, <1>2 DEF Request, RequestPCs, NoItem, Item, Decisions
<1>5. item \in [Runs \X Targets -> Item]
  BY DEF RunInv, RunTypeOK
<1>6. item' \in [Runs \X Targets -> Item]
  BY <1>1, <1>2, <1>3, <1>5
<1>7. \A k \in Runs, u \in Targets :
          \/ item'[<<k, u>>] = item[<<k, u>>]
          \/ k = r.run /\ u = t /\ item'[<<k, u>>] = r.item /\ item[<<k, u>>] = NoItem
  BY <1>1, <1>2, <1>3, <1>5
<1>8. item'[<<r.run, t>>].decision # "ABSENT"
  <2>1. CASE item[<<r.run, t>>] = NoItem
    BY <1>1, <1>2, <1>3, <1>5, <2>1, StatesDiffer
  <2>2. CASE item[<<r.run, t>>] # NoItem
    BY <1>1, <1>2, <1>3, <2>2 DEF RunInv, ItemsFit, ItemFits
  <2> QED BY <2>1, <2>2
<1>9. \A k \in Runs : Present(k) \subseteq Present(k)'
  BY <1>7 DEF Present, NoItem
<1>10. RunsGrow
  BY <1>1, <1>9 DEF RunsGrow
<1>11. t \in Present(r.run)' /\ Present(r.run) \subseteq Present(r.run)'
  BY <1>2, <1>3, <1>8, <1>9 DEF Present
<1>12. Fits(x)'
  BY <1>1, <1>2, <1>4, <1>11 DEF Fits, Listed
<1>13. RequestsFit'
  BY <1>1, <1>10, <1>12, OneRequestMoves
<1>14. ItemsFit'
  <2> SUFFICES ASSUME NEW k \in Runs, NEW u \in Targets
               PROVE  ItemFits(k, u)'
    BY DEF ItemsFit
  <2>1. ItemFits(k, u)
    BY DEF RunInv, ItemsFit
  <2>2. CASE item'[<<k, u>>] = item[<<k, u>>]
    BY <1>1, <2>1, <2>2 DEF ItemFits, WorkFits
  <2>3. CASE k = r.run /\ u = t /\ item'[<<k, u>>] = r.item
    BY <1>1, <1>2, <1>3, <1>8, <2>3 DEF ItemFits, WorkFits
  <2> QED BY <1>7, <2>2, <2>3
<1>15. RunTypeOK'
  BY <1>1, <1>4, <1>6 DEF RunInv, RunTypeOK
<1>16. SettledAreOver' /\ JobsNumbered' /\ WorkersFit'
  BY <1>1 DEF RunInv, SettledAreOver, IsSettled, JobsNumbered, WorkersFit
<1> QED BY <1>13, <1>14, <1>15, <1>16 DEF RunInv

LEMMA CreateRunKeeps ==
    ASSUME RunInv, NEW q \in Requests, CreateRun(q)
    PROVE  RunInv'
<1> DEFINE k == rq[q].run
           settled == {j \in Jobs : IsSettled(j)}
           new == [state |-> "PENDING", settled |-> settled]
<1>0. PICK x : x = [rq[q] EXCEPT !.pc = "listing"]
  OBVIOUS
<1>1. rq[q].pc = "creating" /\ k \in Runs
  BY RequestIs DEF CreateRun, Fits
<1>2. CASE run[k].state # "ABSENT"
  <2> DEFINE y == [rq[q] EXCEPT !.pc = "finding"]
  <2>1. y \in Request
    BY RequestIs DEF Request, RequestPCs
  <2>2. Fits(y)
    BY <1>1, RequestIs DEF Request, Fits, Listed
  <2>3. rq' = [rq EXCEPT ![q] = y] /\ UNCHANGED <<run, item, job, wk, returns, deaths>>
    BY <1>2 DEF CreateRun, Goto
  <2> HIDE DEF y
  <2> QED BY <2>1, <2>2, <2>3, RequestIs, LocalStep
<1>3. CASE run[k].state = "ABSENT"
  <2>1. /\ run' = [run EXCEPT ![k] = new] /\ rq' = [rq EXCEPT ![q] = x]
        /\ UNCHANGED <<item, job, wk, returns, deaths>>
    BY <1>0, <1>3 DEF CreateRun, Goto
  <2>2. new \in Run /\ new.state = "PENDING" /\ new.settled = settled
    BY StatesDiffer DEF Run
  <2>3. x \in Request /\ x.pc = "listing" /\ x.run = k /\ x.todo = rq[q].todo
    BY <1>0, RequestIs DEF Request, RequestPCs
  <2>4. run \in [Runs -> Run]
    BY DEF RunInv, RunTypeOK
  <2> HIDE DEF k, new
  <2>5. /\ run'[k] = new
        /\ \A l \in Runs : l # k => run'[l] = run[l]
        /\ run' \in [Runs -> Run]
    BY <1>1, <2>1, <2>2, <2>4
  <2>6. RunsGrow
    BY <1>3, <2>1, <2>5 DEF RunsGrow, Present
  <2>7. Fits(x)'
    BY <1>1, <2>1, <2>2, <2>3, <2>5, RequestIs DEF Fits, Listed, k
  <2>8. RequestsFit'
    BY <2>1, <2>6, <2>7, OneRequestMoves
  <2>9. RunTypeOK'
    BY <2>1, <2>3, <2>5 DEF RunInv, RunTypeOK
  <2>10. SettledAreOver'
    BY <2>1, <2>2, <2>5 DEF RunInv, SettledAreOver, IsSettled
  <2>11. ItemsFit'
    <3> SUFFICES ASSUME NEW l \in Runs, NEW u \in Targets
                 PROVE  ItemFits(l, u)'
      BY DEF ItemsFit
    <3>1. ItemFits(l, u)
      BY DEF RunInv, ItemsFit
    <3>2. CASE l # k
      BY <2>1, <2>5, <3>1, <3>2 DEF ItemFits, WorkFits
    <3>3. CASE l = k
      BY <1>3, <2>1, <2>5, <3>1, <3>3 DEF ItemFits, WorkFits, NoItem
    <3> QED BY <3>2, <3>3
  <2>12. JobsNumbered' /\ WorkersFit'
    BY <2>1 DEF RunInv, JobsNumbered, WorkersFit
  <2> QED BY <2>8, <2>9, <2>10, <2>11, <2>12 DEF RunInv
<1> QED BY <1>2, <1>3

\* The state of a run is written; which runs and items there are, it does not change.
LEMMA StatesWritten ==
    ASSUME RunInv, UNCHANGED <<item, job>>, NEW k \in Runs, NEW s \in RunStates,
           run' = [run EXCEPT ![k].state = s]
    PROVE  /\ run' \in [Runs -> Run] /\ RunsGrow
           /\ SettledAreOver' /\ ItemsFit' /\ JobsNumbered'
<1>1. run \in [Runs -> Run]
  BY DEF RunInv, RunTypeOK
<1>2. /\ \A l \in Runs : run'[l].settled = run[l].settled
      /\ \A l \in Runs : run[l].state # "ABSENT" => run'[l].state # "ABSENT"
  BY <1>1, StatesDiffer DEF Run
<1>3. run' \in [Runs -> Run]
  BY <1>1 DEF Run
<1>4. RunsGrow
  BY <1>2 DEF RunsGrow, Present
<1>5. SettledAreOver' /\ ItemsFit' /\ JobsNumbered'
  BY <1>2 DEF RunInv, SettledAreOver, IsSettled, ItemsFit, ItemFits, WorkFits, JobsNumbered
<1> QED BY <1>3, <1>4, <1>5

LEMMA StoreStateKeeps ==
    ASSUME RunInv, NEW q \in Requests, StoreState(q)
    PROVE  RunInv'
<1>0. PICK k, x : k = rq[q].run /\ x = Over(k, "answered")
  OBVIOUS
<1>1. /\ rq[q].pc = "storing" /\ rq[q].state \in RunStates /\ k \in Runs /\ run[k].state # "ABSENT"
      /\ Scope[k] \subseteq Present(k) /\ UNCHANGED <<item, job, wk, returns, deaths>>
  BY <1>0, RequestIs DEF StoreState, Fits, Listed
<1>2. rq' = [rq EXCEPT ![q] = x] /\ run' = [run EXCEPT ![k].state = rq[q].state]
  BY <1>0 DEF StoreState, End, Local, Over
<1>3. x \in Request /\ x.pc = "answered" /\ x.run = k /\ x.todo = {}
  BY <1>0, <1>1, OverIsRequest DEF RequestPCs
<1>4. RunsGrow /\ run' \in [Runs -> Run] /\ SettledAreOver' /\ ItemsFit' /\ JobsNumbered'
  BY <1>1, <1>2, StatesWritten
<1>5. run'[k].state # "ABSENT" /\ Scope[k] \subseteq Present(k)'
  BY <1>1, <1>4 DEF RunsGrow
<1>6. Fits(x)'
  BY <1>1, <1>3, <1>5 DEF Fits, Listed
<1>7. RequestsFit'
  BY <1>2, <1>4, <1>6, OneRequestMoves
<1>8. RunTypeOK' /\ WorkersFit'
  BY <1>1, <1>2, <1>3, <1>4 DEF RunInv, RunTypeOK, WorkersFit
<1> QED BY <1>4, <1>7, <1>8 DEF RunInv

\* As many jobs of a target as the number of the last one.
LEMMA JobsCounted ==
    ASSUME RunInv, NEW t \in Targets, NEW c \in 0..MaxJobs,
           \A m \in 1..MaxJobs : job[<<t, m>>].state # "ABSENT" <=> m <= c
    PROVE  Cardinality({j \in Jobs : j[1] = t /\ job[j].state # "ABSENT"}) = c
<1> DEFINE S == {j \in Jobs : j[1] = t /\ job[j].state # "ABSENT"}
           f == [m \in 1..c |-> <<t, m>>]
<1>1. c \in Nat /\ c <= MaxJobs /\ MaxJobs \in Nat
  BY RunParams DEF RunParamsAssumption
<1>2. \A m \in 1..c : <<t, m>> \in S
  BY <1>1 DEF Jobs
<1>3. \A j \in S : \E m \in 1..c : j = <<t, m>>
  <2> SUFFICES ASSUME NEW j \in S PROVE \E m \in 1..c : j = <<t, m>>
    OBVIOUS
  <2>1. PICK u \in Targets, m \in 1..MaxJobs : j = <<u, m>>
    BY DEF Jobs
  <2>2. u = t /\ m <= c
    BY <2>1
  <2> QED BY <1>1, <2>1, <2>2
<1> HIDE DEF S
<1>4. f \in Surjection(1..c, S)
  BY <1>2, <1>3 DEF Surjection
<1>5. f \in Injection(1..c, S)
  BY <1>2 DEF Injection, IsInjective
<1>6. IsFiniteSet(1..c) /\ Cardinality(1..c) = c
  BY <1>1, FS_Interval
<1> HIDE DEF f
<1>7. Cardinality(S) = c
  BY <1>4, <1>5, <1>6, FS_Surjection
<1> QED BY <1>7 DEF S

\* Jobs change, none goes, and what is over stays over.
JobsGrow ==
    /\ job' \in [Jobs -> Job]
    /\ \A j \in Jobs : IsSettled(j) => job'[j].state \in Closed

LEMMA SettledStayOver ==
    ASSUME RunInv, JobsGrow, run' = run
    PROVE  SettledAreOver'
<1> SUFFICES ASSUME NEW k \in Runs, NEW j \in run[k].settled
             PROVE  job'[j].state \in Closed
  BY DEF SettledAreOver, IsSettled
<1>1. j \in Jobs
  BY DEF RunInv, RunTypeOK, Run
<1>2. IsSettled(j)
  BY DEF RunInv, SettledAreOver
<1> QED BY <1>1, <1>2 DEF JobsGrow

LEMMA CreateJobKeeps ==
    ASSUME RunInv, NEW q \in Requests, CreateJob(q)
    PROVE  RunInv'
<1>1. PICK r, t, n : /\ r = rq[q] /\ t = First(r.todo)
                     /\ n = Cardinality({j \in Jobs : j[1] = t /\ job[j].state # "ABSENT"}) + 1
  OBVIOUS
<1>2. /\ r.pc = "opening" /\ r \in Request /\ Fits(r)
      /\ UNCHANGED <<run, item, wk, returns, deaths>>
  BY <1>1, RequestIs DEF CreateJob
<1>3. r.run \in Runs /\ r.todo # {} /\ r.todo \in SUBSET Targets /\ t \in Targets
  BY <1>1, <1>2, FirstIsIn DEF Fits, Request
<1>4. CASE OpenJobs(t) # {}
  <2>1. Goto(q, "colliding") /\ UNCHANGED job
    BY <1>1, <1>4 DEF CreateJob
  <2> QED BY <1>1, <1>2, <1>3, <2>1, GoingOn
<1>5. CASE OpenJobs(t) = {}
  <2>1. PICK s, x : /\ s = IF t \in Delegated THEN "WAITING_ON_DELEGATE" ELSE "PENDING"
                    /\ x = [r EXCEPT !.pc = "writing", !.item = Share(<<t, n>>)]
    OBVIOUS
  <2>2. n <= MaxJobs /\ job' = [job EXCEPT ![<<t, n>>].state = s] /\ rq' = [rq EXCEPT ![q] = x]
    BY <1>1, <1>5, <2>1 DEF CreateJob, Local
  <2>3. PICK c \in 0..MaxJobs : \A m \in 1..MaxJobs : job[<<t, m>>].state # "ABSENT" <=> m <= c
    BY <1>3 DEF RunInv, JobsNumbered
  <2>4. n = c + 1 /\ c \in Nat /\ MaxJobs \in Nat
    BY <1>1, <1>3, <2>3, JobsCounted, RunParams DEF RunParamsAssumption
  <2>5. n \in 1..MaxJobs /\ <<t, n>> \in Jobs
    BY <1>3, <2>2, <2>4 DEF Jobs
  <2>6. job[<<t, n>>].state = "ABSENT"
    BY <2>3, <2>4, <2>5
  <2>7. s \in Open
    BY <2>1 DEF Open
  <2>8. job \in [Jobs -> Job]
    BY DEF RunInv, RunTypeOK
  <2>9. /\ job' \in [Jobs -> Job] /\ job'[<<t, n>>].state = s
        /\ \A j \in Jobs : j # <<t, n>> => job'[j] = job[j]
    BY <2>2, <2>5, <2>7, <2>8 DEF Job
  <2>10. JobsGrow
    BY <2>6, <2>9, StatesDiffer DEF JobsGrow, IsSettled
  <2>11. SettledAreOver'
    BY <1>2, <2>10, SettledStayOver
  <2>12. <<t, n>> \notin run[r.run].settled
    BY <1>3, <2>6, StatesDiffer DEF RunInv, SettledAreOver, IsSettled
  <2>13. x \in Request /\ x.pc = "writing" /\ x.run = r.run /\ x.todo = r.todo /\ x.item = Share(<<t, n>>)
    BY <1>2, <2>1, <2>5 DEF Request, RequestPCs, Share, Item, Decisions
  <2>14. WorkFits(x.item, x.run, First(x.todo)) /\ x.item.decision \in Decisions
    BY <1>1, <2>5, <2>12, <2>13 DEF WorkFits, Share, Decisions
  <2>15. Fits(x)
    BY <1>2, <1>3, <2>13, <2>14 DEF Fits, Listed
  <2>16. RunsGrow
    BY <1>2, SameRunsGrow
  <2>17. RequestsFit'
    BY <2>2, <2>15, <2>16, FittingLasts, OneRequestMoves
  <2>18. JobsNumbered'
    <3> SUFFICES ASSUME NEW u \in Targets
                 PROVE  \E d \in 0..MaxJobs : \A m \in 1..MaxJobs : job'[<<u, m>>].state # "ABSENT" <=> m <= d
      BY DEF JobsNumbered
    <3>1. \A m \in 1..MaxJobs : <<u, m>> \in Jobs
      BY DEF Jobs
    <3>2. CASE u # t
      <4>1. \A m \in 1..MaxJobs : job'[<<u, m>>] = job[<<u, m>>]
        BY <2>9, <3>1, <3>2
      <4> QED BY <4>1 DEF RunInv, JobsNumbered
    <3>3. CASE u = t
      <4>1. ASSUME NEW m \in 1..MaxJobs
            PROVE  job'[<<t, m>>].state # "ABSENT" <=> m <= n
        <5>1. CASE m = n
          BY <2>5, <2>7, <2>9, <5>1, StatesDiffer
        <5>2. CASE m # n
          <6>1. job'[<<t, m>>] = job[<<t, m>>]
            BY <2>9, <3>1, <3>3, <5>2
          <6> QED BY <2>3, <2>4, <5>2, <6>1
        <5> QED BY <5>1, <5>2
      <4> QED BY <2>4, <2>5, <3>3, <4>1
    <3> QED BY <3>2, <3>3
  <2>19. RunTypeOK' /\ ItemsFit' /\ WorkersFit'
    BY <1>2, <2>2, <2>9, <2>13 DEF RunInv, RunTypeOK, ItemsFit, ItemFits, WorkFits, WorkersFit
  <2> QED BY <2>11, <2>17, <2>18, <2>19 DEF RunInv
<1> QED BY <1>4, <1>5

-----------------------------------------------------------------------------
(* The steps of jobs and of workers. *)

\* A job that is there changes.
LEMMA JobChanges ==
    ASSUME RunInv, UNCHANGED <<run, item, rq, deaths>>, returns' \in 0..MaxReturns,
           wk' \in [Workers -> Worker], WorkersFit',
           NEW j \in Jobs, job[j].state \in Open \cup Closed, NEW y \in Job, job' = [job EXCEPT ![j] = y],
           y.state \in Open \cup Closed, IsSettled(j) => y.state \in Closed
    PROVE  RunInv'
<1>1. job \in [Jobs -> Job]
  BY DEF RunInv, RunTypeOK
<1>2. /\ job' \in [Jobs -> Job] /\ job'[j] = y
      /\ \A i \in Jobs : i # j => job'[i] = job[i]
  BY <1>1
<1>3. JobsGrow
  BY <1>2 DEF JobsGrow, IsSettled
<1>4. \A i \in Jobs : job'[i].state # "ABSENT" <=> job[i].state # "ABSENT"
  BY <1>2, StatesDiffer
<1>5. JobsNumbered'
  <2>1. \A t \in Targets, m \in 1..MaxJobs : <<t, m>> \in Jobs
    BY DEF Jobs
  <2> QED BY <1>4, <2>1 DEF RunInv, JobsNumbered
<1>6. SettledAreOver'
  BY <1>3, SettledStayOver
<1>7. RequestsFit'
  BY SameRunsGrow, NoRequestMoves
<1>8. RunTypeOK' /\ ItemsFit'
  BY <1>2 DEF RunInv, RunTypeOK, ItemsFit, ItemFits, WorkFits
<1> QED BY <1>5, <1>6, <1>7, <1>8 DEF RunInv

LEMMA JobStepKeeps ==
    ASSUME RunInv, NEW j \in Jobs, JobStep(j)
    PROVE  RunInv'
<1>1. /\ job[j] \in Job /\ job \in [Jobs -> Job] /\ returns \in 0..MaxReturns
      /\ wk \in [Workers -> Worker]
  BY DEF RunInv, RunTypeOK
<1>2. MaxReturns \in Nat
  BY RunParams DEF RunParamsAssumption
<1>3. wk' = wk /\ WorkersFit'
  BY DEF RunInv, WorkersFit, JobStep, ClaimJob, ReturnJob, ExhaustJob, AnswerExpires
<1>4. CASE ClaimJob(j)
  <2> DEFINE y == [job[j] EXCEPT !.state = "LEASED"]
  <2>1. /\ y \in Job /\ y.state \in Open /\ job[j].state \in Open /\ ~ IsSettled(j)
        /\ job' = [job EXCEPT ![j] = y]
    BY <1>1, <1>4 DEF ClaimJob, Job, Open, Closed, IsSettled
  <2> HIDE DEF y
  <2> QED BY <1>1, <1>3, <1>4, <2>1, JobChanges DEF ClaimJob
<1>5. CASE ReturnJob(j)
  <2> DEFINE y == [job[j] EXCEPT !.state = "PENDING"]
  <2>1. /\ y \in Job /\ y.state \in Open /\ job[j].state \in Open /\ ~ IsSettled(j)
        /\ job' = [job EXCEPT ![j] = y]
    BY <1>1, <1>5 DEF ReturnJob, Job, Open, Closed, IsSettled
  <2>2. returns' \in 0..MaxReturns
    BY <1>1, <1>2, <1>5 DEF ReturnJob
  <2> HIDE DEF y
  <2> QED BY <1>1, <1>3, <1>5, <2>1, <2>2, JobChanges DEF ReturnJob
<1>6. CASE ExhaustJob(j)
  <2> DEFINE y == [job[j] EXCEPT !.state = "FAILED", !.fresh = FALSE]
  <2>1. /\ y \in Job /\ y.state \in Closed /\ job[j].state \in Open
        /\ job' = [job EXCEPT ![j] = y]
    BY <1>1, <1>6 DEF ExhaustJob, Settled, Job, Open, Closed
  <2> HIDE DEF y
  <2> QED BY <1>1, <1>3, <1>6, <2>1, JobChanges DEF ExhaustJob
<1>7. CASE AnswerExpires(j)
  <2>1. CASE job[j].state = "ABSENT"
    <3>1. job' \in [Jobs -> Job] /\ \A i \in Jobs : job'[i].state = job[i].state
      BY <1>1, <1>7 DEF AnswerExpires, Job
    <3>2. JobsNumbered'
      <4>1. \A t \in Targets, m \in 1..MaxJobs : <<t, m>> \in Jobs
        BY DEF Jobs
      <4> QED BY <3>1, <4>1 DEF RunInv, JobsNumbered
    <3>3. UNCHANGED <<run, item, rq, wk, returns, deaths>>
      BY <1>7 DEF AnswerExpires
    <3>4. JobsGrow
      BY <3>1 DEF JobsGrow, IsSettled
    <3>5. SettledAreOver' /\ RequestsFit'
      BY <3>3, <3>4, SettledStayOver, SameRunsGrow, NoRequestMoves
    <3>6. RunTypeOK' /\ ItemsFit'
      BY <3>1, <3>3 DEF RunInv, RunTypeOK, ItemsFit, ItemFits, WorkFits
    <3> QED BY <1>3, <3>2, <3>5, <3>6 DEF RunInv
  <2>2. CASE job[j].state # "ABSENT"
    <3> DEFINE y == [job[j] EXCEPT !.fresh = FALSE]
    <3>1. /\ y \in Job /\ y.state = job[j].state /\ job[j].state \in Open \cup Closed
          /\ job' = [job EXCEPT ![j] = y]
      BY <1>1, <1>7, <2>2 DEF AnswerExpires, Job
    <3> HIDE DEF y
    <3> QED BY <1>1, <1>3, <1>7, <3>1, JobChanges DEF AnswerExpires, IsSettled
  <2> QED BY <2>1, <2>2
<1> QED BY <1>4, <1>5, <1>6, <1>7 DEF JobStep

LEMMA SettleJobKeeps ==
    ASSUME RunInv, NEW w \in Workers, NEW j \in Jobs, SettleJob(w, j)
    PROVE  RunInv'
<1>1. /\ job[j] \in Job /\ job \in [Jobs -> Job] /\ returns \in 0..MaxReturns
      /\ wk \in [Workers -> Worker]
  BY DEF RunInv, RunTypeOK
<1>2. PICK state \in Closed, fresh \in BOOLEAN : Settled(j, state, fresh)
  BY DEF SettleJob
<1> DEFINE y == [job[j] EXCEPT !.state = state, !.fresh = fresh]
<1>3. /\ y \in Job /\ y.state \in Closed /\ job[j].state \in Open
      /\ job' = [job EXCEPT ![j] = y]
  BY <1>1, <1>2 DEF SettleJob, Settled, Job, Open
<1> HIDE DEF y
<1>4. wk' \in [Workers -> Worker] /\ WorkersFit'
  BY <1>1 DEF SettleJob, RunInv, WorkersFit, Worker, IdleWorker
<1> QED BY <1>1, <1>3, <1>4, JobChanges DEF SettleJob

\* A worker that lists and reads.
LEMMA WorkerMoves ==
    ASSUME RunInv, UNCHANGED <<run, item, job, rq, returns>>, deaths' \in 0..MaxDeaths,
           NEW w \in Workers, NEW x \in Worker, wk' = [wk EXCEPT ![w] = x],
           x.pc = "storing" => x.run \in Runs /\ x.state \in RunStates
    PROVE  RunInv'
<1>1. RequestsFit'
  BY SameRunsGrow, NoRequestMoves
<1>2. RunTypeOK' /\ WorkersFit'
  BY DEF RunInv, RunTypeOK, WorkersFit
<1>3. SettledAreOver' /\ ItemsFit' /\ JobsNumbered'
  BY DEF RunInv, SettledAreOver, IsSettled, ItemsFit, ItemFits, WorkFits, JobsNumbered
<1> QED BY <1>1, <1>2, <1>3 DEF RunInv

LEMMA RestingWorker ==
    /\ IdleWorker \in Worker /\ IdleWorker.pc # "storing"
    /\ \A runs \in SUBSET Runs :
          LET x == [IdleWorker EXCEPT !.pc = "refreshing", !.runs = runs]
          IN  x \in Worker /\ x.pc # "storing"
BY DEF IdleWorker, Worker

LEMMA WorkerStepKeeps ==
    ASSUME RunInv, NEW w \in Workers, WorkerStep(w)
    PROVE  RunInv'
<1>1. wk \in [Workers -> Worker] /\ wk[w] \in Worker /\ deaths \in 0..MaxDeaths
  BY DEF RunInv, RunTypeOK
<1>2. CASE ListRunIdsForJob(w)
  <2> DEFINE runs == {k \in Runs : wk[w].job \in JobsOf(k)}
             x == IF runs = {} THEN IdleWorker
                  ELSE [IdleWorker EXCEPT !.pc = "refreshing", !.runs = runs]
  <2>1. wk' = [wk EXCEPT ![w] = x] /\ UNCHANGED <<run, item, job, rq, returns, deaths>>
    BY <1>2 DEF ListRunIdsForJob
  <2>2. runs \in SUBSET Runs
    OBVIOUS
  <2> HIDE DEF runs
  <2>3. x \in Worker /\ x.pc # "storing"
    BY <2>2, RestingWorker
  <2> HIDE DEF x
  <2> QED BY <1>1, <2>1, <2>3, WorkerMoves
<1>3. CASE ListStaleRuns(w)
  <2> DEFINE runs == {k \in Runs : StaleNonTerminal(k)}
             x == [IdleWorker EXCEPT !.pc = "refreshing", !.runs = runs]
  <2>1. wk' = [wk EXCEPT ![w] = x] /\ UNCHANGED <<run, item, job, rq, returns, deaths>>
    BY <1>3 DEF ListStaleRuns
  <2>2. runs \in SUBSET Runs
    OBVIOUS
  <2> HIDE DEF runs
  <2>3. x \in Worker /\ x.pc # "storing"
    BY <2>2, RestingWorker
  <2> HIDE DEF x
  <2> QED BY <1>1, <2>1, <2>3, WorkerMoves
<1>4. ASSUME NEW k \in Runs, RefreshRead(w, k) PROVE RunInv'
  <2> DEFINE x == [wk[w] EXCEPT !.pc = "storing", !.run = k, !.state = RecomputeRunState(k)]
  <2>1. wk' = [wk EXCEPT ![w] = x] /\ UNCHANGED <<run, item, job, rq, returns, deaths>>
    BY <1>1, <1>4 DEF RefreshRead
  <2>2. x \in Worker /\ x.run = k /\ x.state \in RunStates
    BY <1>1, RunStateDerived DEF Worker
  <2> HIDE DEF x
  <2> QED BY <1>1, <2>1, <2>2, WorkerMoves
<1>5. CASE RefreshStore(w)
  <2> DEFINE left == wk[w].runs \ {wk[w].run}
             x == IF left = {} THEN IdleWorker
                  ELSE [IdleWorker EXCEPT !.pc = "refreshing", !.runs = left]
  <2>1. /\ wk' = [wk EXCEPT ![w] = x] /\ run' = [run EXCEPT ![wk[w].run].state = wk[w].state]
        /\ UNCHANGED <<item, job, rq, returns, deaths>> /\ wk[w].pc = "storing"
    BY <1>5 DEF RefreshStore
  <2>2. left \in SUBSET Runs
    BY <1>1 DEF Worker
  <2> HIDE DEF left
  <2>3. x \in Worker /\ x.pc # "storing"
    BY <2>2, RestingWorker
  <2> HIDE DEF x
  <2>4. wk[w].run \in Runs /\ wk[w].state \in RunStates
    BY <2>1 DEF RunInv, WorkersFit
  <2>5. run' \in [Runs -> Run] /\ RunsGrow /\ SettledAreOver' /\ ItemsFit' /\ JobsNumbered'
    BY <2>1, <2>4, StatesWritten
  <2>6. RequestsFit'
    BY <2>1, <2>5, NoRequestMoves
  <2>7. RunTypeOK' /\ WorkersFit'
    BY <2>1, <2>3, <2>5 DEF RunInv, RunTypeOK, WorkersFit
  <2> QED BY <2>5, <2>6, <2>7 DEF RunInv
<1> QED BY <1>2, <1>3, <1>4, <1>5 DEF WorkerStep

LEMMA WorkerCrashKeeps ==
    ASSUME RunInv, NEW w \in Workers, WorkerCrash(w)
    PROVE  RunInv'
<1>1. deaths' \in 0..MaxDeaths
  BY RunParams DEF RunInv, RunTypeOK, WorkerCrash, RunParamsAssumption
<1>2. wk' = [wk EXCEPT ![w] = IdleWorker] /\ UNCHANGED <<run, item, job, rq, returns>>
  BY DEF WorkerCrash
<1> QED BY <1>1, <1>2, RestingWorker, WorkerMoves

-----------------------------------------------------------------------------
(* Enrichment runs: the theorems. *)

LEMMA RunInitHolds == RunInit => RunInv
<1> SUFFICES ASSUME RunInit
             PROVE  RunInv
  OBVIOUS
<1>1. /\ MaxJobs \in Nat /\ MaxReturns \in Nat /\ MaxDeaths \in Nat
  BY RunParams DEF RunParamsAssumption
<1>2. NoItem \in Item /\ NoRun \in Run /\ NoJob \in Job
  BY DEF NoItem, Item, NoRun, Run, NoJob, Job
<1>3. NewRequest \in Request /\ NewRequest.pc = "idle" /\ NewRequest.run = "none" /\ NewRequest.todo = {}
  BY <1>2 DEF NewRequest, Request, RequestPCs, Decisions
<1>4. RunTypeOK
  <2>1. run \in [Runs -> Run] /\ item \in [Runs \X Targets -> Item] /\ job \in [Jobs -> Job]
    BY <1>2 DEF RunInit
  <2>2. rq \in [Requests -> Request] /\ wk \in [Workers -> Worker]
    BY <1>3, RestingWorker DEF RunInit
  <2> QED BY <1>1, <2>1, <2>2 DEF RunInit, RunTypeOK
<1>5. RequestsFit
  <2>1. "none" \notin Runs
    BY RunParams DEF RunParamsAssumption
  <2> SUFFICES ASSUME NEW q \in Requests PROVE Fits(rq[q])
    BY DEF RequestsFit
  <2>2. rq[q] = NewRequest
    BY DEF RunInit
  <2> QED BY <1>3, <2>1, <2>2 DEF Fits, Listed
<1>6. SettledAreOver
  BY DEF RunInit, NoRun, SettledAreOver
<1>7. ItemsFit
  BY DEF RunInit, ItemsFit, ItemFits, WorkFits, NoItem
<1>8. JobsNumbered
  <2>1. \A t \in Targets, m \in 1..MaxJobs : <<t, m>> \in Jobs
    BY DEF Jobs
  <2>2. 0 \in 0..MaxJobs /\ \A m \in 1..MaxJobs : ~ (m <= 0)
    BY <1>1
  <2> QED BY <2>1, <2>2 DEF RunInit, NoJob, JobsNumbered
<1>9. WorkersFit
  BY RestingWorker DEF RunInit, WorkersFit
<1> QED BY <1>4, <1>5, <1>6, <1>7, <1>8, <1>9 DEF RunInv

LEMMA RunStutters ==
    ASSUME RunInv, UNCHANGED runVars
    PROVE  RunInv'
<1>1. UNCHANGED <<run, item, job, rq, wk, returns, deaths>>
  BY DEF runVars
<1>2. RequestsFit'
  BY <1>1, SameRunsGrow, NoRequestMoves
<1>3. RunTypeOK' /\ WorkersFit'
  BY <1>1 DEF RunInv, RunTypeOK, WorkersFit
<1>4. SettledAreOver' /\ ItemsFit' /\ JobsNumbered'
  BY <1>1 DEF RunInv, SettledAreOver, IsSettled, ItemsFit, ItemFits, WorkFits, JobsNumbered
<1> QED BY <1>2, <1>3, <1>4 DEF RunInv

LEMMA RunStepHolds == RunInv /\ [RunNext]_runVars => RunInv'
<1> SUFFICES ASSUME RunInv, [RunNext]_runVars
             PROVE  RunInv'
  OBVIOUS
<1>1. ASSUME NEW q \in Requests, RequestStep(q) PROVE RunInv'
  BY <1>1, RouteTargetKeeps, FindRunKeeps, CreateRunKeeps, ListItemsKeeps, ResolveTargetKeeps,
     EstablishDelegateKeeps, CreateJobKeeps, ReadWinnerKeeps, WriteItemKeeps, ReadItemsKeeps,
     StoreStateKeeps
     DEF RequestStep
<1>2. ASSUME NEW q \in Requests, RequestFails(q) \/ \E k \in Runs : Ask(q, k) PROVE RunInv'
  BY <1>2, RequestFailsKeeps, AskKeeps
<1>3. ASSUME NEW w \in Workers, WorkerStep(w) \/ WorkerCrash(w) \/ \E j \in Jobs : SettleJob(w, j)
      PROVE  RunInv'
  BY <1>3, WorkerStepKeeps, WorkerCrashKeeps, SettleJobKeeps
<1>4. ASSUME NEW j \in Jobs, JobStep(j) PROVE RunInv'
  BY <1>4, JobStepKeeps
<1>5. CASE UNCHANGED runVars
  BY <1>5, RunStutters
<1> QED BY <1>1, <1>2, <1>3, <1>4, <1>5 DEF RunNext

LEMMA RunInvariance == RunSpec => []RunInv
BY RunInitHolds, RunStepHolds, PTL DEF RunSpec

\* Runs, items and jobs keep to the values of their columns, and every request and worker
\* remembers what fits them, for any keys, targets, requests and workers (createEnrichmentRun,
\* materializeItems, refreshRunState).
THEOREM RunsAreWellFormed == RunSpec => []RunTypeOK
<1>1. RunInv => RunTypeOK
  BY DEF RunInv
<1> QED BY <1>1, RunInvariance, PTL

\* A request that was answered leaves no target of its key undecided, however many requests
\* share the key and wherever they die (createEnrichmentRun, materializeItems).
THEOREM AnsweredRunsAreWhole == RunSpec => []AnsweredRunIsWhole
<1>1. RunInv => AnsweredRunIsWhole
  <2> SUFFICES ASSUME RunInv, NEW q \in Requests, rq[q].pc = "answered"
               PROVE  Present(rq[q].run) = Scope[rq[q].run]
    BY DEF AnsweredRunIsWhole
  <2>1. /\ rq[q].run \in Runs /\ Scope[rq[q].run] \subseteq Present(rq[q].run)
    BY DEF RunInv, RequestsFit, Fits, Listed
  <2>2. Present(rq[q].run) \subseteq Scope[rq[q].run]
    BY <2>1 DEF RunInv, ItemsFit, ItemFits, Present
  <2> QED BY <2>1, <2>2
<1> QED BY <1>1, RunInvariance, PTL

\* No run is given work that was over before it was asked for, or that is another target's,
\* whoever opened the job and whoever shares it (resolveEligibleTarget, materializeItems).
THEOREM RunsAskForNewWork == RunSpec => []WorkIsNew
<1>1. RunInv => WorkIsNew
  BY DEF RunInv, ItemsFit, ItemFits, WorkFits, WorkIsNew
<1> QED BY <1>1, RunInvariance, PTL
=============================================================================
