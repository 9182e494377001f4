---------------------------- MODULE RiskSnapshots ----------------------------
(***************************************************************************)
(* The risk score of one finding: how it is calculated from the evidence   *)
(* as of an instant, and how the requests that change the evidence replace *)
(* it while others do the same.                                            *)
(*                                                                         *)
(* Every request captures its instant when it starts, changes its part of  *)
(* the evidence, and rescores afterwards.  A rescore reads everything,     *)
(* calculates and stores in one serializable transaction that is run again *)
(* on a conflict: it is one step.  What an analyst does to the owner a     *)
(* sweep or a report may do too, and rescores likewise.                    *)
(*                                                                         *)
(* Time is counted in days.  VulnerabilityScoring says when the evidence   *)
(* on a CVE is usable.  A lookup that did not end with an answer changes   *)
(* the wording of an explanation only, and wording is left out.            *)
(***************************************************************************)
EXTENDS Integers, FiniteSets, Sequences, FiniteSetsExt

CONSTANTS
    Requests,        \* requests, passes and batches, each at work once
    Instants,        \* the days on which anything happens
    FirstDays,       \* the days on which the finding may first be reported
    Service,         \* its protocol and port
    Owners,          \* what its ownership row may say
    CVEs,            \* the vulnerabilities an analyst may name, in their order
    Evidence,        \* what may be known of one
    FirstEvidence,   \* what may be known of all before anything else happens
    Confidences,     \* the scores a reputation provider may give
    Ttl,             \* days for which an answer about reputation is fresh
    MaxTroubles      \* bound on the rescores that are lost

VARIABLES
    clock,
    finding,     \* the Finding row
    occurrences, \* its FindingOccurrence rows
    answers,     \* the IocEnrichment rows of its indicator that bear a reputation
    owner,       \* its current FindingOwnership row
    cves,        \* its current FindingVulnerability rows with their usable evidence
    current,     \* its current RiskScore row with the contributions
    req,         \* each request's program counter and local variables
    troubles,    \* rescores lost so far
    latest,      \* history: the instant of the last calculation
    excused      \* history: nothing that rescores has followed a change

evidence == <<finding, occurrences, answers, owner, cves>>
scoreVars == <<clock, evidence, current, req, troubles, latest, excused>>

Unset == -1
NoLimit == -1

Kinds == {"INGESTION", "BATCH", "TARGETED", "OWNERSHIP", "VULNERABILITY", "MANUAL"}
Lookups == {"BATCH", "TARGETED"}
NewRequest == [pc |-> "idle", kind |-> "MANUAL", asOf |-> 0]

NoOwner == [status |-> "ABSENT", confidence |-> "NONE", isp |-> FALSE, sector |-> "NONE"]
NotAttached == [kev |-> "ABSENT", epss |-> Unset]

ScoreParamsAssumption ==
    /\ Instants \subseteq Nat /\ FirstDays \subseteq Instants
    /\ CVEs \subseteq Nat /\ IsFiniteSet(CVEs)
    /\ NotAttached \in Evidence
    /\ FirstEvidence \subseteq [CVEs -> Evidence]
    /\ Confidences \subseteq 0..100
    /\ Ttl \in Nat \ {0}
    /\ MaxTroubles \in Nat
    /\ \A e \in Evidence : e.epss \in {Unset} \cup 0..10000

ASSUME ScoreParams == ScoreParamsAssumption

-----------------------------------------------------------------------------
(* The configuration. *)

Bucket(from, to, points) == [from |-> from, to |-> to, points |-> points]

PersistenceBuckets ==
    {Bucket(1, 1, 0), Bucket(2, 3, 400), Bucket(4, 7, 800), Bucket(8, NoLimit, 1200)}

RecurrenceBuckets ==
    {Bucket(0, 0, 0), Bucket(1, 1, 700), Bucket(2, 2, 1050), Bucket(3, NoLimit, 1300)}

\* Slip: the third bucket begins a day late.
DaysUnresolvedBucketsWithGap ==
    {Bucket(0, 6, 0), Bucket(7, 29, 400), Bucket(31, 89, 800), Bucket(90, NoLimit, 1200)}

DaysUnresolvedBuckets ==
    {Bucket(0, 6, 0), Bucket(7, 29, 400), Bucket(30, 89, 800), Bucket(90, NoLimit, 1200)}

IocReputationBuckets ==
    {Bucket(0, 0, 0), Bucket(1, 24, 300), Bucket(25, 49, 600), Bucket(50, 74, 900),
     Bucket(75, 100, 1200)}

EpssBuckets ==
    {Bucket(0, 999, 0), Bucket(1000, 4999, 150), Bucket(5000, 8999, 300), Bucket(9000, 10000, 400)}

SectorContributions ==
    [CRITICAL_NATIONAL_INFRASTRUCTURE |-> 1300, GOVERNMENT |-> 1100, ENERGY |-> 1100,
     HEALTHCARE |-> 1000, FINANCE |-> 1000, TELECOM |-> 900, EDUCATION |-> 500, GENERAL |-> 300]

SourceSeverity == 800
RdpCriticality == 1500
CvePresence == 300
KevListed == 800
MaxNormalizedDays == 3650
ScoreMax == 10000

-----------------------------------------------------------------------------
(* The engine.  A contribution names the evidence it rests on. *)

\* finalizeFactor: what is not APPLIED contributes nothing.
Applied(points, basis) == [applicability |-> "APPLIED", points |-> points, basis |-> basis]
NotAvailable == [applicability |-> "NOT_AVAILABLE", points |-> 0, basis |-> <<>>]
NotApplicable == [applicability |-> "NOT_APPLICABLE", points |-> 0, basis |-> <<>>]

Covering(buckets, value) ==
    {b \in buckets : b.from <= value /\ (b.to = NoLimit \/ value <= b.to)}

\* A value that no bucket covers, as Unset is, contributes nothing.
Bucketed(buckets, value, basis) ==
    IF Covering(buckets, value) = {} THEN NotAvailable
    ELSE Applied((CHOOSE b \in Covering(buckets, value) : TRUE).points, basis)

EvaluateExposureCriticality ==
    IF Service = "TCP/3389" THEN Applied(RdpCriticality, <<Service>>) ELSE NotAvailable

EvaluateDaysUnresolved(i) ==
    IF i.status = "CLOSED" THEN NotApplicable
                           ELSE Bucketed(DaysUnresolvedBuckets, i.days, <<i.days>>)

\* Only a fresh success carries a score, of which nought is one too.
EvaluateIocReputation(i) ==
    IF i.reputation.fresh /\ i.reputation.status = "SUCCESS"
    THEN Bucketed(IocReputationBuckets, i.reputation.confidence, <<i.reputation.confidence>>)
    ELSE NotAvailable

EvaluateSectorCriticality(i) ==
    IF i.sector \in DOMAIN SectorContributions
    THEN Applied(SectorContributions[i.sector], <<i.sector>>) ELSE NotAvailable

EvaluateCvePresence(i) ==
    IF i.cves = {} THEN NotApplicable ELSE Applied(CvePresence, <<i.cves>>)

EvaluateKevStatus(i) ==
    CASE i.cves = {} -> NotApplicable
      [] i.cves # {} /\ i.kev = "UNKNOWN" -> NotAvailable
      [] i.cves # {} /\ i.kev = "LISTED" -> Applied(KevListed, <<i.kevCve>>)
      [] i.cves # {} /\ i.kev = "UNLISTED" -> Applied(0, <<>>)

EvaluateEpssScore(i) ==
    IF i.cves = {} THEN NotApplicable ELSE Bucketed(EpssBuckets, i.epss, <<i.epss, i.epssCve>>)

\* calculateRisk: one contribution of every factor.
Contributions(i) ==
    [sourceSeverity |-> Applied(SourceSeverity, <<>>),
     exposureCriticality |-> EvaluateExposureCriticality,
     persistence |-> Bucketed(PersistenceBuckets, i.observations, <<i.observations>>),
     recurrence |-> Bucketed(RecurrenceBuckets, i.recurrences, <<i.recurrences>>),
     daysUnresolved |-> EvaluateDaysUnresolved(i),
     iocReputationContext |-> EvaluateIocReputation(i),
     sectorCriticality |-> EvaluateSectorCriticality(i),
     cvePresence |-> EvaluateCvePresence(i),
     kevStatus |-> EvaluateKevStatus(i),
     epssScore |-> EvaluateEpssScore(i)]

\* rawTotal.
RawTotal(c) ==
    c.sourceSeverity.points + c.exposureCriticality.points + c.persistence.points
    + c.recurrence.points + c.daysUnresolved.points + c.iocReputationContext.points
    + c.sectorCriticality.points + c.cvePresence.points + c.kevStatus.points
    + c.epssScore.points

ScoreOf(contributions) ==
    IF RawTotal(contributions) > ScoreMax THEN ScoreMax ELSE RawTotal(contributions)

-----------------------------------------------------------------------------
(* The inputs: the evidence as of an instant. *)

\* loadOccurrenceEvidence: reports, whatever each meant, and returns after a closure.
Seen(asOf) == {n \in DOMAIN occurrences : occurrences[n].at <= asOf}
Returned(asOf) == {n \in Seen(asOf) : occurrences[n].action = "RECURRED"}

\* The present episode began when the finding last returned, or was first seen.
UnresolvedSince(asOf) ==
    IF Returned(asOf) = {} THEN finding.firstSeen
                           ELSE Max({occurrences[n].at : n \in Returned(asOf)})

\* An episode that is yet to begin has no age.
DaysUnresolved(asOf) ==
    LET days == asOf - UnresolvedSince(asOf)
    IN  IF finding.status # "OPEN" \/ days < 0 THEN Unset
        ELSE IF days > MaxNormalizedDays THEN MaxNormalizedDays ELSE days

\* A sector counts for an organization that is confirmed, or resolved with confidence, and
\* not the provider of the address.
Sector ==
    IF /\ ~owner.isp
       /\ \/ owner.status = "OVERRIDDEN"
          \/ owner.status = "RESOLVED" /\ owner.confidence \in {"HIGH", "MEDIUM"}
    THEN owner.sector ELSE "NONE"

\* The answer asked for last; of two at one instant, the later row.
Newest == CHOOSE n \in DOMAIN answers : \A m \in DOMAIN answers :
              answers[m].at < answers[n].at \/ (answers[m].at = answers[n].at /\ m <= n)

NoReputation == [status |-> "NONE", fresh |-> FALSE, confidence |-> Unset]

\* From the query to the expiry: what is stale, or not yet known, carries no score.
Reputation(asOf) ==
    IF answers = <<>> THEN NoReputation
    ELSE LET row == answers[Newest]
             fresh == row.at <= asOf /\ asOf < row.at + Ttl
         IN  [status |-> row.status, fresh |-> fresh,
              confidence |-> IF fresh THEN row.confidence ELSE Unset]

\* loadVulnerabilityRiskContext.  One listed CVE suffices; that none is listed takes a
\* usable answer on each.
Attached == {c \in CVEs : cves[c].kev # "ABSENT"}
Listed == {c \in Attached : cves[c].kev = "LISTED"}
Kev == IF Listed # {} THEN "LISTED"
       ELSE IF Attached # {} /\ \A c \in Attached : cves[c].kev = "UNLISTED"
            THEN "UNLISTED" ELSE "UNKNOWN"

Scored == {c \in Attached : cves[c].epss # Unset}
Epss == IF Scored = {} THEN Unset ELSE Max({cves[c].epss : c \in Scored})

\* The first CVE in order is the one that is named.
First(set) == IF set = {} THEN Unset ELSE Min(set)

Inputs(asOf) ==
    [status |-> finding.status,
     observations |-> Cardinality(Seen(asOf)),
     recurrences |-> Cardinality(Returned(asOf)),
     days |-> DaysUnresolved(asOf),
     reputation |-> Reputation(asOf),
     ownership |-> <<owner.status, owner.confidence, owner.isp>>,
     sector |-> Sector,
     cves |-> Attached,
     kev |-> Kev, kevCve |-> First(Listed),
     epss |-> Epss, epssCve |-> First({c \in Scored : cves[c].epss = Epss})]

\* Slip: what a score tells is compared, but not the CVEs it names for it.
FingerprintWithoutNames(i) == [i EXCEPT !.kevCve = Unset, !.epssCve = Unset]

\* buildInputFingerprint, of the inputs whatever the instant they were read as of.
Fingerprint(i) == i

\* A row of the score and all its contributions, stored together.
Snapshot(i, asOf) ==
    [asOf |-> asOf, inputs |-> i, contributions |-> Contributions(i),
     score |-> ScoreOf(Contributions(i))]

\* calculateAndPersistRisk: inputs as they were leave the row as it is.
CalculateAndPersist(asOf) ==
    LET i == Inputs(asOf)
    IN  current' = IF Fingerprint(current.inputs) = Fingerprint(i) THEN current
                                                                   ELSE Snapshot(i, asOf)

-----------------------------------------------------------------------------
(* The program. *)

\* The first report has been ingested and scored.
ScoreInit ==
    \E day \in FirstDays, known \in FirstEvidence :
        /\ clock = day
        /\ finding = [status |-> "OPEN", firstSeen |-> day, lastSeen |-> day, through |-> Unset]
        /\ occurrences = <<[at |-> day, action |-> "CREATED"]>>
        /\ answers = <<>>
        /\ owner = NoOwner
        /\ cves = known
        /\ current = Snapshot(Inputs(day), day)
        /\ req = [r \in Requests |-> NewRequest]
        /\ troubles = 0
        /\ latest = day
        /\ excused = FALSE

Tick ==
    /\ clock' \in {t \in Instants : clock < t}
    /\ UNCHANGED <<evidence, current, req, troubles, latest, excused>>

\* At most one lookup of the indicator is under way.
Begin(r) ==
    /\ req[r].pc = "idle"
    /\ \E kind \in Kinds :
          /\ kind \in Lookups => \A q \in Requests : req[q].pc = "changing" => req[q].kind \notin Lookups
          /\ req' = [req EXCEPT ![r] = [kind |-> kind, asOf |-> clock,
                        pc |-> IF kind = "MANUAL" THEN "rescoring" ELSE "changing"]]
    /\ UNCHANGED <<clock, evidence, current, troubles, latest, excused>>

Changing(r, kinds) == req[r].pc = "changing" /\ req[r].kind \in kinds

GoesRescoring(r, asOf) == req' = [req EXCEPT ![r].pc = "rescoring", ![r].asOf = asOf]
Ends(r) == req' = [req EXCEPT ![r] = [NewRequest EXCEPT !.pc = "done"]]

\* classifyObservation.
ActionOn(at) ==
    CASE finding.status = "CLOSED" -> IF at > finding.through THEN "RECURRED" ELSE "HISTORICAL"
      [] finding.status = "OPEN" -> IF at < finding.lastSeen THEN "HISTORICAL" ELSE "PERSISTED"

\* A report may claim any instant for what it saw; its own is when it is processed.
Observe(r) ==
    /\ Changing(r, {"INGESTION"})
    /\ \E at \in Instants :
          LET action == ActionOn(at)
          IN  /\ occurrences' = Append(occurrences, [at |-> at, action |-> action])
              /\ finding' = [finding EXCEPT
                    !.status = IF action = "RECURRED" THEN "OPEN" ELSE finding.status,
                    !.through = IF action = "RECURRED" THEN Unset ELSE finding.through,
                    !.firstSeen = Min({finding.firstSeen, at}),
                    !.lastSeen = Max({finding.lastSeen, at})]
    /\ GoesRescoring(r, req[r].asOf)
    /\ UNCHANGED <<clock, answers, owner, cves, current, troubles, latest, excused>>

\* Findings are closed by no code under src/backend/src as yet; nobody rescores either.
CloseFinding ==
    /\ finding.status = "OPEN"
    /\ \E t \in Instants : finding' = [finding EXCEPT !.status = "CLOSED", !.through = t]
    /\ excused' = TRUE
    /\ UNCHANGED <<clock, occurrences, answers, owner, cves, current, req, troubles, latest>>

Answers == {[status |-> "SUCCESS", confidence |-> c] : c \in Confidences}
           \cup {[status |-> "NOT_FOUND", confidence |-> Unset]}

\* An answer is dated by the instant at which its lookup began.  A batch rescores as of
\* that instant; a targeted pass goes on only for a success, and reads the clock again.
StoreAnswer(r) ==
    /\ Changing(r, Lookups)
    /\ \E a \in Answers :
          /\ answers' = Append(answers, [at |-> req[r].asOf, status |-> a.status,
                                         confidence |-> a.confidence])
          /\ \/ /\ req[r].kind = "BATCH"
                /\ GoesRescoring(r, req[r].asOf)
                /\ UNCHANGED excused
             \/ /\ req[r].kind = "TARGETED" /\ a.status = "SUCCESS"
                /\ req' = [req EXCEPT ![r].pc = "answered"]
                /\ UNCHANGED excused
             \/ /\ req[r].kind = "TARGETED" /\ a.status # "SUCCESS"
                /\ Ends(r)
                /\ excused' = TRUE
    /\ UNCHANGED <<clock, finding, occurrences, owner, cves, current, troubles, latest>>

ReadClock(r) ==
    /\ req[r].pc = "answered"
    /\ GoesRescoring(r, clock)
    /\ UNCHANGED <<clock, evidence, current, troubles, latest, excused>>

ChangeOwner(r) ==
    /\ Changing(r, {"OWNERSHIP"})
    /\ owner' \in Owners
    /\ GoesRescoring(r, req[r].asOf)
    /\ UNCHANGED <<clock, finding, occurrences, answers, cves, current, troubles, latest, excused>>

\* An association made or removed, or an answer on a CVE stored.
ChangeCve(r) ==
    /\ Changing(r, {"VULNERABILITY"})
    /\ \E c \in CVEs, e \in Evidence : cves' = [cves EXCEPT ![c] = e]
    /\ GoesRescoring(r, req[r].asOf)
    /\ UNCHANGED <<clock, finding, occurrences, answers, owner, current, troubles, latest, excused>>

Rescore(r) ==
    /\ req[r].pc = "rescoring"
    /\ CalculateAndPersist(req[r].asOf)
    /\ latest' = req[r].asOf
    /\ excused' = FALSE
    /\ Ends(r)
    /\ UNCHANGED <<clock, evidence, troubles>>

\* Five conflicts, a place past the hundredth of a batch, or a death after the change.
LoseRescore(r) ==
    /\ req[r].pc \in {"answered", "rescoring"}
    /\ troubles < MaxTroubles
    /\ troubles' = troubles + 1
    /\ excused' = (excused \/ req[r].kind # "MANUAL")
    /\ Ends(r)
    /\ UNCHANGED <<clock, evidence, current, latest>>

ScoreNext ==
    \/ Tick \/ CloseFinding
    \/ \E r \in Requests :
          \/ Begin(r) \/ Observe(r) \/ StoreAnswer(r) \/ ReadClock(r) \/ ChangeOwner(r)
          \/ ChangeCve(r) \/ Rescore(r) \/ LoseRescore(r)

ScoreSpec == ScoreInit /\ [][ScoreNext]_scoreVars

-----------------------------------------------------------------------------
(* Properties. *)

\* Every row is well formed, and a stored score is the sum of its stored contributions.
ScoreTypeOK ==
    /\ clock \in Instants
    /\ finding \in [status: {"OPEN", "CLOSED"}, firstSeen: Instants, lastSeen: Instants,
                    through: Instants \cup {Unset}]
    /\ \A n \in DOMAIN occurrences :
          /\ occurrences[n].at \in Instants
          /\ occurrences[n].action \in {"CREATED", "PERSISTED", "RECURRED", "HISTORICAL"}
    /\ \A n \in DOMAIN answers : answers[n].at \in Instants
    /\ owner \in Owners \cup {NoOwner}
    /\ cves \in [CVEs -> Evidence]
    /\ current.asOf \in Instants
    /\ current.score = ScoreOf(current.contributions)
    /\ req \in [Requests -> [pc: {"idle", "changing", "answered", "rescoring", "done"}, kind: Kinds,
                             asOf: Instants \cup {0}]]
    /\ troubles \in 0..MaxTroubles
    /\ latest \in Instants
    /\ excused \in BOOLEAN

AtRest == \A r \in Requests : req[r].pc \in {"idle", "done"}

\* Once every request is through, the explanation of the current score, down to the CVEs and
\* counts it names, is that of the evidence as of the last calculation, whoever changed the
\* evidence and in whatever order they rescored; excused are rescores that were lost, closed
\* findings and answers that nothing rescores for (calculateAndPersistRisk, representsSameInputState).
ExplanationIsOfTheEvidence ==
    AtRest /\ ~excused => current.contributions = Contributions(Inputs(latest))

Context(s) == <<s.inputs.reputation, s.inputs.sector, s.inputs.cves, s.inputs.kev, s.inputs.epss>>

\* Time and further reports alone never lower a score: whoever sees it fall finds an earlier
\* instant, a closure, a return that began a new episode, or a change of what is known of the
\* indicator, the owner or the CVEs (riskEngine and the tables of riskConfiguration).
FallIsExplained ==
    [][current'.score < current.score =>
          \/ current'.asOf < current.asOf
          \/ current'.inputs.status = "CLOSED"
          \/ current'.inputs.recurrences > current.inputs.recurrences
          \/ Context(current') # Context(current)]_scoreVars

\* Not so in the program, see the README: once every request is through, a verdict on the
\* indicator is in the score for as long as it is fresh.
AnswersReachScores ==
    LET known == Reputation(clock)
    IN  AtRest /\ ~excused /\ known.fresh /\ known.status = "SUCCESS"
            => current.inputs.reputation = known
=============================================================================
