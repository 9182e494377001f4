---------------------- MODULE VulnerabilityScoringProofs ----------------------
(***************************************************************************)
(* Theorems about VulnerabilityScoring that hold for every number of       *)
(* findings, vulnerabilities, requests, batches, jobs and failures, and    *)
(* whatever a lease, a delay or the lifetime of an answer is.              *)
(***************************************************************************)
EXTENDS VulnerabilityScoring, FiniteSetTheorems, TLAPS

-----------------------------------------------------------------------------
(* The inductive invariant.                                                *)

\* The score of f names the CVEs attached to f, as far as a score reads them.
Named(f) == {c \in CVEs : score[f].input[c] # "absent"} = Scored(f)

\* A request that changed the associations of f will score it.  A mere rescore does not
\* count: it may be lost without anybody noticing.
Owed(f) == \E r \in Requests : ScoresNext(r, f) /\ req[r].kind \in {"ATTACH", "REMOVE"}

\* A request that will score a finding has one.
RequestFit(r) ==
    /\ req[r].pc \in {"changing", "rescoring"} => req[r].finding \in Findings
    /\ req[r].pc = "changing" => req[r].kind \in {"ATTACH", "REMOVE"}
    /\ req[r].pc \in {"scheduling", "looking", "creating"} =>
          req[r].kind \in {"REFRESH", "FORCE"} \/ req[r].finding \in Findings

RequestsFit == \A r \in Requests : RequestFit(r)

ScoresNamed == \A f \in Findings : Named(f) \/ f \in excused \/ Owed(f)

\* A claim has spent an attempt and is of a pending job.
JobFit(j) ==
    /\ jobs[j].status = "COMPLETED" => jobs[j].queriedAt = jobs[j].lastAttemptAt
    /\ jobs[j].token # NoToken => jobs[j].attempts > 0

\* The last attempt of a job is that of the batch whose claim stands.
HolderFit(b) ==
    batch[b].pc \in {"calling", "answered"} =>
        /\ batch[b].job \in JobIds
        /\ Holds(b) => jobs[batch[b].job].lastAttemptAt = batch[b].now

JobsFit == /\ \A j \in JobIds : JobFit(j)
           /\ \A b \in Batches : HolderFit(b)

IInv == TypeOK /\ RequestsFit /\ ScoresNamed /\ JobsFit

-----------------------------------------------------------------------------
(* The CVEs a score reads.                                                 *)

\* Another member of a finite set lets no member in that was not among the first.
LEMMA ForemostOfMore ==
    ASSUME NEW S \in SUBSET Nat, IsFiniteSet(S), NEW d, NEW n \in Nat
    PROVE  Foremost(S \cup {d}, n) \subseteq Foremost(S, n) \cup {d}
<1> SUFFICES ASSUME NEW x \in Foremost(S \cup {d}, n), x # d
             PROVE  x \in Foremost(S, n)
  OBVIOUS
<1> DEFINE before == {y \in S : y < x}
           withD == {y \in S \cup {d} : y < x}
<1>1. x \in S /\ Cardinality(withD) < n
  BY DEF Foremost
<1>2. IsFiniteSet(S \cup {d})
  BY FS_AddElement
<1>3. IsFiniteSet(withD)
  BY <1>2, FS_Subset
<1>4. before \subseteq withD
  OBVIOUS
<1>5. IsFiniteSet(before) /\ Cardinality(before) <= Cardinality(withD)
  BY <1>3, <1>4, FS_Subset
<1>6. Cardinality(before) \in Nat /\ Cardinality(withD) \in Nat
  BY <1>3, <1>5, FS_CardinalityType
<1> HIDE DEF before, withD
<1>7. Cardinality(before) < n
  BY <1>1, <1>5, <1>6
<1>8. QED
  BY <1>1, <1>7 DEF Foremost, before

LEMMA ScoredAreActive ==
    ASSUME NEW f
    PROVE  Scored(f) \subseteq Active(f) /\ Active(f) \subseteq CVEs
  BY DEF Scored, Foremost, Active

LEMMA AssociationsAlone ==
    ASSUME NEW f, assoc'[f] = assoc[f]
    PROVE  Active(f)' = Active(f) /\ Scored(f)' = Scored(f)
<1>1. Active(f)' = Active(f)
  BY DEF Active
<1>2. QED
  BY <1>1 DEF Scored

-----------------------------------------------------------------------------
(* Scores.                                                                 *)

\* What a score reads of a CVE that is attached is never that it is absent.
LEMMA EvidenceTyped ==
    ASSUME TypeOK, Params, NEW c \in CVEs, NEW asOf \in Nat
    PROVE  Evidence(c, asOf) \in Verdicts \cup {"unknown"}
<1> DEFINE usable == {j \in Latest(c) : FreshAt(j, asOf) /\ jobs[j].answer # Failed}
<1>1. CASE usable = {}
  BY <1>1 DEF Evidence
<1>2. CASE usable # {}
  <2>1. PICK j : j = CHOOSE i \in usable : TRUE
    OBVIOUS
  <2>2. j \in usable
    BY <1>2, <2>1
  <2>3. j \in JobIds /\ jobs[j].answer # Failed
    BY <2>2 DEF Latest, Completed
  <2>4. jobs[j].answer \in Verdicts
    BY <2>3 DEF TypeOK, Job, Answers
  <2>5. Evidence(c, asOf) = jobs[j].answer
    BY <1>2, <2>1 DEF Evidence
  <2>6. QED
    BY <2>4, <2>5
<1>3. QED
  BY <1>1, <1>2

LEMMA InputNamesScored ==
    ASSUME TypeOK, Params, NEW f \in Findings, NEW asOf \in Nat
    PROVE  /\ RiskInput(f, asOf) \in [CVEs -> Readings]
           /\ \A c \in CVEs : RiskInput(f, asOf)[c] # "absent" <=> c \in Scored(f)
<1>1. ASSUME NEW c \in CVEs
      PROVE  /\ RiskInput(f, asOf)[c] \in Readings
             /\ (RiskInput(f, asOf)[c] # "absent") <=> c \in Scored(f)
  <2>1. Evidence(c, asOf) \in Verdicts \cup {"unknown"}
    BY EvidenceTyped
  <2>2. Evidence(c, asOf) # "absent"
    BY <2>1, Params DEF ParamsAssumption
  <2>3. RiskInput(f, asOf)[c] = IF c \in Scored(f) THEN Evidence(c, asOf) ELSE "absent"
    BY DEF RiskInput
  <2>4. QED
    BY <2>1, <2>2, <2>3 DEF Readings
<1>2. RiskInput(f, asOf) = [c \in CVEs |-> RiskInput(f, asOf)[c]]
  BY DEF RiskInput
<1>3. QED
  BY <1>1, <1>2

\* A rescore leaves the finding named, keeps the scores of the others, and takes back no
\* excuse but that of the finding.
LEMMA RescoreNames ==
    ASSUME TypeOK, Params, NEW f \in Findings, NEW asOf \in Nat, NEW early \in BOOLEAN,
           Rescore(f, asOf, early)
    PROVE  /\ score' \in [Findings -> [asOf : Nat \cup {Never}, input : [CVEs -> Readings]]]
           /\ {c \in CVEs : score'[f].input[c] # "absent"} = Scored(f)
           /\ \A g \in Findings : g # f => score'[g] = score[g]
           /\ excused' \subseteq Findings /\ excused \ {f} \subseteq excused'
<1> DEFINE input == RiskInput(f, asOf)
<1>1. input \in [CVEs -> Readings] /\ \A c \in CVEs : input[c] # "absent" <=> c \in Scored(f)
  BY InputNamesScored
<1>2. {c \in CVEs : input[c] # "absent"} = Scored(f)
  BY <1>1, ScoredAreActive
<1>3. excused' \subseteq Findings /\ excused \ {f} \subseteq excused'
  BY DEF Rescore, TypeOK
<1>4. CASE score' = score /\ score[f].input = input
  BY <1>2, <1>3, <1>4 DEF TypeOK
<1>5. CASE score' = [score EXCEPT ![f] = [asOf |-> asOf, input |-> input]]
  <2> HIDE DEF input
  <2>1. score'[f].input = input
    BY <1>5 DEF TypeOK
  <2>2. score' \in [Findings -> [asOf : Nat \cup {Never}, input : [CVEs -> Readings]]]
    BY <1>1, <1>5 DEF TypeOK
  <2>3. \A g \in Findings : g # f => score'[g] = score[g]
    BY <1>5 DEF TypeOK
  <2>4. QED
    BY <1>2, <1>3, <2>1, <2>2, <2>3
<1>6. QED
  BY <1>4, <1>5 DEF Rescore

-----------------------------------------------------------------------------
(* Types.                                                                  *)

Request == [pc : RequestPCs, kind : Kinds, finding : Findings \cup {NoFinding},
            cve : CVEs, asOf : Nat]
Batch == [pc : BatchPCs, now : Nat, todo : SUBSET [id : JobIds, attempts : 0..MaxAttempts],
          job : JobIds \cup {0}, answer : Answers, completed : SUBSET CVEs, ids : SUBSET Findings]

LEMMA NewTyped ==
    ASSUME Params
    PROVE  /\ NewRequest \in Request /\ NewBatch \in Batch
           /\ NewJob \in Job /\ NewJob.token = NoToken
<1>1. (CHOOSE c \in CVEs : TRUE) \in CVEs
  BY Params DEF ParamsAssumption
<1>2. NewRequest \in Request
  BY <1>1 DEF NewRequest, Request, RequestPCs, Kinds
<1>3. NewBatch \in Batch
  BY DEF NewBatch, Batch, BatchPCs, Answers
<1>4. NewJob \in Job /\ NewJob.token = NoToken
  BY <1>1, Params DEF NewJob, Job, Answers, ParamsAssumption
<1>5. QED
  BY <1>2, <1>3, <1>4

\* A request that goes on, ends, or is scheduled keeps its type and its subject.
LEMMA GoesTyped ==
    ASSUME TypeOK, Params, NEW r \in Requests, NEW pc \in RequestPCs, Goes(r, pc)
    PROVE  req' \in [Requests -> Request] /\ req' = [req EXCEPT ![r] = [req[r] EXCEPT !.pc = pc]]
<1>1. req \in [Requests -> Request]
  BY DEF TypeOK, Request
<1>2. req' = [req EXCEPT ![r] = [req[r] EXCEPT !.pc = pc]]
  BY <1>1 DEF Goes
<1>3. [req[r] EXCEPT !.pc = pc] \in Request
  BY <1>1 DEF Request
<1>4. QED
  BY <1>1, <1>2, <1>3

LEMMA EndsTyped ==
    ASSUME TypeOK, Params, NEW r \in Requests, Ends(r)
    PROVE  /\ req' \in [Requests -> Request]
           /\ req'[r].pc = "done" /\ \A q \in Requests : q # r => req'[q] = req[q]
<1> DEFINE q0 == [NewRequest EXCEPT !.pc = "done"]
<1>1. q0 \in Request /\ q0.pc = "done"
  BY NewTyped DEF Request, RequestPCs
<1>2. req' = [req EXCEPT ![r] = q0]
  BY DEF Ends
<1>3. req \in [Requests -> Request]
  BY DEF TypeOK, Request
<1> HIDE DEF q0
<1>4. QED
  BY <1>1, <1>2, <1>3

LEMMA ScheduledTyped ==
    ASSUME TypeOK, Params, NEW r \in Requests, Scheduled(r)
    PROVE  req' \in [Requests -> Request]
<1>1. "rescoring" \in RequestPCs
  BY DEF RequestPCs
<1>2. QED
  BY <1>1, GoesTyped, EndsTyped DEF Scheduled

LEMMA RequestTypes ==
    ASSUME TypeOK, RequestsFit, Params, NEW r \in Requests, RequestStep(r)
    PROVE  TypeOK'
<1> USE DEF Request
<1>1. CASE BeginRequest(r)
  <2>1. req' \in [Requests -> Request]
    BY <1>1 DEF BeginRequest, TypeOK, RequestPCs, Kinds
  <2>2. QED
    BY <1>1, <2>1 DEF BeginRequest, TypeOK
<1>2. CASE ChangeAssociation(r)
  <2>1. req' \in [Requests -> Request]
    BY <1>2, GoesTyped, EndsTyped DEF ChangeAssociation, RequestPCs
  <2>2. assoc' \in [Findings -> [CVEs -> {"NONE", "ACTIVE", "REMOVED"}]]
    <3> DEFINE target == IF req[r].kind = "ATTACH" THEN "ACTIVE" ELSE "REMOVED"
    <3>1. CASE assoc' = assoc
      BY <3>1 DEF TypeOK
    <3>2. CASE assoc' = [assoc EXCEPT ![req[r].finding][req[r].cve] = target]
      BY <3>2 DEF TypeOK
    <3>3. QED
      BY <1>2, <3>1, <3>2 DEF ChangeAssociation
  <2>3. excused' \subseteq Findings
    BY <1>2 DEF ChangeAssociation, RequestsFit, RequestFit, TypeOK
  <2>4. QED
    BY <1>2, <2>1, <2>2, <2>3 DEF ChangeAssociation, TypeOK
<1>3. CASE CheckCache(r) \/ FindActiveJob(r)
  <2>1. req' \in [Requests -> Request]
    BY <1>3, GoesTyped, ScheduledTyped DEF CheckCache, FindActiveJob, RequestPCs
  <2>2. QED
    BY <1>3, <2>1 DEF CheckCache, FindActiveJob, TypeOK
<1>4. CASE CreateJob(r)
  <2>1. req' \in [Requests -> Request]
    BY <1>4, GoesTyped, ScheduledTyped DEF CreateJob, RequestPCs
  <2>2. CASE jobs' = jobs
    BY <1>4, <2>1, <2>2 DEF CreateJob, TypeOK
  <2>3. ASSUME NEW j \in JobIds,
               jobs' = [jobs EXCEPT ![j] = [NewJob EXCEPT !.cve = req[r].cve, !.status = "PENDING",
                                                           !.requestedAt = req[r].asOf]]
        PROVE  TypeOK'
    <3>1. [NewJob EXCEPT !.cve = req[r].cve, !.status = "PENDING",
                          !.requestedAt = req[r].asOf] \in Job
      BY NewTyped DEF Job, TypeOK
    <3>2. jobs' \in [JobIds -> Job]
      BY <2>3, <3>1 DEF TypeOK
    <3>3. QED
      BY <1>4, <2>1, <3>2 DEF CreateJob, TypeOK
  <2>4. QED
    BY <1>4, <2>2, <2>3 DEF CreateJob
<1>5. CASE ScheduleFails(r)
  <2>1. req' \in [Requests -> Request]
    BY <1>5, ScheduledTyped DEF ScheduleFails
  <2>2. excused' \subseteq Findings
    BY <1>5 DEF ScheduleFails, RequestsFit, RequestFit, TypeOK
  <2>3. QED
    BY <1>5, <2>1, <2>2, Params DEF ScheduleFails, Fails, TypeOK, ParamsAssumption
<1>6. CASE RescoreRequested(r)
  <2>1. req[r].finding \in Findings /\ req[r].asOf \in Nat
    BY <1>6 DEF RescoreRequested, RequestsFit, RequestFit, TypeOK
  <2>2. /\ score' \in [Findings -> [asOf : Nat \cup {Never}, input : [CVEs -> Readings]]]
        /\ excused' \subseteq Findings
    BY <1>6, <2>1, RescoreNames DEF RescoreRequested
  <2>3. req' \in [Requests -> Request]
    BY <1>6, EndsTyped DEF RescoreRequested
  <2>4. QED
    BY <1>6, <2>2, <2>3 DEF RescoreRequested, TypeOK
<1>7. CASE LoseRequest(r)
  <2>1. req' \in [Requests -> Request]
    BY <1>7, EndsTyped DEF LoseRequest
  <2>2. excused' \subseteq Findings
    BY <1>7 DEF LoseRequest, RequestsFit, RequestFit, TypeOK
  <2>3. QED
    BY <1>7, <2>1, <2>2, Params DEF LoseRequest, Fails, TypeOK, ParamsAssumption
<1>8. QED
  BY <1>1, <1>2, <1>3, <1>4, <1>5, <1>6, <1>7 DEF RequestStep

LEMMA RequestsStayFit ==
    ASSUME TypeOK, RequestsFit, Params, NEW r \in Requests, RequestStep(r)
    PROVE  RequestsFit'
<1> DEFINE Scheduling == {"scheduling", "looking", "creating"}
<1>1. \A q \in Requests : q # r => req'[q] = req[q]
  BY DEF RequestStep, BeginRequest, ChangeAssociation, CheckCache, FindActiveJob, CreateJob,
         ScheduleFails, RescoreRequested, LoseRequest, Scheduled, Goes, Ends, TypeOK
<1>2. CASE Ends(r)
  BY <1>1, <1>2, EndsTyped DEF RequestsFit, RequestFit
<1>3. ASSUME NEW pc \in Scheduling \cup {"rescoring"}, Goes(r, pc),
             \/ req[r].pc = "changing"
             \/ req[r].pc \in Scheduling /\ (pc = "rescoring" => req[r].kind = "ATTACH")
      PROVE  RequestsFit'
  <2>1. pc \in RequestPCs
    BY DEF RequestPCs
  <2>2. /\ req'[r].pc = pc /\ req'[r].kind = req[r].kind /\ req'[r].finding = req[r].finding
    BY <1>3, <2>1, GoesTyped DEF TypeOK
  <2>3. RequestFit(r)'
    BY <1>3, <2>2 DEF RequestsFit, RequestFit
  <2>4. QED
    BY <1>1, <2>3 DEF RequestsFit, RequestFit
<1>4. CASE BeginRequest(r)
  <2>1. RequestFit(r)'
    BY <1>4 DEF BeginRequest, RequestFit, TypeOK, Kinds
  <2>2. QED
    BY <1>1, <2>1 DEF RequestsFit, RequestFit
<1>5. CASE ChangeAssociation(r)
  BY <1>2, <1>3, <1>5 DEF ChangeAssociation
<1>6. CASE CheckCache(r) \/ FindActiveJob(r) \/ CreateJob(r) \/ ScheduleFails(r)
  <2>1. Ends(r) \/ \E pc \in Scheduling \cup {"rescoring"} :
                      Goes(r, pc) /\ (pc = "rescoring" => req[r].kind = "ATTACH")
    BY <1>6 DEF CheckCache, FindActiveJob, CreateJob, ScheduleFails, Scheduled
  <2>2. req[r].pc \in Scheduling
    BY <1>6 DEF CheckCache, FindActiveJob, CreateJob, ScheduleFails
  <2>3. QED
    BY <1>2, <1>3, <2>1, <2>2
<1>7. CASE RescoreRequested(r) \/ LoseRequest(r)
  BY <1>2, <1>7 DEF RescoreRequested, LoseRequest
<1>8. QED
  BY <1>4, <1>5, <1>6, <1>7 DEF RequestStep

\* What a batch makes of a job.
LEMMA JobTyped ==
    ASSUME TypeOK, Params, NEW b \in Batches, NEW j \in JobIds
    PROVE  /\ Buried(j) \in Job
           /\ \A n \in Nat : n <= jobs[j].attempts => Released(j, batch[b].now, n) \in Job
           /\ \A a \in Answers : [jobs[j] EXCEPT !.status = "COMPLETED", !.token = NoToken,
                 !.lease = 0, !.next = 0, !.queriedAt = batch[b].now, !.answer = a] \in Job
           /\ jobs[j].attempts < MaxAttempts =>
                 [jobs[j] EXCEPT !.token = b, !.lease = batch[b].now + LeaseTime,
                     !.lastAttemptAt = batch[b].now, !.attempts = jobs[j].attempts + 1] \in Job
<1>1. jobs[j] \in Job /\ batch[b].now \in Nat
  BY DEF TypeOK
<1>2. Delay \in Nat /\ LeaseTime \in Nat /\ MaxAttempts \in Nat
  BY Params DEF ParamsAssumption
<1>3. Buried(j) \in Job
  BY <1>1 DEF Buried, Job
<1>4. \A n \in Nat : n <= jobs[j].attempts => Released(j, batch[b].now, n) \in Job
  <2> SUFFICES ASSUME NEW n \in Nat, n <= jobs[j].attempts
               PROVE  Released(j, batch[b].now, n) \in Job
    OBVIOUS
  <2>1. jobs[j].attempts \in 0..MaxAttempts
    BY <1>1 DEF Job
  <2>2. n \in 0..MaxAttempts /\ batch[b].now + Delay \in Nat
    BY <1>1, <1>2, <2>1
  <2>3. QED
    BY <1>1, <2>2 DEF Released, Job
<1>5. \A a \in Answers : [jobs[j] EXCEPT !.status = "COMPLETED", !.token = NoToken,
         !.lease = 0, !.next = 0, !.queriedAt = batch[b].now, !.answer = a] \in Job
  BY <1>1, <1>2 DEF Job
<1>6. jobs[j].attempts < MaxAttempts =>
         [jobs[j] EXCEPT !.token = b, !.lease = batch[b].now + LeaseTime,
             !.lastAttemptAt = batch[b].now, !.attempts = jobs[j].attempts + 1] \in Job
  <2> HAVE jobs[j].attempts < MaxAttempts
  <2>1. jobs[j].attempts \in 0..MaxAttempts
    BY <1>1 DEF Job
  <2>2. jobs[j].attempts + 1 \in 0..MaxAttempts /\ batch[b].now + LeaseTime \in Nat
    BY <1>1, <1>2, <2>1
  <2>3. QED
    BY <1>1, <2>2 DEF Job
<1>7. QED
  BY <1>3, <1>4, <1>5, <1>6

\* A batch moves from one of its states to another.
LEMMA MovesTyped ==
    ASSUME TypeOK, NEW b \in Batches, NEW fields \in Batch, Moves(b, fields)
    PROVE  /\ batch' \in [Batches -> Batch]
           /\ batch'[b] = fields /\ \A a \in Batches : a # b => batch'[a] = batch[a]
<1>1. batch \in [Batches -> Batch]
  BY DEF TypeOK, Batch
<1>2. batch' = [batch EXCEPT ![b] = fields]
  BY DEF Moves
<1>3. QED
  BY <1>1, <1>2

LEMMA JobChangeTyped ==
    ASSUME TypeOK, NEW j \in JobIds, NEW new \in Job, jobs' = [jobs EXCEPT ![j] = new]
    PROVE  /\ jobs' \in [JobIds -> Job]
           /\ jobs'[j] = new /\ \A k \in JobIds : k # j => jobs'[k] = jobs[k]
  BY DEF TypeOK

LEMMA PicksTyped ==
    ASSUME TypeOK, NEW b \in Batches, NEW done \in SUBSET CVEs, Picks(b, done)
    PROVE  /\ batch' \in [Batches -> Batch] /\ batch'[b].pc = "picking"
           /\ \A a \in Batches : a # b => batch'[a] = batch[a]
<1> DEFINE new == [batch[b] EXCEPT !.pc = "picking", !.job = 0, !.answer = Failed,
                                   !.completed = done]
<1>1. new \in Batch /\ new.pc = "picking"
  BY DEF TypeOK, Batch, BatchPCs, Answers
<1>2. Moves(b, new)
  BY DEF Picks
<1> HIDE DEF new
<1>3. QED
  BY <1>1, <1>2, MovesTyped

LEMMA FinishesTyped ==
    ASSUME TypeOK, Params, NEW b \in Batches, NEW done \in SUBSET CVEs, Finishes(b, done)
    PROVE  /\ batch' \in [Batches -> Batch] /\ batch'[b].pc \in {"done", "listing"}
           /\ \A a \in Batches : a # b => batch'[a] = batch[a]
<1> DEFINE new == [NewBatch EXCEPT !.pc = IF done = {} THEN "done" ELSE "listing",
                                   !.now = batch[b].now, !.completed = done]
<1>1. new \in Batch /\ new.pc \in {"done", "listing"}
  BY NewTyped DEF TypeOK, Batch, BatchPCs
<1>2. Moves(b, new)
  BY DEF Finishes
<1> HIDE DEF new
<1>3. QED
  BY <1>1, <1>2, MovesTyped

\* What the hook takes up of the findings of one more CVE, and whom it excuses.
LEMMA ListedTyped ==
    ASSUME TypeOK, NEW b \in Batches, ListFindings(b)
    PROVE  \E c \in batch[b].completed, selected \in SUBSET Findings :
              /\ Moves(b, [batch[b] EXCEPT !.completed = batch[b].completed \ {c},
                    !.ids = selected,
                    !.pc = IF batch[b].completed \ {c} = {} THEN "rescoring" ELSE "listing"])
              /\ excused' = excused \cup ((batch[b].ids \cup Holders(c)) \ selected)
<1> DEFINE rest(c) == batch[b].completed \ {c}
           listed(c) == batch[b].ids \cup Foremost(Holders(c), HookLimit)
           selected(c) == IF rest(c) = {} THEN Foremost(listed(c), TriggerLimit) ELSE listed(c)
<1>1. PICK c \in batch[b].completed :
         /\ Moves(b, [batch[b] EXCEPT !.completed = rest(c), !.ids = selected(c),
                         !.pc = IF rest(c) = {} THEN "rescoring" ELSE "listing"])
         /\ excused' = excused \cup ((batch[b].ids \cup Holders(c)) \ selected(c))
  BY DEF ListFindings
<1>2. listed(c) \subseteq Findings
  BY DEF Foremost, Holders, TypeOK
<1>3. \A S, n : Foremost(S, n) \subseteq S
  BY DEF Foremost
<1>4. selected(c) \in SUBSET Findings
  BY <1>2, <1>3
<1> HIDE DEF selected
<1>5. QED
  BY <1>1, <1>4

\* A batch at work has a job, and a candidate that it listed.
LEMMA BatchTypes ==
    ASSUME TypeOK, JobsFit, Params, NEW b \in Batches, BatchStep(b)
    PROVE  TypeOK'
<1>1. batch[b] \in Batch
  BY DEF TypeOK, Batch
<1>2. ASSUME batch' \in [Batches -> Batch], UNCHANGED <<clock, assoc, score, req>>,
             failures' = failures \/ Fails, excused' \subseteq Findings,
             jobs' \in [JobIds -> Job]
      PROVE  TypeOK'
  <2>1. failures' \in 0..MaxFailures
    BY <1>2, Params DEF Fails, TypeOK, ParamsAssumption
  <2>2. QED
    BY <1>2, <2>1 DEF TypeOK, Batch
<1>3. jobs \in [JobIds -> Job] /\ excused \subseteq Findings
  BY DEF TypeOK
<1>4. CASE OpenBatch(b)
  <2>1. [batch[b] EXCEPT !.pc = "opening", !.now = clock] \in Batch
    <3>1. clock \in Nat
      BY Params DEF TypeOK, ParamsAssumption
    <3>2. QED
      BY <1>1, <3>1 DEF Batch, BatchPCs
  <2>2. QED
    BY <1>2, <1>3, <1>4, <2>1, MovesTyped DEF OpenBatch
<1>5. CASE ListCandidates(b)
  <2> DEFINE listed == Candidates(batch[b].now)
             page == {j \in listed : Cardinality({k \in listed : Before(k, j)}) < BatchSize}
             todo == {[id |-> j, attempts |-> jobs[j].attempts] : j \in page}
  <2>1. todo \subseteq [id : JobIds, attempts : 0..MaxAttempts]
    <3>1. ASSUME NEW j \in page
          PROVE  [id |-> j, attempts |-> jobs[j].attempts] \in [id : JobIds, attempts : 0..MaxAttempts]
      <4>1. j \in JobIds
        BY DEF Candidates
      <4>2. jobs[j].attempts \in 0..MaxAttempts
        BY <1>3, <4>1 DEF Job
      <4>3. QED
        BY <4>1, <4>2
    <3> HIDE DEF page
    <3>2. QED
      BY <3>1
  <2>2. [batch[b] EXCEPT !.pc = "picking", !.todo = todo] \in Batch
    BY <1>1, <2>1 DEF Batch, BatchPCs
  <2>3. QED
    BY <1>2, <1>3, <1>5, <2>2, MovesTyped DEF ListCandidates
<1>6. CASE NextCandidate(b)
  <2> PICK t \in batch[b].todo : (Claim(b, t) \/ SweepExhausted(b, t)) /\ GivenUp(t.id)
    BY <1>6 DEF NextCandidate
  <2>1. t.id \in JobIds
    BY <1>1 DEF Batch
  <2>2. [batch[b] EXCEPT !.todo = batch[b].todo \ {t}] \in Batch
    BY <1>1 DEF Batch
  <2>3. [batch[b] EXCEPT !.pc = "calling", !.job = t.id, !.todo = batch[b].todo \ {t}] \in Batch
    BY <1>1, <2>1 DEF Batch, BatchPCs
  <2>4. batch' \in [Batches -> Batch]
    BY <2>2, <2>3, MovesTyped DEF Claim, SweepExhausted
  <2>5. jobs' \in [JobIds -> Job]
    <3> DEFINE claimed == [jobs[t.id] EXCEPT !.token = b, !.lease = batch[b].now + LeaseTime,
                             !.lastAttemptAt = batch[b].now, !.attempts = jobs[t.id].attempts + 1]
    <3>1. \/ jobs' = jobs \/ jobs' = [jobs EXCEPT ![t.id] = Buried(t.id)]
          \/ jobs[t.id].attempts < MaxAttempts /\ jobs' = [jobs EXCEPT ![t.id] = claimed]
      BY DEF Claim, SweepExhausted
    <3>2. Buried(t.id) \in Job /\ (jobs[t.id].attempts < MaxAttempts => claimed \in Job)
      BY <2>1, JobTyped
    <3> HIDE DEF claimed
    <3>3. QED
      BY <1>3, <2>1, <3>1, <3>2, JobChangeTyped
  <2>6. excused' \subseteq Findings
    BY <1>3 DEF GivenUp, Holders
  <2>7. QED
    BY <1>2, <1>6, <2>4, <2>5, <2>6 DEF NextCandidate
<1>7. CASE EndOfCandidates(b)
  <2>1. batch[b].completed \in SUBSET CVEs
    BY <1>1 DEF Batch
  <2>2. QED
    BY <1>2, <1>3, <1>7, <2>1, FinishesTyped DEF EndOfCandidates
<1>8. CASE Answer(b)
  <2>1. \A a \in Answers : [batch[b] EXCEPT !.pc = "answered", !.answer = a] \in Batch
    BY <1>1 DEF Batch, BatchPCs
  <2>2. QED
    BY <1>2, <1>3, <1>8, <2>1, MovesTyped DEF Answer
<1>9. CASE CompleteJob(b) \/ CompletionError(b)
  <2>1. batch[b].job \in JobIds /\ batch[b].answer \in Answers
    BY <1>1, <1>9 DEF CompleteJob, CompletionError, JobsFit, HolderFit, Batch
  <2>2. WithAnswer(b) \in [JobIds -> Job]
    BY <1>3, <2>1, JobTyped DEF WithAnswer
  <2>3. batch[b].completed \in SUBSET CVEs /\ jobs[batch[b].job].cve \in CVEs
    BY <1>1, <1>3, <2>1 DEF Batch, Job
  <2>4. batch' \in [Batches -> Batch]
    BY <1>9, <2>3, PicksTyped DEF CompleteJob, CompletionError
  <2>5. jobs' \in [JobIds -> Job] /\ excused' \subseteq Findings
    BY <1>3, <1>9, <2>2 DEF CompleteJob, CompletionError, Holders
  <2>6. QED
    BY <1>2, <1>9, <2>4, <2>5 DEF CompleteJob, CompletionError
<1>10. CASE AttemptFails(b)
  <2>1. batch[b].job \in JobIds /\ batch[b].completed \in SUBSET CVEs
    BY <1>1, <1>10 DEF AttemptFails, JobsFit, HolderFit, Batch
  <2>2. jobs[batch[b].job].attempts \in Nat
    BY <1>3, <2>1 DEF Job
  <2>3. jobs' \in [JobIds -> Job]
    <3> DEFINE j == batch[b].job
    <3>1. \/ jobs' = jobs \/ jobs' = [jobs EXCEPT ![j] = Buried(j)]
          \/ jobs' = [jobs EXCEPT ![j] = Released(j, batch[b].now, jobs[j].attempts)]
      BY <1>10 DEF AttemptFails
    <3>2. Buried(j) \in Job /\ Released(j, batch[b].now, jobs[j].attempts) \in Job
      <4>1. jobs[j].attempts <= jobs[j].attempts
        BY <2>2
      <4>2. QED
        BY <2>1, <2>2, <4>1, JobTyped
    <3> HIDE DEF j
    <3>3. QED
      BY <1>3, <2>1, <3>1, <3>2, JobChangeTyped DEF j
  <2>4. excused' \subseteq Findings
    BY <1>3, <1>10 DEF AttemptFails, GivenUp, Holders
  <2>5. QED
    BY <1>2, <1>10, <2>1, <2>3, <2>4, PicksTyped DEF AttemptFails
<1>11. CASE Cancel(b)
  <2>1. batch[b].completed \in SUBSET CVEs
    BY <1>1 DEF Batch
  <2>2. jobs' \in [JobIds -> Job]
    <3>1. CASE jobs' = jobs
      BY <1>3, <3>1
    <3>2. CASE batch[b].pc # "picking" /\ Holds(b)
      <4>1. batch[b].job \in JobIds /\ jobs[batch[b].job].token = b
        BY <1>11, <3>2 DEF Cancel, JobsFit, HolderFit, Holds
      <4>2. jobs[batch[b].job].attempts > 0 /\ jobs[batch[b].job].attempts \in Nat
        BY <1>3, <4>1, Params DEF JobsFit, JobFit, Job, ParamsAssumption
      <4>3. jobs[batch[b].job].attempts - 1 \in Nat
        BY <4>2
      <4>4. QED
        <5> DEFINE j == batch[b].job
        <5>1. jobs' = [jobs EXCEPT ![j] = Released(j, batch[b].now, jobs[j].attempts - 1)]
          BY <1>11, <3>2 DEF Cancel
        <5>2. jobs[j].attempts - 1 <= jobs[j].attempts
          BY <4>2
        <5>3. Released(j, batch[b].now, jobs[j].attempts - 1) \in Job
          BY <4>1, <4>3, <5>2, JobTyped
        <5>4. j \in JobIds
          BY <4>1
        <5> HIDE DEF j
        <5>5. QED
          BY <5>1, <5>3, <5>4, JobChangeTyped
    <3>3. QED
      BY <1>11, <3>1, <3>2 DEF Cancel
  <2>3. QED
    BY <1>2, <1>3, <1>11, <2>1, <2>2, FinishesTyped DEF Cancel
<1>12. CASE ListFindings(b)
  <2>1. excused' \subseteq Findings
    BY <1>1, <1>3, <1>12 DEF ListFindings, Holders, Batch
  <2>2. batch' \in [Batches -> Batch]
    <3>1. PICK c \in batch[b].completed, selected \in SUBSET Findings :
             Moves(b, [batch[b] EXCEPT !.completed = batch[b].completed \ {c}, !.ids = selected,
                          !.pc = IF batch[b].completed \ {c} = {} THEN "rescoring" ELSE "listing"])
      BY <1>12, ListedTyped
    <3>2. [batch[b] EXCEPT !.completed = batch[b].completed \ {c}, !.ids = selected,
              !.pc = IF batch[b].completed \ {c} = {} THEN "rescoring" ELSE "listing"] \in Batch
      BY <1>1 DEF Batch, BatchPCs
    <3>3. QED
      BY <3>1, <3>2, MovesTyped
  <2>3. QED
    BY <1>2, <1>3, <1>12, <2>1, <2>2 DEF ListFindings
<1>13. CASE RescoreListed(b)
  <2> PICK f \in batch[b].ids :
         /\ Rescore(f, batch[b].now, TRUE)
         /\ Moves(b, [batch[b] EXCEPT !.ids = batch[b].ids \ {f}])
    BY <1>13 DEF RescoreListed
  <2>1. f \in Findings /\ batch[b].now \in Nat /\ [batch[b] EXCEPT !.ids = batch[b].ids \ {f}] \in Batch
    BY <1>1 DEF Batch
  <2>2. /\ score' \in [Findings -> [asOf : Nat \cup {Never}, input : [CVEs -> Readings]]]
        /\ excused' \subseteq Findings
    BY <2>1, RescoreNames
  <2>3. batch' \in [Batches -> Batch]
    BY <2>1, MovesTyped
  <2>4. QED
    BY <1>13, <2>2, <2>3 DEF RescoreListed, TypeOK, Batch
<1>14. CASE RescoreListedFails(b)
  <2> PICK f \in batch[b].ids : /\ Moves(b, [batch[b] EXCEPT !.ids = batch[b].ids \ {f}])
                                /\ excused' = excused \cup {f}
    BY <1>14 DEF RescoreListedFails
  <2>1. f \in Findings /\ [batch[b] EXCEPT !.ids = batch[b].ids \ {f}] \in Batch
    BY <1>1 DEF Batch
  <2>2. batch' \in [Batches -> Batch] /\ excused' \subseteq Findings
    BY <1>3, <2>1, MovesTyped
  <2>3. QED
    BY <1>2, <1>3, <1>14, <2>2 DEF RescoreListedFails
<1>15. CASE EndOfBatch(b) \/ LoseBatch(b)
  <2>1. [NewBatch EXCEPT !.pc = "done"] \in Batch
    BY NewTyped DEF Batch, BatchPCs
  <2>2. batch' \in [Batches -> Batch]
    BY <1>15, <2>1, MovesTyped DEF EndOfBatch, LoseBatch
  <2>3. excused' \subseteq Findings
    BY <1>1, <1>3, <1>15 DEF EndOfBatch, LoseBatch, Batch, Holders
  <2>4. QED
    BY <1>2, <1>3, <1>15, <2>2, <2>3 DEF EndOfBatch, LoseBatch
<1>16. QED
  BY <1>4, <1>5, <1>6, <1>7, <1>8, <1>9, <1>10, <1>11, <1>12, <1>13, <1>14, <1>15 DEF BatchStep

-----------------------------------------------------------------------------
(* Scores name what is attached.                                           *)

\* A step keeps every score named that writes neither scores nor associations, takes no
\* excuse back and ends no request that owes a score.
LEMMA NamesStay ==
    ASSUME ScoresNamed, score' = score, assoc' = assoc, excused \subseteq excused',
           \A f \in Findings : Owed(f) => Owed(f)' \/ f \in excused'
    PROVE  ScoresNamed'
<1>1. \A f \in Findings : Scored(f)' = Scored(f)
  BY AssociationsAlone
<1>2. QED
  BY <1>1 DEF ScoresNamed, Named

\* A request that goes on to a step from which it will score owes what it owed.
LEMMA GoingOnOwes ==
    ASSUME TypeOK, Params, NEW r \in Requests, NEW pc, Goes(r, pc),
           \/ pc = "rescoring"
           \/ pc \in {"scheduling", "looking", "creating"} /\ req[r].pc # "rescoring"
    PROVE  \A f \in Findings : Owed(f) => Owed(f)'
<1>1. req' = [req EXCEPT ![r] = [req[r] EXCEPT !.pc = pc]]
  BY DEF Goes, TypeOK
<1>2. /\ req'[r].pc = pc /\ req'[r].kind = req[r].kind /\ req'[r].finding = req[r].finding
      /\ \A q \in Requests : q # r => req'[q] = req[q]
  BY <1>1 DEF TypeOK
<1>3. QED
  BY <1>2 DEF Owed, ScoresNext

LEMMA EndingOwesNothing ==
    ASSUME TypeOK, Params, NEW r \in Requests, Ends(r),
           \A f \in Findings : ScoresNext(r, f) => req[r].kind \notin {"ATTACH", "REMOVE"}
    PROVE  \A f \in Findings : Owed(f) => Owed(f)'
<1>1. \A q \in Requests : q # r => req'[q] = req[q]
  BY EndsTyped
<1>2. QED
  BY <1>1 DEF Owed, ScoresNext

LEMMA RequestNames ==
    ASSUME TypeOK, RequestsFit, ScoresNamed, Params, NEW r \in Requests, RequestStep(r)
    PROVE  ScoresNamed'
<1> DEFINE Scheduling == {"scheduling", "looking", "creating"}
<1>1. CASE BeginRequest(r)
  <2>1. \A q \in Requests : q # r => req'[q] = req[q]
    BY <1>1 DEF BeginRequest, TypeOK
  <2>2. \A f \in Findings : Owed(f) => Owed(f)'
    BY <1>1, <2>1 DEF BeginRequest, Owed, ScoresNext
  <2>3. QED
    BY <1>1, <2>2, NamesStay DEF BeginRequest
<1>2. CASE ChangeAssociation(r)
  <2>1. CASE assoc' = assoc /\ excused' = excused /\ Ends(r)
    <3>1. \A f \in Findings : Owed(f) => Owed(f)'
      BY <1>2, <2>1, EndingOwesNothing DEF ChangeAssociation, ScoresNext
    <3>2. QED
      BY <1>2, <2>1, <3>1, NamesStay DEF ChangeAssociation
  <2>2. ASSUME NEW target, assoc' = [assoc EXCEPT ![req[r].finding][req[r].cve] = target],
               NEW pc, Goes(r, pc), pc = IF req[r].kind = "ATTACH" THEN "scheduling" ELSE "rescoring"
        PROVE  ScoresNamed'
    <3>1. req[r].pc = "changing" /\ req[r].finding \in Findings
      BY <1>2 DEF ChangeAssociation, RequestsFit, RequestFit
    <3>2. req' = [req EXCEPT ![r] = [req[r] EXCEPT !.pc = pc]]
      BY <2>2 DEF Goes, TypeOK
    <3>3. /\ req'[r].pc = pc /\ req'[r].kind = req[r].kind /\ req'[r].finding = req[r].finding
          /\ \A q \in Requests : q # r => req'[q] = req[q]
      BY <3>2 DEF TypeOK
    <3> PICK x : x = req[r].finding
      OBVIOUS
    <3>4. req[r].kind \in {"ATTACH", "REMOVE"} => Owed(x)'
      BY <2>2, <3>3 DEF Owed, ScoresNext
    <3>5. \A f \in Findings : Owed(f) => Owed(f)'
      BY <2>2, <3>1, <3>3 DEF Owed, ScoresNext
    <3>6. \A f \in Findings : f # x => assoc'[f] = assoc[f]
      BY <2>2 DEF TypeOK
    <3>7. \A f \in Findings : f # x => (Named(f) => Named(f)')
      BY <1>2, <3>6, AssociationsAlone DEF Named, ChangeAssociation
    <3>8. req[r].kind \in {"ATTACH", "REMOVE"}
      BY <3>1 DEF RequestsFit, RequestFit
    <3>9. QED
      <4>1. excused \subseteq excused'
        BY <1>2 DEF ChangeAssociation
      <4>2. ASSUME NEW f \in Findings
            PROVE  Named(f)' \/ f \in excused' \/ Owed(f)'
        <5>1. CASE f = x
          BY <3>4, <3>8, <5>1
        <5>2. CASE f # x
          <6>1. Named(f) \/ f \in excused \/ Owed(f)
            BY DEF ScoresNamed
          <6>2. (Named(f) => Named(f)') /\ (Owed(f) => Owed(f)')
            BY <3>5, <3>7, <5>2
          <6>3. QED
            BY <4>1, <6>1, <6>2
        <5>3. QED
          BY <5>1, <5>2
      <4>3. QED
        BY <4>2 DEF ScoresNamed
  <2>3. QED
    BY <1>2, <2>1, <2>2 DEF ChangeAssociation
<1>3. CASE CheckCache(r) \/ FindActiveJob(r) \/ CreateJob(r)
  <2>1. req[r].pc \in Scheduling
    BY <1>3 DEF CheckCache, FindActiveJob, CreateJob
  <2>2. \/ \E pc \in Scheduling : Goes(r, pc)
        \/ Scheduled(r)
    BY <1>3 DEF CheckCache, FindActiveJob, CreateJob
  <2>3. \A f \in Findings : Owed(f) => Owed(f)'
    <3>1. CASE \E pc \in Scheduling : Goes(r, pc)
      BY <2>1, <3>1, GoingOnOwes
    <3>2. CASE Goes(r, "rescoring")
      BY <3>2, GoingOnOwes
    <3>3. CASE Ends(r) /\ req[r].kind # "ATTACH"
      BY <2>1, <3>3, EndingOwesNothing DEF ScoresNext
    <3>4. QED
      BY <2>2, <3>1, <3>2, <3>3 DEF Scheduled
  <2>4. QED
    BY <1>3, <2>3, NamesStay DEF CheckCache, FindActiveJob, CreateJob
<1>4. CASE ScheduleFails(r)
  <2>1. \A f \in Findings : Owed(f) => Owed(f)'
    <3>1. CASE Goes(r, "rescoring")
      BY <3>1, GoingOnOwes
    <3>2. CASE Ends(r) /\ req[r].kind # "ATTACH"
      BY <1>4, <3>2, EndingOwesNothing DEF ScoresNext, ScheduleFails
    <3>3. QED
      BY <1>4, <3>1, <3>2 DEF ScheduleFails, Scheduled
  <2>2. QED
    BY <1>4, <2>1, NamesStay DEF ScheduleFails
<1>5. CASE RescoreRequested(r)
  <2> DEFINE f == req[r].finding
  <2>1. f \in Findings /\ req[r].asOf \in Nat
    BY <1>5 DEF RescoreRequested, RequestsFit, RequestFit, TypeOK
  <2>2. /\ {c \in CVEs : score'[f].input[c] # "absent"} = Scored(f)
        /\ \A g \in Findings : g # f => score'[g] = score[g]
        /\ excused \ {f} \subseteq excused'
    BY <1>5, <2>1, RescoreNames DEF RescoreRequested
  <2>3. \A q \in Requests : q # r => req'[q] = req[q]
    BY <1>5, EndsTyped DEF RescoreRequested
  <2>4. \A g \in Findings : g # f /\ Owed(g) => Owed(g)'
    BY <2>3 DEF Owed, ScoresNext
  <2>5. \A g \in Findings : Scored(g)' = Scored(g)
    BY <1>5, AssociationsAlone DEF RescoreRequested
  <2> HIDE DEF f
  <2>6. QED
    BY <2>1, <2>2, <2>4, <2>5 DEF ScoresNamed, Named
<1>6. CASE LoseRequest(r)
  <2>1. \A q \in Requests : q # r => req'[q] = req[q]
    BY <1>6, EndsTyped DEF LoseRequest
  <2>2. \A f \in Findings : Owed(f) => Owed(f)' \/ f \in excused'
    BY <1>6, <2>1 DEF Owed, ScoresNext, LoseRequest
  <2>3. QED
    BY <1>6, <2>2, NamesStay DEF LoseRequest
<1>7. QED
  BY <1>1, <1>2, <1>3, <1>4, <1>5, <1>6 DEF RequestStep

LEMMA BatchNames ==
    ASSUME TypeOK, ScoresNamed, Params, NEW b \in Batches, BatchStep(b)
    PROVE  ScoresNamed'
<1>1. req' = req /\ assoc' = assoc
  BY DEF BatchStep, OpenBatch, ListCandidates, NextCandidate, EndOfCandidates, Answer, CompleteJob,
         CompletionError, AttemptFails, Cancel, ListFindings, RescoreListed, RescoreListedFails,
         EndOfBatch, LoseBatch
<1>2. \A f \in Findings : Owed(f) => Owed(f)'
  BY <1>1 DEF Owed, ScoresNext
<1>3. CASE RescoreListed(b)
  <2> PICK f \in batch[b].ids : Rescore(f, batch[b].now, TRUE)
    BY <1>3 DEF RescoreListed
  <2>1. f \in Findings /\ batch[b].now \in Nat
    BY DEF TypeOK
  <2>2. /\ {c \in CVEs : score'[f].input[c] # "absent"} = Scored(f)
        /\ \A g \in Findings : g # f => score'[g] = score[g]
        /\ excused \ {f} \subseteq excused'
    BY <2>1, RescoreNames
  <2>3. \A g \in Findings : Scored(g)' = Scored(g)
    BY <1>1, AssociationsAlone
  <2>4. QED
    BY <1>2, <2>1, <2>2, <2>3 DEF ScoresNamed, Named
<1>4. CASE ~RescoreListed(b)
  <2>1. score' = score /\ excused \subseteq excused'
    BY <1>4 DEF BatchStep, OpenBatch, ListCandidates, NextCandidate, EndOfCandidates, Answer,
                CompleteJob, CompletionError, AttemptFails, Cancel, ListFindings,
                RescoreListedFails, EndOfBatch, LoseBatch, GivenUp
  <2>2. QED
    BY <1>1, <1>2, <2>1, NamesStay
<1>5. QED
  BY <1>3, <1>4

-----------------------------------------------------------------------------
(* Claims, attempts and answers.                                           *)

LEMMA RequestJobs ==
    ASSUME TypeOK, JobsFit, Params, NEW r \in Requests, RequestStep(r)
    PROVE  JobsFit'
<1>1. batch' = batch
  BY DEF RequestStep, BeginRequest, ChangeAssociation, CheckCache, FindActiveJob, CreateJob,
         ScheduleFails, RescoreRequested, LoseRequest
<1>2. CASE jobs' = jobs
  BY <1>1, <1>2 DEF JobsFit, JobFit, HolderFit, Holds
<1>3. ASSUME NEW j \in JobIds, jobs[j].status = "NONE",
             jobs' = [jobs EXCEPT ![j] = [NewJob EXCEPT !.cve = req[r].cve, !.status = "PENDING",
                                                         !.requestedAt = req[r].asOf]]
      PROVE  JobsFit'
  <2> DEFINE new == [NewJob EXCEPT !.cve = req[r].cve, !.status = "PENDING",
                                   !.requestedAt = req[r].asOf]
  <2>1. new.token = NoToken /\ new.status = "PENDING"
    BY DEF NewJob
  <2>2. jobs'[j] = new /\ \A k \in JobIds : k # j => jobs'[k] = jobs[k]
    BY <1>3 DEF TypeOK
  <2> HIDE DEF new
  <2>3. NoToken \notin Batches
    BY Params DEF ParamsAssumption
  <2>4. \A k \in JobIds : JobFit(k)'
    BY <2>1, <2>2 DEF JobsFit, JobFit
  <2>5. \A b \in Batches : HolderFit(b)'
    BY <1>1, <2>1, <2>2, <2>3 DEF JobsFit, HolderFit, Holds
  <2>6. QED
    BY <2>4, <2>5 DEF JobsFit
<1>4. jobs' = jobs \/ CreateJob(r)
  BY DEF RequestStep, BeginRequest, ChangeAssociation, CheckCache, FindActiveJob,
         ScheduleFails, RescoreRequested, LoseRequest
<1>5. QED
  BY <1>2, <1>3, <1>4 DEF CreateJob

\* A step of batch b that gives up whatever claim it had, or had none.
LEMMA BatchEndsClaim ==
    ASSUME TypeOK, JobsFit, Params, NEW b \in Batches, NEW j \in JobIds, NEW new \in Job,
           jobs' = [jobs EXCEPT ![j] = new] \/ jobs' = jobs,
           new.status = "COMPLETED" => new.queriedAt = new.lastAttemptAt,
           new.token = NoToken,
           batch'[b].pc \notin {"calling", "answered"},
           \A a \in Batches : a # b => batch'[a] = batch[a]
    PROVE  JobsFit'
<1>1. \A k \in JobIds : jobs'[k] = jobs[k] \/ (k = j /\ jobs'[k] = new)
  BY DEF TypeOK
<1>2. NoToken \notin Batches
  BY Params DEF ParamsAssumption
<1>3. \A k \in JobIds : JobFit(k)'
  BY <1>1 DEF JobsFit, JobFit
<1>4. ASSUME NEW a \in Batches
      PROVE  HolderFit(a)'
  <2>1. CASE a = b
    BY <2>1 DEF HolderFit
  <2>2. CASE a # b
    <3>1. batch'[a] = batch[a]
      BY <2>2
    <3>2. PICK x : x = batch[a].job
      OBVIOUS
    <3>3. CASE batch[a].pc \in {"calling", "answered"}
      <4>1. x \in JobIds /\ (Holds(a) => jobs[x].lastAttemptAt = batch[a].now)
        BY <3>2, <3>3 DEF JobsFit, HolderFit
      <4>2. jobs'[x] = jobs[x] \/ jobs'[x].token = NoToken
        BY <1>1, <4>1
      <4>3. Holds(a)' => Holds(a) /\ jobs'[x] = jobs[x]
        BY <1>2, <3>1, <3>2, <4>2 DEF Holds
      <4>4. QED
        BY <3>1, <3>2, <4>1, <4>3 DEF HolderFit
    <3>4. CASE batch[a].pc \notin {"calling", "answered"}
      BY <3>1, <3>4 DEF HolderFit
    <3>5. QED
      BY <3>3, <3>4
  <2>3. QED
    BY <2>1, <2>2
<1>5. QED
  BY <1>3, <1>4 DEF JobsFit

\* A step of batch b that leaves the jobs alone and neither starts nor swaps a claim.
LEMMA BatchLeavesJobs ==
    ASSUME TypeOK, JobsFit, NEW b \in Batches, jobs' = jobs,
           \/ batch'[b].pc \notin {"calling", "answered"}
           \/ /\ batch[b].pc \in {"calling", "answered"}
              /\ batch'[b].job = batch[b].job /\ batch'[b].now = batch[b].now,
           \A a \in Batches : a # b => batch'[a] = batch[a]
    PROVE  JobsFit'
<1>1. \A k \in JobIds : JobFit(k)'
  BY DEF JobsFit, JobFit
<1>2. \A a \in Batches : HolderFit(a)'
  BY DEF JobsFit, HolderFit, Holds
<1>3. QED
  BY <1>1, <1>2 DEF JobsFit

LEMMA BatchJobs ==
    ASSUME TypeOK, JobsFit, Params, NEW b \in Batches, BatchStep(b)
    PROVE  JobsFit'
<1>1. batch[b] \in Batch /\ jobs \in [JobIds -> Job]
  BY DEF TypeOK, Batch
<1>2. NoToken \notin Batches
  BY Params DEF ParamsAssumption
<1>3. ASSUME NEW fields, Moves(b, fields)
      PROVE  batch'[b] = fields /\ \A a \in Batches : a # b => batch'[a] = batch[a]
  BY <1>3 DEF Moves, TypeOK
<1>4. ASSUME NEW fields, Moves(b, fields), fields.pc \notin {"calling", "answered"}, jobs' = jobs
      PROVE  JobsFit'
  BY <1>3, <1>4, BatchLeavesJobs
<1>5. CASE OpenBatch(b)
  <2>1. [batch[b] EXCEPT !.pc = "opening", !.now = clock].pc = "opening"
    BY <1>1 DEF Batch
  <2>2. QED
    BY <1>4, <1>5, <2>1 DEF OpenBatch
<1>6. CASE ListCandidates(b)
  <2>1. \A todo : [batch[b] EXCEPT !.pc = "picking", !.todo = todo].pc = "picking"
    BY <1>1 DEF Batch
  <2>2. QED
    BY <1>4, <1>6, <2>1 DEF ListCandidates
<1>7. CASE EndOfCandidates(b)
  <2>1. batch[b].completed \in SUBSET CVEs
    BY <1>1 DEF Batch
  <2>2. batch'[b].pc \in {"done", "listing"} /\ \A a \in Batches : a # b => batch'[a] = batch[a]
    BY <1>7, <2>1, FinishesTyped DEF EndOfCandidates
  <2>3. QED
    BY <1>7, <2>2, BatchLeavesJobs DEF EndOfCandidates
<1>8. CASE Answer(b)
  <2>1. PICK answer : batch' = [batch EXCEPT ![b] = [batch[b] EXCEPT !.pc = "answered", !.answer = answer]]
    BY <1>8 DEF Answer, Moves
  <2>2. /\ batch'[b].job = batch[b].job /\ batch'[b].now = batch[b].now
        /\ \A a \in Batches : a # b => batch'[a] = batch[a]
    BY <1>1, <2>1 DEF TypeOK, Batch
  <2>3. QED
    BY <1>8, <2>2, BatchLeavesJobs DEF Answer
<1>9. CASE ListFindings(b) \/ RescoreListed(b) \/ RescoreListedFails(b)
  <2>1. batch'[b].pc \in {"listing", "rescoring"} /\ \A a \in Batches : a # b => batch'[a] = batch[a]
    <3>1. PICK fields \in Batch : Moves(b, fields) /\ fields.pc \in {"listing", "rescoring"}
      <4>1. CASE ListFindings(b)
        <5>1. PICK c \in batch[b].completed, selected \in SUBSET Findings :
                 Moves(b, [batch[b] EXCEPT !.completed = batch[b].completed \ {c}, !.ids = selected,
                              !.pc = IF batch[b].completed \ {c} = {} THEN "rescoring" ELSE "listing"])
          BY <4>1, ListedTyped
        <5> DEFINE new == [batch[b] EXCEPT !.completed = batch[b].completed \ {c}, !.ids = selected,
                              !.pc = IF batch[b].completed \ {c} = {} THEN "rescoring" ELSE "listing"]
        <5>2. new \in Batch /\ new.pc \in {"listing", "rescoring"}
          BY <1>1 DEF Batch, BatchPCs
        <5> HIDE DEF new
        <5>3. Moves(b, new)
          BY <5>1 DEF new
        <5>4. QED
          BY <5>2, <5>3
      <4>2. CASE RescoreListed(b) \/ RescoreListedFails(b)
        <5>1. PICK f \in batch[b].ids : Moves(b, [batch[b] EXCEPT !.ids = batch[b].ids \ {f}])
          BY <4>2 DEF RescoreListed, RescoreListedFails
        <5> DEFINE new == [batch[b] EXCEPT !.ids = batch[b].ids \ {f}]
        <5>2. new \in Batch /\ new.pc = "rescoring"
          BY <1>1, <4>2 DEF Batch, RescoreListed, RescoreListedFails
        <5> HIDE DEF new
        <5>3. Moves(b, new)
          BY <5>1 DEF new
        <5>4. QED
          BY <5>2, <5>3
      <4>3. QED
        BY <1>9, <4>1, <4>2
    <3>2. QED
      BY <3>1, MovesTyped
  <2>2. QED
    BY <1>9, <2>1, BatchLeavesJobs DEF ListFindings, RescoreListed, RescoreListedFails
<1>10. CASE EndOfBatch(b) \/ LoseBatch(b)
  <2>1. [NewBatch EXCEPT !.pc = "done"].pc = "done"
    BY DEF NewBatch
  <2>2. QED
    BY <1>4, <1>10, <2>1 DEF EndOfBatch, LoseBatch
<1>11. CASE NextCandidate(b)
  <2> PICK t \in batch[b].todo : Claim(b, t) \/ SweepExhausted(b, t)
    BY <1>11 DEF NextCandidate
  <2>1. t.id \in JobIds
    BY <1>1 DEF Batch
  <2>2. batch[b].pc = "picking"
    BY <1>11 DEF NextCandidate
  <2> DEFINE rest == [batch[b] EXCEPT !.todo = batch[b].todo \ {t}]
             claimed == [jobs[t.id] EXCEPT !.token = b, !.lease = batch[b].now + LeaseTime,
                           !.lastAttemptAt = batch[b].now, !.attempts = jobs[t.id].attempts + 1]
             calling == [batch[b] EXCEPT !.pc = "calling", !.job = t.id, !.todo = batch[b].todo \ {t}]
  <2>3. rest.pc = "picking" /\ rest \in Batch
    BY <1>1, <2>2 DEF Batch
  <2>4. CASE Moves(b, rest) /\ jobs' = jobs
    <3> HIDE DEF rest
    <3>1. QED
      BY <1>4, <2>3, <2>4
  <2>5. CASE Moves(b, rest) /\ jobs' = [jobs EXCEPT ![t.id] = Buried(t.id)]
    <3>1. Buried(t.id) \in Job
      BY <2>1, JobTyped
    <3>2. Buried(t.id).token = NoToken /\ Buried(t.id).status = "DEAD_LETTER"
      BY <1>1, <2>1 DEF Buried, Job
    <3> HIDE DEF rest
    <3>3. batch'[b].pc = "picking" /\ \A a \in Batches : a # b => batch'[a] = batch[a]
      BY <2>3, <2>5, MovesTyped
    <3>4. QED
      BY <2>1, <2>5, <3>1, <3>2, <3>3, BatchEndsClaim
  <2>6. CASE /\ Moves(b, calling) /\ jobs' = [jobs EXCEPT ![t.id] = claimed]
             /\ jobs[t.id].status = "PENDING"
    <3>1. jobs[t.id].attempts \in Nat
      BY <1>1, <2>1, Params DEF Job, ParamsAssumption
    <3>2. /\ claimed.status = "PENDING" /\ claimed.token = b /\ claimed.attempts > 0
          /\ claimed.lastAttemptAt = batch[b].now
      BY <1>1, <2>1, <2>6, <3>1 DEF Job
    <3>3. calling.job = t.id /\ calling.now = batch[b].now
      BY <1>1 DEF Batch
    <3>4. jobs'[t.id] = claimed /\ \A k \in JobIds : k # t.id => jobs'[k] = jobs[k]
      BY <1>1, <2>1, <2>6
    <3>5. batch'[b] = calling /\ \A a \in Batches : a # b => batch'[a] = batch[a]
      BY <1>3, <2>6
    <3> HIDE DEF claimed, calling
    <3>6. \A k \in JobIds : JobFit(k)'
      BY <3>2, <3>4 DEF JobsFit, JobFit
    <3>7. HolderFit(b)'
      BY <2>1, <3>2, <3>3, <3>4, <3>5 DEF HolderFit
    <3>8. ASSUME NEW a \in Batches, a # b
          PROVE  HolderFit(a)'
      <4>1. batch'[a] = batch[a]
        BY <3>5, <3>8
      <4>2. batch[a].job = t.id => ~Holds(a)'
        BY <3>2, <3>4, <3>8, <4>1 DEF Holds
      <4>3. QED
        BY <3>4, <4>1, <4>2 DEF JobsFit, HolderFit, Holds
    <3>9. QED
      BY <3>6, <3>7, <3>8 DEF JobsFit
  <2>7. QED
    BY <2>4, <2>5, <2>6 DEF Claim, SweepExhausted
<1>12. CASE CompleteJob(b) \/ CompletionError(b)
  <2> DEFINE j == batch[b].job
             new == [jobs[j] EXCEPT !.status = "COMPLETED", !.token = NoToken, !.lease = 0,
                        !.next = 0, !.queriedAt = batch[b].now, !.answer = batch[b].answer]
  <2>1. j \in JobIds /\ (Holds(b) => jobs[j].lastAttemptAt = batch[b].now)
    BY <1>12 DEF CompleteJob, CompletionError, JobsFit, HolderFit
  <2>2. batch[b].completed \in SUBSET CVEs /\ batch[b].answer \in Answers /\ jobs[j].cve \in CVEs
    BY <1>1, <2>1 DEF Batch, Job
  <2>3. batch'[b].pc = "picking" /\ \A a \in Batches : a # b => batch'[a] = batch[a]
    BY <1>12, <2>2, PicksTyped DEF CompleteJob, CompletionError
  <2>4. jobs' = jobs \/ (Holds(b) /\ jobs' = [jobs EXCEPT ![j] = new])
    BY <1>12 DEF CompleteJob, CompletionError, WithAnswer
  <2>5. new \in Job
    BY <2>1, <2>2, JobTyped
  <2>6. new.token = NoToken /\ (Holds(b) => new.queriedAt = new.lastAttemptAt)
    BY <1>1, <2>1 DEF Job
  <2> HIDE DEF new, j
  <2>7. QED
    BY <2>1, <2>3, <2>4, <2>5, <2>6, BatchEndsClaim, BatchLeavesJobs
<1>13. CASE AttemptFails(b) \/ Cancel(b)
  <2> DEFINE j == batch[b].job
  <2>1. batch[b].completed \in SUBSET CVEs
    BY <1>1 DEF Batch
  <2>2. /\ batch'[b].pc \in {"picking", "done", "listing"}
        /\ \A a \in Batches : a # b => batch'[a] = batch[a]
    BY <1>13, <2>1, PicksTyped, FinishesTyped DEF AttemptFails, Cancel
  <2>3. CASE jobs' = jobs
    BY <2>2, <2>3, BatchLeavesJobs
  <2>4. CASE jobs' # jobs
    <3>1. /\ j \in JobIds /\ Holds(b)
          /\ \/ jobs' = [jobs EXCEPT ![j] = Buried(j)]
             \/ jobs' = [jobs EXCEPT ![j] = Released(j, batch[b].now, jobs[j].attempts)]
             \/ jobs' = [jobs EXCEPT ![j] = Released(j, batch[b].now, jobs[j].attempts - 1)]
      BY <1>13, <2>4 DEF AttemptFails, Cancel, JobsFit, HolderFit
    <3>2. jobs[j].attempts \in Nat /\ jobs[j].attempts > 0
      BY <1>1, <1>2, <3>1, Params DEF Holds, JobsFit, JobFit, Job, ParamsAssumption
    <3> DEFINE n == jobs[j].attempts
    <3>3. n \in Nat /\ n - 1 \in Nat /\ n <= n /\ n - 1 <= n
      BY <3>2
    <3>4. /\ Buried(j) \in Job /\ Released(j, batch[b].now, n) \in Job
          /\ Released(j, batch[b].now, n - 1) \in Job
      BY <3>1, <3>3, JobTyped
    <3>5. jobs[j].status = "PENDING" /\ jobs[j] \in Job
      BY <1>1, <3>1 DEF Holds
    <3>6. /\ Buried(j).token = NoToken /\ Buried(j).status # "COMPLETED"
          /\ \A k : /\ Released(j, batch[b].now, k).token = NoToken
                    /\ Released(j, batch[b].now, k).status = "PENDING"
      BY <3>5 DEF Buried, Released, Job
    <3>7. PICK new \in Job : /\ new.token = NoToken /\ new.status # "COMPLETED"
                             /\ jobs' = [jobs EXCEPT ![j] = new]
      BY <3>1, <3>4, <3>6
    <3> HIDE DEF j
    <3>8. QED
      BY <2>2, <3>1, <3>7, BatchEndsClaim
  <2>5. QED
    BY <2>3, <2>4
<1>14. QED
  BY <1>5, <1>6, <1>7, <1>8, <1>9, <1>10, <1>11, <1>12, <1>13 DEF BatchStep

-----------------------------------------------------------------------------
(* Theorems.                                                               *)

LEMMA InitHolds ==
    ASSUME Init, Params
    PROVE  IInv
<1>1. ASSUME NEW f \in Findings
      PROVE  /\ score[f] \in [asOf : Nat \cup {Never}, input : [CVEs -> Readings]]
             /\ Named(f)
  <2>1. CASE Active(f) = {}
    <3>1. score[f] = NoScore
      BY <2>1 DEF Init
    <3>2. Scored(f) = {}
      BY <2>1, ScoredAreActive
    <3>3. QED
      BY <3>1, <3>2 DEF Named, NoScore, Readings
  <2>2. CASE Active(f) # {}
    <3> DEFINE input == [c \in CVEs |-> IF c \in Scored(f) THEN "unknown" ELSE "absent"]
    <3>1. \A c : Latest(c) = {}
      BY NewTyped DEF Init, Latest, Completed, NewJob
    <3>2. \A c : Evidence(c, 0) = "unknown"
      BY <3>1 DEF Evidence
    <3>3. RiskInput(f, 0) = input
      BY <3>2 DEF RiskInput
    <3>4. score[f] = [asOf |-> 0, input |-> input]
      BY <2>2, <3>3 DEF Init
    <3>5. input \in [CVEs -> Readings]
      BY DEF Readings
    <3>6. Scored(f) \subseteq CVEs
      BY ScoredAreActive
    <3>7. QED
      BY <3>4, <3>5, <3>6 DEF Named
  <2>3. QED
    BY <2>1, <2>2
<1>2. assoc \in [Findings -> [CVEs -> {"NONE", "ACTIVE", "REMOVED"}]]
  BY DEF Init
<1>3. score \in [Findings -> [asOf : Nat \cup {Never}, input : [CVEs -> Readings]]]
  <2>1. score = [f \in Findings |-> score[f]]
    BY DEF Init
  <2>2. QED
    BY <1>1, <2>1
<1>4. TypeOK
  BY <1>2, <1>3, NewTyped, Params DEF Init, TypeOK, Request, Batch, ParamsAssumption
<1>5. RequestsFit /\ JobsFit
  BY NewTyped DEF Init, RequestsFit, RequestFit, JobsFit, JobFit, HolderFit, NewRequest, NewBatch,
                  NewJob
<1>6. ScoresNamed
  BY <1>1 DEF ScoresNamed
<1>7. QED
  BY <1>4, <1>5, <1>6 DEF IInv

LEMMA StepHolds ==
    ASSUME IInv, Params, [Next]_vars
    PROVE  IInv'
<1> USE DEF IInv
<1>1. CASE \E r \in Requests : RequestStep(r)
  BY <1>1, RequestTypes, RequestsStayFit, RequestNames, RequestJobs
<1>2. ASSUME NEW b \in Batches, BatchStep(b)
      PROVE  IInv'
  <2>1. req' = req
    BY <1>2 DEF BatchStep, OpenBatch, ListCandidates, NextCandidate, EndOfCandidates, Answer,
                CompleteJob, CompletionError, AttemptFails, Cancel, ListFindings, RescoreListed,
                RescoreListedFails, EndOfBatch, LoseBatch
  <2>2. RequestsFit'
    BY <2>1 DEF RequestsFit, RequestFit
  <2>3. QED
    BY <1>2, <2>2, BatchTypes, BatchNames, BatchJobs
<1>3. CASE Tick \/ UNCHANGED vars
  <2>1. UNCHANGED <<assoc, jobs, score, req, batch, failures, excused>>
    BY <1>3 DEF Tick, vars
  <2>2. clock' \in 0..MaxTime
    BY <1>3, Params DEF Tick, vars, TypeOK, ParamsAssumption
  <2>3. TypeOK'
    BY <2>1, <2>2 DEF TypeOK
  <2>4. ScoresNamed'
    BY <2>1, NamesStay DEF Owed, ScoresNext
  <2>5. RequestsFit'
    BY <2>1 DEF RequestsFit, RequestFit
  <2>6. JobsFit'
    BY <2>1 DEF JobsFit, JobFit, HolderFit, Holds
  <2>7. QED
    BY <2>3, <2>4, <2>5, <2>6
<1>4. QED
  BY <1>1, <1>2, <1>3 DEF Next

LEMMA Invariance == Spec => []IInv
<1>1. Init => IInv
  BY Params, InitHolds
<1>2. IInv /\ [Next]_vars => IInv'
  BY Params, StepHolds
<1>3. QED
  BY <1>1, <1>2, PTL DEF Spec

\* Associations, jobs, scores, requests and batches keep to their columns: in particular no
\* attempt is refunded that was not spent, and none is spent beyond the bound.
THEOREM TypeCorrect == Spec => []TypeOK
<1>1. IInv => TypeOK
  BY DEF IInv
<1>2. QED
  BY <1>1, Invariance, PTL

\* A score names the first MaxCves of the CVEs that are attached to its finding, however many
\* there are, unless a rescore of it was lost or somebody is about to score it again.
THEOREM ScoresFollowAssociations == Spec => []ScoreNamesItsCves
<1>1. IInv => ScoreNamesItsCves
  BY DEF IInv, ScoresNamed, ScoreNamesItsCves, Named, Owed
<1>2. QED
  BY <1>1, Invariance, PTL

\* Only the batch whose claim is the last completes a job, with what it asked for, and only
\* a claim that stands is refunded.
THEOREM AnswersAreOfTheLastAttempt == Spec => []AnswerOfTheLastAttempt
<1>1. IInv => AnswerOfTheLastAttempt
  BY DEF IInv, JobsFit, JobFit, AnswerOfTheLastAttempt
<1>2. QED
  BY <1>1, Invariance, PTL


-----------------------------------------------------------------------------
(* Evidence reaches scores.                                                *)

\* Nobody acts as of an instant to come, and no answer was asked for then.
InstantsPassed ==
    /\ \A r \in Requests : req[r].asOf <= clock
    /\ \A b \in Batches : batch[b].now <= clock
    /\ \A j \in JobIds : jobs[j].queriedAt <= clock

\* What a batch has to rescore it keeps until it does: it lists findings for every CVE it
\* completed before it rescores the first, and ends with nothing left.
HookFit(row) ==
    /\ row.ids # {} => row.pc \in {"listing", "rescoring"}
    /\ row.completed # {} => row.pc \in {"picking", "calling", "answered", "listing"}
    /\ row.pc = "listing" => row.completed # {}

HooksFit == \A b \in Batches : HookFit(batch[b])

\* Who cannot be lost without an excuse: a request that changed an association, the job, or
\* the hook of the batch that completed it.  A mere rescore can, and is not among them.
Owes(r, f, c, j) ==
    /\ req[r].kind \in {"ATTACH", "REMOVE"} /\ ScoresNext(r, f)
    /\ \/ req[r].pc = "rescoring" /\ req[r].asOf >= jobs[j].queriedAt
       \/ req[r].pc # "rescoring" /\ req[r].cve = c

RequestDebt(f, c, j) == \E r \in Requests : Owes(r, f, c, j)

HookDebt(f, c) == \E b \in Batches : c \in batch[b].completed \/ f \in batch[b].ids

Debt(f, c, j) == RequestDebt(f, c, j) \/ ActiveJobs(c) # {} \/ HookDebt(f, c)

Reached(f, c, j) ==
    \/ ~FreshAt(j, clock)
    \/ score[f].input[c] = Evidence(c, clock)
    \/ f \in excused
    \/ Debt(f, c, j)

EvidenceReached == \A f \in Findings : \A c \in Scored(f) : \A j \in Latest(c) : Reached(f, c, j)

EvidenceInv == InstantsPassed /\ HooksFit /\ EvidenceReached

\* The latest answer of a CVE is one answer, and what a score reads of the CVE is that
\* answer or nothing.
LatestIsRead ==
    \A c \in CVEs : \A j \in Latest(c) :
        /\ j \in JobIds /\ Latest(c) = {j}
        /\ \A asOf : Evidence(c, asOf) = IF FreshAt(j, asOf) /\ jobs[j].answer # Failed
                                         THEN jobs[j].answer ELSE "unknown"

LEMMA EvidenceOfLatest == TypeOK => LatestIsRead
<1> SUFFICES ASSUME TypeOK, NEW c \in CVEs, NEW j \in Latest(c)
             PROVE  /\ j \in JobIds /\ Latest(c) = {j}
                    /\ \A asOf : Evidence(c, asOf) = IF FreshAt(j, asOf) /\ jobs[j].answer # Failed
                                                     THEN jobs[j].answer ELSE "unknown"
  BY DEF LatestIsRead
<1>1. j \in JobIds
  BY DEF Latest, Completed
<1>2. \A k \in JobIds : k \in Nat /\ jobs[k].queriedAt \in Int
  BY DEF JobIds, TypeOK, Job, Never
<1>3. ASSUME NEW k \in Latest(c)
      PROVE  k = j
  <2>1. k \in Completed(c) /\ j \in Completed(c) /\ k \in JobIds
    BY DEF Latest, Completed
  <2>2. /\ jobs[k].queriedAt < jobs[j].queriedAt
           \/ (jobs[k].queriedAt = jobs[j].queriedAt /\ k <= j)
        /\ jobs[j].queriedAt < jobs[k].queriedAt
           \/ (jobs[j].queriedAt = jobs[k].queriedAt /\ j <= k)
    BY <2>1 DEF Latest
  <2>3. QED
    BY <1>1, <1>2, <2>1, <2>2
<1>4. Latest(c) = {j}
  BY <1>3
<1>5. ASSUME NEW asOf
      PROVE  Evidence(c, asOf) = IF FreshAt(j, asOf) /\ jobs[j].answer # Failed
                                 THEN jobs[j].answer ELSE "unknown"
  <2> DEFINE usable == {i \in Latest(c) : FreshAt(i, asOf) /\ jobs[i].answer # Failed}
  <2>1. usable = IF FreshAt(j, asOf) /\ jobs[j].answer # Failed THEN {j} ELSE {}
    BY <1>4
  <2>2. Evidence(c, asOf) = IF usable = {} THEN "unknown" ELSE jobs[CHOOSE i \in usable : TRUE].answer
    BY DEF Evidence
  <2> HIDE DEF usable
  <2>3. usable = {j} => (CHOOSE i \in usable : TRUE) = j
    OBVIOUS
  <2>4. QED
    BY <2>1, <2>2, <2>3
<1>6. QED
  BY <1>1, <1>4, <1>5

LEMMA EvidenceOfLatestNext == TypeOK' => LatestIsRead'
  BY EvidenceOfLatest, PTL

\* No answer about c is added, and those there are stay.
AnswersStand(c) ==
    \A k \in JobIds : jobs'[k] = jobs[k] \/ (k \notin Completed(c) /\ k \notin Completed(c)')

LEMMA LatestStands ==
    ASSUME NEW c, AnswersStand(c)
    PROVE  /\ Latest(c)' = Latest(c)
           /\ \A j \in Latest(c) : jobs'[j] = jobs[j]
<1>1. Completed(c)' = Completed(c) /\ \A j \in Completed(c) : jobs'[j] = jobs[j]
  BY DEF AnswersStand, Completed
<1>2. Latest(c)' = Latest(c)
  BY <1>1 DEF Latest
<1>3. QED
  BY <1>1, <1>2 DEF Latest

\* A step that adds no answer about c and writes no score keeps evidence where it is, provided that
\* whoever stops owing it has excused the finding.
LEMMA ReachStands ==
    ASSUME TypeOK, TypeOK', InstantsPassed, clock' >= clock,
           NEW f \in Findings, NEW c \in CVEs, AnswersStand(c), NEW j \in Latest(c),
           score'[f] = score[f], f \in excused => f \in excused',
           Debt(f, c, j) => Debt(f, c, j)' \/ f \in excused',
           Reached(f, c, j)
    PROVE  Reached(f, c, j)'
<1>1. j \in JobIds /\ jobs'[j] = jobs[j] /\ j \in Latest(c)'
  BY EvidenceOfLatest, LatestStands DEF LatestIsRead
<1> PICK now, then : now = clock /\ then = clock'
  OBVIOUS
<1>2. now \in Nat /\ then \in Nat /\ now <= then /\ jobs[j].queriedAt <= now
  BY <1>1 DEF TypeOK, InstantsPassed
<1>3. Evidence(c, now) = IF FreshAt(j, now) /\ jobs[j].answer # Failed
                         THEN jobs[j].answer ELSE "unknown"
  BY EvidenceOfLatest DEF LatestIsRead
<1>4. Evidence(c, then)' = IF FreshAt(j, then)' /\ jobs'[j].answer # Failed
                           THEN jobs'[j].answer ELSE "unknown"
  BY <1>1, EvidenceOfLatestNext DEF LatestIsRead
<1>5. FreshAt(j, then)' <=> FreshAt(j, then)
  BY <1>1 DEF FreshAt
<1>6. jobs[j].queriedAt \in Int /\ Ttl[jobs[j].answer] \in Nat
  BY <1>1, Params DEF TypeOK, Job, Never, ParamsAssumption
<1>7. FreshAt(j, then) => FreshAt(j, now)
  BY <1>2, <1>6 DEF FreshAt
<1>8. FreshAt(j, then) => Evidence(c, then)' = Evidence(c, now)
  BY <1>1, <1>3, <1>4, <1>5, <1>7
<1>9. Evidence(c, clock)' = Evidence(c, then)' /\ (FreshAt(j, clock)' <=> FreshAt(j, then)')
  BY DEF Evidence, FreshAt
<1>10. QED
  BY <1>5, <1>7, <1>8, <1>9 DEF Reached

\* A rescore reads every answer that its instant is not too early for; where it is, the
\* finding is excused, unless the score did not know the answer and still does not.
LEMMA RescoreReads ==
    ASSUME TypeOK, Params, InstantsPassed, NEW f \in Findings, NEW asOf \in Nat, asOf <= clock,
           NEW early \in BOOLEAN, Rescore(f, asOf, early),
           NEW c \in Scored(f), NEW j \in Latest(c)
    PROVE  /\ asOf >= jobs[j].queriedAt /\ FreshAt(j, clock)
                => score'[f].input[c] = Evidence(c, clock)
           /\ asOf < jobs[j].queriedAt =>
                /\ f \in excused => f \in excused'
                /\ early => f \in excused'
                /\ score[f].input[c] = Evidence(c, clock)
                     => f \in excused' \/ score'[f].input[c] = Evidence(c, clock)
<1> DEFINE input == RiskInput(f, asOf)
<1>1. c \in CVEs
  BY ScoredAreActive
<1>2. score'[f].input = input
  <2>1. input \in [CVEs -> Readings]
    BY InputNamesScored
  <2> HIDE DEF input
  <2>2. CASE score' = score /\ score[f].input = input
    BY <2>2
  <2>3. CASE score' = [score EXCEPT ![f] = [asOf |-> asOf, input |-> input]]
    BY <2>3 DEF TypeOK
  <2>4. QED
    BY <2>2, <2>3 DEF Rescore, input
<1>3. input[c] = Evidence(c, asOf)
  BY <1>1 DEF RiskInput
<1>4. /\ j \in JobIds
      /\ \A a : Evidence(c, a) = IF FreshAt(j, a) /\ jobs[j].answer # Failed
                                 THEN jobs[j].answer ELSE "unknown"
  BY <1>1, EvidenceOfLatest DEF LatestIsRead
<1>5. jobs[j].queriedAt \in Int /\ clock \in Nat
  BY <1>4 DEF TypeOK, Job, Never
<1>6. Ttl[jobs[j].answer] \in Nat
  BY <1>4, Params DEF TypeOK, Job, ParamsAssumption
<1> HIDE DEF input
<1>7. ASSUME asOf >= jobs[j].queriedAt, FreshAt(j, clock)
      PROVE  score'[f].input[c] = Evidence(c, clock)
  <2>1. FreshAt(j, asOf)
    BY <1>5, <1>6, <1>7 DEF FreshAt
  <2>2. QED
    BY <1>2, <1>3, <1>4, <1>7, <2>1
<1>8. ASSUME asOf < jobs[j].queriedAt
      PROVE  /\ f \in excused => f \in excused'
             /\ early => f \in excused'
             /\ score[f].input[c] = Evidence(c, clock)
                  => f \in excused' \/ score'[f].input[c] = Evidence(c, clock)
  <2>1. Behind(f, asOf)
    BY <1>8 DEF Behind, TooEarly
  <2>2. excused' = IF early \/ Forgets(f, asOf) THEN excused \cup {f} ELSE excused
    BY <2>1 DEF Rescore
  <2>3. ~FreshAt(j, asOf)
    BY <1>5, <1>8 DEF FreshAt
  <2>4. Evidence(c, asOf) = "unknown"
    BY <1>4, <2>3
  <2>5. ASSUME score[f].input[c] = Evidence(c, clock), Evidence(c, clock) # "unknown"
        PROVE  Forgets(f, asOf)
    BY <2>4, <2>5 DEF Forgets
  <2>6. Evidence(c, clock) = "unknown" => score'[f].input[c] = Evidence(c, clock)
    BY <1>2, <1>3, <2>4
  <2>7. QED
    BY <2>2, <2>5, <2>6
<1>9. QED
  BY <1>7, <1>8

\* What a batch no longer owes for c, because it did c itself or gave it up with an excuse.
Settled(c, row) == c \in row.completed \/ Holders(c) \subseteq excused'

\* A step of a batch that writes no score.
LEMMA BatchReaches ==
    ASSUME TypeOK, TypeOK', Params, EvidenceInv, NEW b \in Batches, NEW row \in Batch,
           Moves(b, row), HookFit(row), row.now <= clock,
           UNCHANGED <<clock, assoc, score, req>>, excused \subseteq excused',
           \A k \in JobIds : jobs'[k].queriedAt <= clock,
           \A c \in CVEs : AnswersStand(c) \/ Settled(c, row),
           \A c \in CVEs : ActiveJobs(c) # {} => ActiveJobs(c)' # {} \/ Settled(c, row),
           \A c \in batch[b].completed :
               Settled(c, row) \/ Holders(c) \subseteq row.ids \cup excused',
           batch[b].ids \subseteq row.ids \cup excused'
    PROVE  EvidenceInv'
<1>1. batch'[b] = row /\ \A a \in Batches : a # b => batch'[a] = batch[a]
  BY DEF Moves, TypeOK
<1>2. InstantsPassed'
  BY <1>1 DEF EvidenceInv, InstantsPassed
<1>3. HooksFit'
  BY <1>1 DEF EvidenceInv, HooksFit
<1>4. ASSUME NEW f \in Findings, NEW c \in Scored(f)', NEW j \in Latest(c)'
      PROVE  Reached(f, c, j)'
  <2>1. c \in CVEs /\ c \in Scored(f) /\ f \in Holders(c)
    <3>1. c \in Scored(f)
      BY AssociationsAlone
    <3>2. QED
      BY <3>1, ScoredAreActive DEF Active, Holders
  <2>2. ASSUME Settled(c, row)
        PROVE  Reached(f, c, j)'
    BY <1>1, <2>1, <2>2 DEF Settled, Reached, Debt, HookDebt
  <2>3. ASSUME AnswersStand(c)
        PROVE  Reached(f, c, j)'
    <3>1. j \in Latest(c)
      BY <2>3, LatestStands
    <3>2. Reached(f, c, j)
      BY <2>1, <3>1 DEF EvidenceInv, EvidenceReached
    <3>3. RequestDebt(f, c, j) => RequestDebt(f, c, j)'
      <4>1. jobs'[j] = jobs[j]
        BY <2>3, <3>1, LatestStands
      <4>2. QED
        BY <4>1 DEF RequestDebt, Owes, ScoresNext
    <3>4. HookDebt(f, c) => HookDebt(f, c)' \/ f \in excused' \/ Settled(c, row)
      BY <1>1, <2>1 DEF HookDebt
    <3>5. Debt(f, c, j) => Debt(f, c, j)' \/ f \in excused' \/ Settled(c, row)
      BY <2>1, <3>3, <3>4 DEF Debt
    <3>6. clock' >= clock /\ InstantsPassed
      BY DEF TypeOK, EvidenceInv
    <3>7. QED
      BY <2>1, <2>2, <2>3, <3>1, <3>2, <3>5, <3>6, ReachStands
  <2>4. QED
    BY <2>1, <2>2, <2>3
<1>5. EvidenceReached'
  BY <1>4 DEF EvidenceReached
<1>6. QED
  BY <1>2, <1>3, <1>5 DEF EvidenceInv

LEMMA RowsFit ==
    ASSUME TypeOK, EvidenceInv, NEW b \in Batches
    PROVE  /\ batch[b] \in Batch /\ HookFit(batch[b]) /\ batch[b].now <= clock
           /\ \A k \in JobIds : jobs[k].queriedAt <= clock
           /\ \A row \in Batch : Moves(b, row) =>
                batch'[b] = row /\ \A a \in Batches : a # b => batch'[a] = batch[a]
  BY DEF TypeOK, Batch, EvidenceInv, HooksFit, InstantsPassed, Moves

\* A step that leaves the jobs alone.
LEMMA JobsAlone ==
    ASSUME jobs' = jobs, NEW c
    PROVE  AnswersStand(c) /\ ActiveJobs(c)' = ActiveJobs(c)
  BY DEF AnswersStand, ActiveJobs

LEMMA BatchWithoutJobs ==
    ASSUME TypeOK, TypeOK', Params, EvidenceInv, NEW b \in Batches, NEW row \in Batch,
           Moves(b, row), HookFit(row), row.now <= clock,
           UNCHANGED <<clock, assoc, jobs, score, req>>, excused \subseteq excused',
           \A c \in batch[b].completed :
               Settled(c, row) \/ Holders(c) \subseteq row.ids \cup excused',
           batch[b].ids \subseteq row.ids \cup excused'
    PROVE  EvidenceInv'
<1>1. \A c \in CVEs : AnswersStand(c) /\ ActiveJobs(c)' = ActiveJobs(c)
  BY JobsAlone
<1>2. \A k \in JobIds : jobs'[k].queriedAt <= clock
  BY RowsFit
<1>3. QED
  BY <1>1, <1>2, BatchReaches

LEMMA OpeningReaches ==
    ASSUME TypeOK, TypeOK', Params, EvidenceInv, NEW b \in Batches,
           OpenBatch(b) \/ ListCandidates(b) \/ Answer(b)
    PROVE  EvidenceInv'
<1>1. batch[b] \in Batch /\ HookFit(batch[b]) /\ batch[b].now <= clock /\ clock \in Nat
  BY RowsFit DEF TypeOK
<1>2. PICK row : /\ Moves(b, row) /\ row \in Batch
                 /\ row.pc \in {"opening", "picking", "answered"}
                 /\ row.ids = batch[b].ids /\ row.completed = batch[b].completed
                 /\ row.now \in {batch[b].now, clock}
                 /\ batch[b].pc \in {"idle", "opening", "calling"}
                 /\ batch[b].completed # {} => row.pc = "answered"
  <2>1. CASE OpenBatch(b)
    <3> DEFINE row == [batch[b] EXCEPT !.pc = "opening", !.now = clock]
    <3>1. /\ row.pc = "opening" /\ row.now = clock
          /\ row.ids = batch[b].ids /\ row.completed = batch[b].completed /\ row \in Batch
      BY <1>1 DEF Batch, BatchPCs
    <3>2. Moves(b, row) /\ batch[b].pc = "idle"
      BY <2>1 DEF OpenBatch
    <3>3. batch[b].completed = {}
      BY <1>1, <3>2 DEF HookFit
    <3> HIDE DEF row
    <3>4. QED
      BY <3>1, <3>2, <3>3
  <2>2. CASE ListCandidates(b)
    <3> DEFINE listed == Candidates(batch[b].now)
               page == {j \in listed : Cardinality({k \in listed : Before(k, j)}) < BatchSize}
               todo == {[id |-> j, attempts |-> jobs[j].attempts] : j \in page}
    <3>1. /\ Moves(b, [batch[b] EXCEPT !.pc = "picking", !.todo = todo])
          /\ todo \in SUBSET [id : JobIds, attempts : 0..MaxAttempts]
          /\ batch[b].pc = "opening"
      <4>1. \A j \in page : j \in JobIds /\ jobs[j].attempts \in 0..MaxAttempts
        BY DEF Candidates, TypeOK, Job
      <4>2. Moves(b, [batch[b] EXCEPT !.pc = "picking", !.todo = todo]) /\ batch[b].pc = "opening"
        BY <2>2 DEF ListCandidates
      <4> HIDE DEF page
      <4>3. todo \subseteq [id : JobIds, attempts : 0..MaxAttempts]
        BY <4>1
      <4>4. QED
        BY <4>2, <4>3
    <3> HIDE DEF todo, page
    <3> DEFINE row == [batch[b] EXCEPT !.pc = "picking", !.todo = todo]
    <3>2. /\ row.pc = "picking" /\ row.now = batch[b].now
          /\ row.ids = batch[b].ids /\ row.completed = batch[b].completed /\ row \in Batch
      BY <1>1, <3>1 DEF Batch, BatchPCs
    <3>3. batch[b].completed = {}
      BY <1>1, <3>1 DEF HookFit
    <3> HIDE DEF row
    <3>4. Moves(b, row)
      BY <3>1 DEF row
    <3>5. QED
      BY <3>1, <3>2, <3>3, <3>4
  <2>3. CASE Answer(b)
    <3>1. PICK answer \in Answers : Moves(b, [batch[b] EXCEPT !.pc = "answered", !.answer = answer])
      BY <2>3 DEF Answer
    <3> DEFINE row == [batch[b] EXCEPT !.pc = "answered", !.answer = answer]
    <3>2. /\ row.pc = "answered" /\ row.now = batch[b].now
          /\ row.ids = batch[b].ids /\ row.completed = batch[b].completed /\ row \in Batch
      BY <1>1 DEF Batch, BatchPCs
    <3>3. batch[b].pc = "calling"
      BY <2>3 DEF Answer
    <3> HIDE DEF row
    <3>4. Moves(b, row)
      BY <3>1 DEF row
    <3>5. QED
      BY <3>2, <3>3, <3>4
  <2>4. QED
    BY <2>1, <2>2, <2>3
<1>3. HookFit(row)
  BY <1>1, <1>2 DEF HookFit
<1>4. row.now <= clock
  BY <1>1, <1>2
<1>5. UNCHANGED <<clock, assoc, jobs, score, req>> /\ excused' = excused
  BY DEF OpenBatch, ListCandidates, Answer
<1>6. /\ \A c \in batch[b].completed : Settled(c, row)
      /\ batch[b].ids \subseteq row.ids
  BY <1>2 DEF Settled
<1>7. QED
  BY <1>2, <1>3, <1>4, <1>5, <1>6, BatchWithoutJobs

\* The end of the candidates and of the rescoring, and a death.
LEMMA FinishingReaches ==
    ASSUME TypeOK, TypeOK', Params, EvidenceInv, NEW b \in Batches,
           EndOfCandidates(b) \/ EndOfBatch(b) \/ LoseBatch(b)
    PROVE  EvidenceInv'
<1>1. batch[b] \in Batch /\ HookFit(batch[b]) /\ batch[b].now <= clock /\ clock \in Nat
  BY RowsFit DEF TypeOK
<1>2. NewBatch \in Batch
  BY NewTyped
<1>3. CASE EndOfCandidates(b)
  <2> DEFINE row == [NewBatch EXCEPT !.pc = IF batch[b].completed = {} THEN "done" ELSE "listing",
                                     !.now = batch[b].now, !.completed = batch[b].completed]
  <2>1. /\ row \in Batch /\ row.completed = batch[b].completed /\ row.ids = {}
        /\ row.now = batch[b].now
        /\ row.pc = IF batch[b].completed = {} THEN "done" ELSE "listing"
    BY <1>1, <1>2 DEF Batch, BatchPCs, NewBatch
  <2>2. Moves(b, row) /\ batch[b].pc = "picking"
    BY <1>3 DEF EndOfCandidates, Finishes
  <2> HIDE DEF row
  <2>3. HookFit(row) /\ batch[b].ids = {}
    BY <1>1, <2>1, <2>2 DEF HookFit
  <2>4. \A c \in batch[b].completed : Settled(c, row)
    BY <2>1 DEF Settled
  <2>5. UNCHANGED <<clock, assoc, jobs, score, req>> /\ excused' = excused
    BY <1>3 DEF EndOfCandidates
  <2>6. QED
    BY <1>1, <2>1, <2>2, <2>3, <2>4, <2>5, BatchWithoutJobs
<1>4. CASE EndOfBatch(b) \/ LoseBatch(b)
  <2> DEFINE row == [NewBatch EXCEPT !.pc = "done"]
  <2>1. row \in Batch /\ row.pc = "done" /\ row.now = 0 /\ row.ids = {} /\ row.completed = {}
    BY <1>2 DEF Batch, BatchPCs, NewBatch
  <2>2. Moves(b, row)
    BY <1>4 DEF EndOfBatch, LoseBatch
  <2> HIDE DEF row
  <2>3. HookFit(row) /\ row.now <= clock
    BY <1>1, <2>1 DEF HookFit
  <2>4. UNCHANGED <<clock, assoc, jobs, score, req>> /\ excused \subseteq excused'
    BY <1>4 DEF EndOfBatch, LoseBatch
  <2>5. /\ \A c \in batch[b].completed : Holders(c) \subseteq excused'
        /\ batch[b].ids \subseteq excused'
    BY <1>1, <1>4 DEF EndOfBatch, LoseBatch, HookFit
  <2>6. QED
    BY <2>1, <2>2, <2>3, <2>4, <2>5, BatchWithoutJobs
<1>5. QED
  BY <1>3, <1>4

\* The hook lists the findings of one CVE; those past one of its limits are excused.
LEMMA ListingReaches ==
    ASSUME TypeOK, TypeOK', Params, EvidenceInv, NEW b \in Batches, ListFindings(b)
    PROVE  EvidenceInv'
<1>1. batch[b] \in Batch /\ HookFit(batch[b]) /\ batch[b].now <= clock /\ clock \in Nat
  BY RowsFit DEF TypeOK
<1>2. PICK c \in batch[b].completed, selected \in SUBSET Findings :
         /\ Moves(b, [batch[b] EXCEPT !.completed = batch[b].completed \ {c}, !.ids = selected,
                        !.pc = IF batch[b].completed \ {c} = {} THEN "rescoring" ELSE "listing"])
         /\ excused' = excused \cup ((batch[b].ids \cup Holders(c)) \ selected)
  BY ListedTyped
<1> DEFINE row == [batch[b] EXCEPT !.completed = batch[b].completed \ {c}, !.ids = selected,
                     !.pc = IF batch[b].completed \ {c} = {} THEN "rescoring" ELSE "listing"]
<1>3. /\ row \in Batch /\ row.completed = batch[b].completed \ {c}
      /\ row.ids = selected /\ row.now = batch[b].now
      /\ row.pc = IF batch[b].completed \ {c} = {} THEN "rescoring" ELSE "listing"
  BY <1>1, <1>2 DEF Batch, BatchPCs
<1> HIDE DEF row
<1>4. Moves(b, row) /\ excused \subseteq excused'
  BY <1>2 DEF row
<1>5. HookFit(row)
  BY <1>3 DEF HookFit
<1>6. /\ \A d \in batch[b].completed : Settled(d, row) \/ Holders(d) \subseteq row.ids \cup excused'
      /\ batch[b].ids \subseteq row.ids \cup excused'
  BY <1>2, <1>3 DEF Settled
<1>7. UNCHANGED <<clock, assoc, jobs, score, req>>
  BY DEF ListFindings
<1>8. QED
  BY <1>1, <1>3, <1>4, <1>5, <1>6, <1>7, BatchWithoutJobs

\* A rescore that fails is excused.
LEMMA FailedRescoreReaches ==
    ASSUME TypeOK, TypeOK', Params, EvidenceInv, NEW b \in Batches, RescoreListedFails(b)
    PROVE  EvidenceInv'
<1>1. batch[b] \in Batch /\ HookFit(batch[b]) /\ batch[b].now <= clock /\ batch[b].pc = "rescoring"
  BY RowsFit DEF RescoreListedFails
<1>2. PICK f \in batch[b].ids : /\ Moves(b, [batch[b] EXCEPT !.ids = batch[b].ids \ {f}])
                                /\ excused' = excused \cup {f}
  BY DEF RescoreListedFails
<1> DEFINE row == [batch[b] EXCEPT !.ids = batch[b].ids \ {f}]
<1>3. /\ row \in Batch /\ row.completed = batch[b].completed /\ row.pc = "rescoring"
      /\ row.ids = batch[b].ids \ {f} /\ row.now = batch[b].now
  BY <1>1, <1>2 DEF Batch
<1> HIDE DEF row
<1>4. Moves(b, row) /\ excused \subseteq excused'
  BY <1>2 DEF row
<1>5. HookFit(row)
  BY <1>1, <1>3 DEF HookFit
<1>6. /\ \A d \in batch[b].completed : Settled(d, row)
      /\ batch[b].ids \subseteq row.ids \cup excused'
  BY <1>2, <1>3 DEF Settled
<1>7. UNCHANGED <<clock, assoc, jobs, score, req>>
  BY DEF RescoreListedFails
<1>8. QED
  BY <1>1, <1>3, <1>4, <1>5, <1>6, <1>7, BatchWithoutJobs

\* A step of a batch that changes a pending job, if any.
LEMMA JobChangeReaches ==
    ASSUME TypeOK, TypeOK', Params, EvidenceInv, NEW b \in Batches, NEW row \in Batch,
           Moves(b, row), HookFit(row), row.now <= clock,
           batch[b].pc \in {"picking", "calling", "answered"},
           NEW j \in JobIds, NEW new \in Job, new.cve = jobs[j].cve, new.queriedAt <= clock,
           jobs' = jobs \/ (jobs[j].status = "PENDING" /\ jobs' = [jobs EXCEPT ![j] = new]),
           jobs' = jobs \/ new.status = "PENDING" \/ Settled(jobs[j].cve, row),
           UNCHANGED <<clock, assoc, score, req>>, excused \subseteq excused',
           batch[b].completed \subseteq row.completed
    PROVE  EvidenceInv'
<1>1. CASE jobs' = jobs
  BY <1>1, RowsFit, BatchWithoutJobs DEF Settled, HookFit
<1>2. CASE jobs[j].status = "PENDING" /\ jobs' = [jobs EXCEPT ![j] = new] /\ jobs' # jobs
  <2>1. jobs'[j] = new /\ \A k \in JobIds : k # j => jobs'[k] = jobs[k]
    BY <1>2 DEF TypeOK
  <2>2. \A c \in CVEs : c # jobs[j].cve \/ new.status = "PENDING" => AnswersStand(c)
    BY <1>2, <2>1 DEF AnswersStand, Completed
  <2>3. \A c \in CVEs : c # jobs[j].cve \/ new.status = "PENDING"
                          => (ActiveJobs(c) # {} => ActiveJobs(c)' # {})
    <3>1. \A c \in CVEs : c # jobs[j].cve \/ new.status = "PENDING"
                            => \A k \in ActiveJobs(c) : k \in ActiveJobs(c)'
      BY <1>2, <2>1 DEF ActiveJobs
    <3>2. QED
      BY <3>1
  <2>4. new.status = "PENDING" \/ Settled(jobs[j].cve, row)
    BY <1>2
  <2>5. \A k \in JobIds : jobs'[k].queriedAt <= clock
    BY <2>1, RowsFit
  <2>6. batch[b].ids = {} /\ \A c \in batch[b].completed : Settled(c, row)
    BY RowsFit DEF HookFit, Settled
  <2>7. QED
    BY <2>2, <2>3, <2>4, <2>5, <2>6, BatchReaches
<1>3. QED
  BY <1>1, <1>2

\* The rows a batch goes on with after a job.
LEMMA PicksFits ==
    ASSUME TypeOK, EvidenceInv, NEW b \in Batches, NEW done \in SUBSET CVEs, Picks(b, done),
           batch[b].pc \in {"picking", "calling", "answered"}
    PROVE  \E row \in Batch : /\ Moves(b, row) /\ HookFit(row) /\ row.now <= clock
                              /\ row.completed = done
<1> DEFINE row == [batch[b] EXCEPT !.pc = "picking", !.job = 0, !.answer = Failed,
                                   !.completed = done]
<1>1. batch[b] \in Batch /\ HookFit(batch[b]) /\ batch[b].now <= clock
  BY RowsFit
<1>2. /\ row \in Batch /\ row.pc = "picking" /\ row.ids = batch[b].ids
      /\ row.now = batch[b].now /\ row.completed = done
  BY <1>1 DEF Batch, BatchPCs, Answers
<1>3. Moves(b, row)
  BY DEF Picks
<1> HIDE DEF row
<1>4. HookFit(row) /\ row.now <= clock
  BY <1>1, <1>2 DEF HookFit
<1>5. QED
  BY <1>2, <1>3, <1>4

LEMMA FinishesFits ==
    ASSUME TypeOK, Params, EvidenceInv, NEW b \in Batches, Finishes(b, batch[b].completed)
    PROVE  \E row \in Batch : /\ Moves(b, row) /\ HookFit(row) /\ row.now <= clock
                              /\ row.completed = batch[b].completed
<1> DEFINE row == [NewBatch EXCEPT !.pc = IF batch[b].completed = {} THEN "done" ELSE "listing",
                                   !.now = batch[b].now, !.completed = batch[b].completed]
<1>1. batch[b] \in Batch /\ batch[b].now <= clock
  BY RowsFit
<1>2. /\ row \in Batch /\ row.completed = batch[b].completed /\ row.ids = {}
      /\ row.now = batch[b].now
      /\ row.pc = IF batch[b].completed = {} THEN "done" ELSE "listing"
  BY <1>1, NewTyped DEF Batch, BatchPCs, NewBatch
<1>3. Moves(b, row)
  BY DEF Finishes
<1> HIDE DEF row
<1>4. HookFit(row) /\ row.now <= clock
  BY <1>1, <1>2 DEF HookFit
<1>5. QED
  BY <1>2, <1>3, <1>4

\* A job that is buried is given up by everyone who holds its CVE.
LEMMA GivingUpSettles ==
    ASSUME NEW j \in JobIds, NEW row, GivenUp(j), jobs[j].status = "PENDING"
    PROVE  /\ excused \subseteq excused'
           /\ jobs'[j].status = "DEAD_LETTER" => Settled(jobs[j].cve, row)
  BY DEF GivenUp, Settled

LEMMA PickingReaches ==
    ASSUME TypeOK, TypeOK', Params, EvidenceInv, NEW b \in Batches, NextCandidate(b)
    PROVE  EvidenceInv'
<1>1. /\ batch[b] \in Batch /\ HookFit(batch[b]) /\ batch[b].now <= clock
      /\ \A k \in JobIds : jobs[k] \in Job /\ jobs[k].queriedAt <= clock
  BY RowsFit DEF TypeOK
<1>2. PICK t \in batch[b].todo : (Claim(b, t) \/ SweepExhausted(b, t)) /\ GivenUp(t.id)
  BY DEF NextCandidate
<1>3. t.id \in JobIds
  BY <1>1, <1>2 DEF Batch
<1>4. batch[b].pc = "picking" /\ UNCHANGED <<clock, assoc, score, req>>
  BY DEF NextCandidate
<1> DEFINE rest == [batch[b] EXCEPT !.todo = batch[b].todo \ {t}]
           claimed == [jobs[t.id] EXCEPT !.token = b, !.lease = batch[b].now + LeaseTime,
                         !.lastAttemptAt = batch[b].now, !.attempts = jobs[t.id].attempts + 1]
           calling == [batch[b] EXCEPT !.pc = "calling", !.job = t.id, !.todo = batch[b].todo \ {t}]
<1>5. /\ rest \in Batch /\ rest.pc = "picking" /\ rest.ids = batch[b].ids
      /\ rest.completed = batch[b].completed /\ rest.now = batch[b].now
  BY <1>1, <1>4 DEF Batch, BatchPCs
<1>6. /\ calling \in Batch /\ calling.pc = "calling" /\ calling.ids = batch[b].ids
      /\ calling.completed = batch[b].completed /\ calling.now = batch[b].now
  BY <1>1, <1>3 DEF Batch, BatchPCs
<1>7. excused \subseteq excused'
  BY <1>2 DEF GivenUp
<1>8. \/ Moves(b, rest) /\ jobs' = jobs
      \/ Moves(b, rest) /\ jobs[t.id].status = "PENDING" /\ jobs' = [jobs EXCEPT ![t.id] = Buried(t.id)]
      \/ /\ Moves(b, calling) /\ jobs[t.id].status = "PENDING"
         /\ jobs[t.id].attempts < MaxAttempts /\ jobs' = [jobs EXCEPT ![t.id] = claimed]
  BY <1>2 DEF Claim, SweepExhausted
<1>9. /\ Buried(t.id) \in Job /\ Buried(t.id).cve = jobs[t.id].cve
      /\ Buried(t.id).status = "DEAD_LETTER" /\ Buried(t.id).queriedAt <= clock
  <2>1. Buried(t.id) \in Job
    BY <1>3, JobTyped
  <2>2. QED
    BY <1>1, <1>3, <2>1 DEF Buried, Job
<1>10. ASSUME jobs[t.id].attempts < MaxAttempts
       PROVE  /\ claimed \in Job /\ claimed.cve = jobs[t.id].cve
              /\ claimed.status = jobs[t.id].status /\ claimed.queriedAt <= clock
  <2>1. claimed \in Job
    BY <1>3, <1>10, JobTyped
  <2>2. QED
    BY <1>1, <1>3, <2>1 DEF Job
<1> HIDE DEF rest, claimed, calling
<1>11. HookFit(rest) /\ HookFit(calling)
  BY <1>1, <1>4, <1>5, <1>6 DEF HookFit
<1>12. CASE Moves(b, rest) /\ jobs' = jobs
  BY <1>1, <1>3, <1>4, <1>5, <1>7, <1>9, <1>11, <1>12, JobChangeReaches
<1>13. CASE /\ Moves(b, rest) /\ jobs[t.id].status = "PENDING"
            /\ jobs' = [jobs EXCEPT ![t.id] = Buried(t.id)]
  <2>1. jobs'[t.id] = Buried(t.id)
    BY <1>3, <1>13 DEF TypeOK
  <2>2. Settled(jobs[t.id].cve, rest)
    BY <1>2, <1>3, <1>9, <1>13, <2>1, GivingUpSettles
  <2>3. QED
    BY <1>1, <1>3, <1>4, <1>5, <1>7, <1>9, <1>11, <1>13, <2>2, JobChangeReaches
<1>14. CASE /\ Moves(b, calling) /\ jobs[t.id].status = "PENDING"
            /\ jobs[t.id].attempts < MaxAttempts /\ jobs' = [jobs EXCEPT ![t.id] = claimed]
  BY <1>1, <1>3, <1>4, <1>6, <1>7, <1>10, <1>11, <1>14, JobChangeReaches
<1>15. QED
  BY <1>8, <1>12, <1>13, <1>14

LEMMA CompletingReaches ==
    ASSUME TypeOK, TypeOK', JobsFit, Params, EvidenceInv, NEW b \in Batches,
           CompleteJob(b) \/ CompletionError(b)
    PROVE  EvidenceInv'
<1> DEFINE j == batch[b].job
           new == [jobs[j] EXCEPT !.status = "COMPLETED", !.token = NoToken, !.lease = 0,
                      !.next = 0, !.queriedAt = batch[b].now, !.answer = batch[b].answer]
<1>1. /\ batch[b] \in Batch /\ batch[b].now <= clock /\ batch[b].pc = "answered"
      /\ j \in JobIds /\ jobs[j] \in Job
  BY RowsFit DEF CompleteJob, CompletionError, JobsFit, HolderFit, TypeOK
<1>2. batch[b].completed \in SUBSET CVEs /\ batch[b].answer \in Answers /\ jobs[j].cve \in CVEs
  BY <1>1 DEF Batch, Job
<1>3. new \in Job
  BY <1>1, <1>2, JobTyped
<1>4. new.cve = jobs[j].cve /\ new.queriedAt <= clock
  BY <1>1 DEF Job
<1>5. UNCHANGED <<clock, assoc, score, req>> /\ excused \subseteq excused'
  BY DEF CompleteJob, CompletionError
<1>6. \/ jobs' = jobs /\ Picks(b, batch[b].completed)
      \/ /\ Holds(b) /\ jobs' = [jobs EXCEPT ![j] = new]
         /\ \/ Picks(b, batch[b].completed \cup {jobs[j].cve})
            \/ Picks(b, batch[b].completed) /\ Holders(jobs[j].cve) \subseteq excused'
  BY DEF CompleteJob, CompletionError, WithAnswer
<1> HIDE DEF j, new
<1>7. CASE jobs' = jobs /\ Picks(b, batch[b].completed)
  <2>1. PICK row \in Batch : /\ Moves(b, row) /\ HookFit(row) /\ row.now <= clock
                             /\ row.completed = batch[b].completed
    BY <1>1, <1>2, <1>7, PicksFits
  <2>2. QED
    BY <1>1, <1>3, <1>4, <1>5, <1>7, <2>1, JobChangeReaches
<1>8. CASE /\ Holds(b) /\ jobs' = [jobs EXCEPT ![j] = new]
           /\ Picks(b, batch[b].completed \cup {jobs[j].cve})
  <2>1. PICK row \in Batch : /\ Moves(b, row) /\ HookFit(row) /\ row.now <= clock
                             /\ row.completed = batch[b].completed \cup {jobs[j].cve}
    BY <1>1, <1>2, <1>8, PicksFits
  <2>2. Settled(jobs[j].cve, row) /\ jobs[j].status = "PENDING"
    BY <1>8, <2>1 DEF Settled, Holds, j
  <2>3. QED
    BY <1>1, <1>3, <1>4, <1>5, <1>8, <2>1, <2>2, JobChangeReaches
<1>9. CASE /\ Holds(b) /\ jobs' = [jobs EXCEPT ![j] = new]
           /\ Picks(b, batch[b].completed) /\ Holders(jobs[j].cve) \subseteq excused'
  <2>1. PICK row \in Batch : /\ Moves(b, row) /\ HookFit(row) /\ row.now <= clock
                             /\ row.completed = batch[b].completed
    BY <1>1, <1>2, <1>9, PicksFits
  <2>2. Settled(jobs[j].cve, row) /\ jobs[j].status = "PENDING"
    BY <1>9 DEF Settled, Holds, j
  <2>3. QED
    BY <1>1, <1>3, <1>4, <1>5, <1>9, <2>1, <2>2, JobChangeReaches
<1>10. QED
  BY <1>6, <1>7, <1>8, <1>9

\* An attempt that fails releases or buries its job, and a cancelled one releases it.
LEMMA ReleasingReaches ==
    ASSUME TypeOK, TypeOK', JobsFit, Params, EvidenceInv, NEW b \in Batches,
           AttemptFails(b) \/ Cancel(b)
    PROVE  EvidenceInv'
<1> DEFINE j == batch[b].job
           n == jobs[j].attempts
<1>1. /\ batch[b] \in Batch /\ batch[b].now <= clock /\ batch[b].completed \in SUBSET CVEs
      /\ batch[b].pc \in {"picking", "calling", "answered"}
      /\ \A k \in JobIds : jobs[k] \in Job /\ jobs[k].queriedAt <= clock
  BY RowsFit DEF AttemptFails, Cancel, TypeOK, Batch
<1>2. PICK row \in Batch : /\ Moves(b, row) /\ HookFit(row) /\ row.now <= clock
                           /\ row.completed = batch[b].completed
  <2>1. CASE AttemptFails(b)
    BY <1>1, <2>1, PicksFits DEF AttemptFails
  <2>2. CASE Cancel(b)
    BY <2>2, FinishesFits DEF Cancel
  <2>3. QED
    BY <2>1, <2>2
<1>3. UNCHANGED <<clock, assoc, score, req>> /\ excused \subseteq excused'
  BY DEF AttemptFails, Cancel, GivenUp
<1>4. CASE jobs' = jobs
  <2>1. \A c \in batch[b].completed : Settled(c, row)
    BY <1>2 DEF Settled
  <2>2. batch[b].ids = {}
    BY <1>1, RowsFit DEF HookFit
  <2>3. QED
    BY <1>2, <1>3, <1>4, <2>1, <2>2, BatchWithoutJobs
<1>5. CASE jobs' # jobs
  <2>1. /\ j \in JobIds /\ Holds(b)
        /\ \/ jobs' = [jobs EXCEPT ![j] = Buried(j)] /\ GivenUp(j)
           \/ jobs' = [jobs EXCEPT ![j] = Released(j, batch[b].now, n)]
           \/ jobs' = [jobs EXCEPT ![j] = Released(j, batch[b].now, n - 1)]
    BY <1>5 DEF AttemptFails, Cancel, JobsFit, HolderFit
  <2>2. jobs[j].status = "PENDING" /\ jobs[j] \in Job /\ jobs[j].queriedAt <= clock
    BY <1>1, <2>1 DEF Holds
  <2>3. n \in Nat /\ n > 0
    BY <2>1, <2>2, Params DEF Holds, JobsFit, JobFit, Job, ParamsAssumption
  <2>4. n - 1 \in Nat /\ n <= n /\ n - 1 <= n
    BY <2>3
  <2>5. /\ Buried(j) \in Job /\ Released(j, batch[b].now, n) \in Job
        /\ Released(j, batch[b].now, n - 1) \in Job
    BY <2>1, <2>3, <2>4, JobTyped
  <2>6. /\ Buried(j).cve = jobs[j].cve /\ Buried(j).queriedAt = jobs[j].queriedAt
        /\ Buried(j).status = "DEAD_LETTER"
        /\ \A k : /\ Released(j, batch[b].now, k).cve = jobs[j].cve
                  /\ Released(j, batch[b].now, k).queriedAt = jobs[j].queriedAt
                  /\ Released(j, batch[b].now, k).status = "PENDING"
    BY <2>2 DEF Buried, Released, Job
  <2>7. PICK new \in Job : /\ jobs' = [jobs EXCEPT ![j] = new] /\ new.cve = jobs[j].cve
                           /\ new.queriedAt = jobs[j].queriedAt
                           /\ new.status = "PENDING" \/ (new.status = "DEAD_LETTER" /\ GivenUp(j))
    BY <2>1, <2>5, <2>6
  <2> HIDE DEF j, n
  <2>8. jobs'[j] = new
    BY <2>1, <2>7 DEF TypeOK
  <2>9. new.status = "PENDING" \/ Settled(jobs[j].cve, row)
    BY <2>1, <2>2, <2>7, <2>8, GivingUpSettles
  <2>10. new.queriedAt <= clock
    BY <2>2, <2>7
  <2>11. batch[b].completed \subseteq row.completed
    BY <1>2
  <2>12. QED
    BY <1>1, <1>2, <1>3, <2>1, <2>2, <2>7, <2>9, <2>10, <2>11, JobChangeReaches
<1>6. QED
  BY <1>4, <1>5

\* A rescore touches one score and one excuse.
LEMMA RescoreTouches ==
    ASSUME TypeOK, NEW f \in Findings, NEW asOf, NEW early, Rescore(f, asOf, early)
    PROVE  \A g \in Findings : g # f => score'[g] = score[g] /\ (g \in excused => g \in excused')
<1> PICK input : input = RiskInput(f, asOf)
  OBVIOUS
<1>1. score' = score \/ score' = [score EXCEPT ![f] = [asOf |-> asOf, input |-> input]]
  BY DEF Rescore
<1>2. excused \ {f} \subseteq excused'
  BY DEF Rescore
<1>3. QED
  BY <1>1, <1>2 DEF TypeOK

\* The hook is what a batch owes for what it listed: it reads every answer its instant is
\* not too early for, and excuses the finding otherwise.
LEMMA RescoringReaches ==
    ASSUME TypeOK, TypeOK', Params, EvidenceInv, NEW b \in Batches, RescoreListed(b)
    PROVE  EvidenceInv'
<1>1. /\ batch[b] \in Batch /\ HookFit(batch[b]) /\ batch[b].now <= clock /\ InstantsPassed
      /\ batch[b].pc = "rescoring" /\ UNCHANGED <<clock, assoc, jobs, req>>
  BY RowsFit DEF RescoreListed, EvidenceInv
<1>2. PICK f \in batch[b].ids : /\ Rescore(f, batch[b].now, TRUE)
                                /\ Moves(b, [batch[b] EXCEPT !.ids = batch[b].ids \ {f}])
  BY DEF RescoreListed
<1> DEFINE row == [batch[b] EXCEPT !.ids = batch[b].ids \ {f}]
<1>3. /\ row \in Batch /\ row.ids = batch[b].ids \ {f} /\ row.completed = batch[b].completed
      /\ row.now = batch[b].now /\ row.pc = "rescoring" /\ f \in Findings /\ batch[b].now \in Nat
  BY <1>1, <1>2 DEF Batch
<1>4. batch'[b] = row /\ \A a \in Batches : a # b => batch'[a] = batch[a]
  BY <1>2, <1>3, RowsFit
<1> HIDE DEF row
<1>5. InstantsPassed'
  BY <1>1, <1>3, <1>4 DEF InstantsPassed
<1>6. HooksFit'
  BY <1>1, <1>3, <1>4 DEF EvidenceInv, HooksFit, HookFit
<1>7. ASSUME NEW g \in Findings, NEW c \in Scored(g)', NEW j \in Latest(c)'
      PROVE  Reached(g, c, j)'
  <2>1. c \in CVEs /\ c \in Scored(g) /\ AnswersStand(c) /\ ActiveJobs(c)' = ActiveJobs(c)
    BY <1>1, JobsAlone, AssociationsAlone, ScoredAreActive
  <2>2. j \in Latest(c)
    BY <2>1, LatestStands
  <2>3. CASE g = f
    <3>1. /\ batch[b].now >= jobs[j].queriedAt /\ FreshAt(j, clock)
               => score'[f].input[c] = Evidence(c, clock)
          /\ batch[b].now < jobs[j].queriedAt => f \in excused'
      BY <1>1, <1>2, <1>3, <2>1, <2>2, <2>3, RescoreReads
    <3>2. batch[b].now \in Int /\ jobs[j].queriedAt \in Int
      BY <1>3, <2>2 DEF Latest, Completed, TypeOK, Job, Never
    <3>3. (FreshAt(j, clock)' <=> FreshAt(j, clock)) /\ Evidence(c, clock)' = Evidence(c, clock)
      BY <1>1 DEF FreshAt, Evidence, Latest, Completed
    <3>4. QED
      BY <2>3, <3>1, <3>2, <3>3 DEF Reached
  <2>4. CASE g # f
    <3>1. score'[g] = score[g] /\ (g \in excused => g \in excused')
      BY <1>2, <1>3, <2>4, RescoreTouches
    <3>2. RequestDebt(g, c, j)' = RequestDebt(g, c, j)
      BY <1>1 DEF RequestDebt, Owes, ScoresNext
    <3>3. HookDebt(g, c) => HookDebt(g, c)'
      BY <1>3, <1>4, <2>4 DEF HookDebt
    <3>4. Debt(g, c, j) => Debt(g, c, j)'
      BY <2>1, <3>2, <3>3 DEF Debt
    <3>5. Reached(g, c, j) /\ clock' >= clock
      BY <1>1, <2>1, <2>2 DEF EvidenceInv, EvidenceReached, TypeOK
    <3>6. QED
      BY <1>1, <2>1, <2>2, <3>1, <3>4, <3>5, ReachStands
  <2>5. QED
    BY <2>3, <2>4
<1>8. EvidenceReached'
  BY <1>7 DEF EvidenceReached
<1>9. QED
  BY <1>5, <1>6, <1>8 DEF EvidenceInv

LEMMA BatchStepReaches ==
    ASSUME TypeOK, TypeOK', JobsFit, Params, EvidenceInv, NEW b \in Batches, BatchStep(b)
    PROVE  EvidenceInv'
  BY OpeningReaches, FinishingReaches, ListingReaches, PickingReaches, CompletingReaches,
     ReleasingReaches, RescoringReaches, FailedRescoreReaches DEF BatchStep

\* A request that goes on keeps its subject; one that ends owes nothing.
LEMMA GoesFits ==
    ASSUME TypeOK, NEW r \in Requests, NEW pc, Goes(r, pc)
    PROVE  /\ req'[r].pc = pc /\ req'[r].kind = req[r].kind /\ req'[r].finding = req[r].finding
           /\ req'[r].cve = req[r].cve /\ req'[r].asOf = req[r].asOf
           /\ \A q \in Requests : q # r => req'[q] = req[q]
<1>1. req' = [req EXCEPT ![r] = [req[r] EXCEPT !.pc = pc]]
  BY DEF Goes, TypeOK
<1>2. QED
  BY <1>1 DEF TypeOK

LEMMA EndsFits ==
    ASSUME TypeOK, Params, NEW r \in Requests, Ends(r)
    PROVE  /\ req'[r].pc = "done" /\ req'[r].asOf = 0
           /\ \A q \in Requests : q # r => req'[q] = req[q]
<1> DEFINE q0 == [NewRequest EXCEPT !.pc = "done"]
<1>1. q0.pc = "done" /\ q0.asOf = 0
  BY DEF NewRequest
<1>2. req' = [req EXCEPT ![r] = q0]
  BY DEF Ends
<1> HIDE DEF q0
<1>3. QED
  BY <1>1, <1>2 DEF TypeOK

LEMMA RequestsFitIn ==
    ASSUME TypeOK, EvidenceInv, NEW r \in Requests
    PROVE  /\ req[r].asOf <= clock /\ 0 <= clock
           /\ \A k \in JobIds : jobs[k].queriedAt <= clock
  BY Params DEF TypeOK, EvidenceInv, InstantsPassed, ParamsAssumption

\* A step of a request that writes no score.
LEMMA RequestReaches ==
    ASSUME TypeOK, TypeOK', Params, EvidenceInv, NEW r \in Requests,
           UNCHANGED <<clock, score, batch>>, excused \subseteq excused',
           \A q \in Requests : q # r => req'[q] = req[q],
           req'[r].asOf <= clock,
           \A k \in JobIds : jobs'[k].queriedAt <= clock,
           \A c \in CVEs : AnswersStand(c),
           \A c \in CVEs : ActiveJobs(c) # {} => ActiveJobs(c)' # {},
           \A f \in Findings : \A c \in Scored(f)' :
               c \in Scored(f) \/ \A j \in Latest(c) : Owes(r, f, c, j)' \/ f \in excused',
           \A f \in Findings : \A c \in Scored(f) : \A j \in Latest(c) :
               Owes(r, f, c, j) => Owes(r, f, c, j)' \/ ActiveJobs(c)' # {} \/ f \in excused'
    PROVE  EvidenceInv'
<1>1. InstantsPassed' /\ HooksFit'
  BY DEF EvidenceInv, InstantsPassed, HooksFit
<1>2. ASSUME NEW f \in Findings, NEW c \in Scored(f)', NEW j \in Latest(c)'
      PROVE  Reached(f, c, j)'
  <2>1. c \in CVEs /\ AnswersStand(c)
    BY DEF Scored, Foremost, Active
  <2>2. j \in Latest(c) /\ jobs'[j] = jobs[j]
    BY <2>1, LatestStands
  <2>3. CASE Owes(r, f, c, j)' \/ f \in excused'
    BY <2>3 DEF Reached, Debt, RequestDebt
  <2>4. CASE c \in Scored(f)
    <3>1. RequestDebt(f, c, j) => RequestDebt(f, c, j)' \/ ActiveJobs(c)' # {} \/ f \in excused'
      <4> SUFFICES ASSUME NEW q \in Requests, Owes(q, f, c, j)
                   PROVE  RequestDebt(f, c, j)' \/ ActiveJobs(c)' # {} \/ f \in excused'
        BY DEF RequestDebt
      <4>1. CASE q = r
        BY <2>2, <2>4, <4>1 DEF RequestDebt
      <4>2. CASE q # r
        BY <2>2, <4>2 DEF RequestDebt, Owes, ScoresNext
      <4>3. QED
        BY <4>1, <4>2
    <3>2. HookDebt(f, c)' = HookDebt(f, c)
      BY DEF HookDebt
    <3>3. Debt(f, c, j) => Debt(f, c, j)' \/ f \in excused'
      BY <2>1, <3>1, <3>2 DEF Debt
    <3>4. Reached(f, c, j) /\ clock' >= clock /\ InstantsPassed
      BY <2>2, <2>4 DEF EvidenceInv, EvidenceReached, TypeOK
    <3>5. QED
      BY <2>1, <2>2, <3>3, <3>4, ReachStands
  <2>5. QED
    BY <2>2, <2>3, <2>4
<1>3. EvidenceReached'
  BY <1>2 DEF EvidenceReached
<1>4. QED
  BY <1>1, <1>3 DEF EvidenceInv

\* Such a step that leaves associations and jobs alone too.
LEMMA RequestWithoutRows ==
    ASSUME TypeOK, TypeOK', Params, EvidenceInv, NEW r \in Requests,
           UNCHANGED <<clock, assoc, jobs, score, batch>>, excused \subseteq excused',
           \A q \in Requests : q # r => req'[q] = req[q],
           req'[r].asOf <= clock,
           \A f \in Findings : \A c \in Scored(f) : \A j \in Latest(c) :
               Owes(r, f, c, j) => Owes(r, f, c, j)' \/ ActiveJobs(c) # {} \/ f \in excused'
    PROVE  EvidenceInv'
<1>1. \A c \in CVEs : AnswersStand(c) /\ ActiveJobs(c)' = ActiveJobs(c)
  BY JobsAlone
<1>2. \A k \in JobIds : jobs'[k].queriedAt <= clock
  BY RequestsFitIn
<1>3. \A f \in Findings : Scored(f)' = Scored(f) /\ Scored(f) \subseteq CVEs
  BY AssociationsAlone, ScoredAreActive
<1>4. QED
  BY <1>1, <1>2, <1>3, RequestReaches

\* The change of an association lets into the score the CVE that is attached, or one that was
\* attached beyond the cap and moves up when another is retracted.
LEMMA ChangedScored ==
    ASSUME TypeOK, Params, NEW f \in Findings, NEW d \in CVEs,
           NEW target \in {"ACTIVE", "REMOVED"}, assoc' = [assoc EXCEPT ![f][d] = target]
    PROVE  /\ \A g \in Findings : g # f => Scored(g)' = Scored(g)
           /\ target = "ACTIVE" => Scored(f)' \subseteq Scored(f) \cup {d}
           /\ target = "REMOVED" => Scored(f)' = Foremost(Active(f) \ {d}, MaxCves)
<1>1. \A g \in Findings : g # f => assoc'[g] = assoc[g]
  BY DEF TypeOK
<1>2. /\ assoc'[f][d] = target
      /\ \A c \in CVEs : c # d => assoc'[f][c] = assoc[f][c]
  BY DEF TypeOK
<1>3. ASSUME target = "ACTIVE"
      PROVE  Scored(f)' \subseteq Scored(f) \cup {d}
  <2>1. Active(f)' = Active(f) \cup {d}
    BY <1>2, <1>3 DEF Active
  <2>2. Active(f) \in SUBSET Nat /\ IsFiniteSet(Active(f)) /\ MaxCves \in Nat
    <3>1. CVEs \subseteq Nat /\ IsFiniteSet(CVEs) /\ MaxCves \in Nat
      BY Params DEF ParamsAssumption
    <3>2. Active(f) \subseteq CVEs
      BY DEF Active
    <3>3. QED
      BY <3>1, <3>2, FS_Subset
  <2>3. Foremost(Active(f) \cup {d}, MaxCves) \subseteq Foremost(Active(f), MaxCves) \cup {d}
    BY <2>2, ForemostOfMore
  <2>4. QED
    BY <2>1, <2>3 DEF Scored
<1>4. ASSUME target = "REMOVED"
      PROVE  Scored(f)' = Foremost(Active(f) \ {d}, MaxCves)
  <2>1. Active(f)' = Active(f) \ {d}
    BY <1>2, <1>4 DEF Active
  <2>2. QED
    BY <2>1 DEF Scored
<1>5. QED
  BY <1>1, <1>3, <1>4, AssociationsAlone

\* The first step of a request, and the change of an association: what it lets into the score
\* is owed a rescore from the moment it commits, or excused.
LEMMA ChangingReaches ==
    ASSUME TypeOK, TypeOK', RequestsFit, Params, EvidenceInv, NEW r \in Requests,
           BeginRequest(r) \/ ChangeAssociation(r)
    PROVE  EvidenceInv'
<1>1. /\ req[r].asOf <= clock /\ 0 <= clock /\ clock \in Nat
      /\ \A k \in JobIds : jobs[k].queriedAt <= clock
  BY RequestsFitIn DEF TypeOK
<1>2. CASE BeginRequest(r)
  <2>1. PICK new : req' = [req EXCEPT ![r] = new] /\ new.asOf = clock
    <3>1. PICK kind \in Kinds, f \in Findings, c \in CVEs :
             req' = [req EXCEPT ![r] =
                [pc |-> CASE kind \in {"ATTACH", "REMOVE"} -> "changing"
                          [] kind = "RESCORE" -> "rescoring"
                          [] kind = "REFRESH" -> "scheduling"
                          [] kind = "FORCE" -> "looking",
                 kind |-> kind, cve |-> c, asOf |-> clock,
                 finding |-> IF kind \in {"REFRESH", "FORCE"} THEN NoFinding ELSE f]]
      BY <1>2 DEF BeginRequest
    <3> DEFINE new == [pc |-> CASE kind \in {"ATTACH", "REMOVE"} -> "changing"
                          [] kind = "RESCORE" -> "rescoring"
                          [] kind = "REFRESH" -> "scheduling"
                          [] kind = "FORCE" -> "looking",
                 kind |-> kind, cve |-> c, asOf |-> clock,
                 finding |-> IF kind \in {"REFRESH", "FORCE"} THEN NoFinding ELSE f]
    <3>2. new.asOf = clock
      OBVIOUS
    <3> HIDE DEF new
    <3>3. req' = [req EXCEPT ![r] = new]
      BY <3>1 DEF new
    <3>4. QED
      BY <3>2, <3>3
  <2>2. req'[r] = new /\ \A q \in Requests : q # r => req'[q] = req[q]
    BY <2>1 DEF TypeOK
  <2>3. \A f, c, j : ~Owes(r, f, c, j)
    BY <1>2 DEF BeginRequest, Owes, ScoresNext
  <2>4. QED
    BY <1>1, <1>2, <2>1, <2>2, <2>3, RequestWithoutRows DEF BeginRequest
<1>3. CASE ChangeAssociation(r)
  <2> DEFINE q == req[r]
             target == IF q.kind = "ATTACH" THEN "ACTIVE" ELSE "REMOVED"
  <2>1. \A f, c, j : ~Owes(r, f, c, j)
    BY <1>3 DEF ChangeAssociation, Owes, ScoresNext
  <2>2. CASE Ends(r) /\ assoc' = assoc /\ excused' = excused
    BY <1>1, <1>3, <2>1, <2>2, EndsFits, RequestWithoutRows DEF ChangeAssociation
  <2>3. CASE /\ assoc' = [assoc EXCEPT ![q.finding][q.cve] = target]
             /\ Goes(r, IF q.kind = "ATTACH" THEN "scheduling" ELSE "rescoring")
             /\ excused' = IF LetsInUnread(q.finding, q.cve, q.asOf)
                           THEN excused \cup {q.finding} ELSE excused
    <3>1. /\ req'[r].pc = IF q.kind = "ATTACH" THEN "scheduling" ELSE "rescoring"
          /\ req'[r].kind = q.kind /\ req'[r].finding = q.finding /\ req'[r].cve = q.cve
          /\ req'[r].asOf = q.asOf /\ \A p \in Requests : p # r => req'[p] = req[p]
      BY <2>3, GoesFits
    <3>2. /\ q.finding \in Findings /\ q.cve \in CVEs /\ q.kind \in {"ATTACH", "REMOVE"}
          /\ q.asOf \in Nat /\ target \in {"ACTIVE", "REMOVED"}
      BY <1>3 DEF ChangeAssociation, RequestsFit, RequestFit, TypeOK
    <3> PICK x \in Findings, d \in CVEs, change \in {"ACTIVE", "REMOVED"} :
           x = q.finding /\ d = q.cve /\ change = target
      BY <3>2
    <3>3. /\ \A g \in Findings : g # x => Scored(g)' = Scored(g)
          /\ change = "ACTIVE" => Scored(x)' \subseteq Scored(x) \cup {d}
          /\ change = "REMOVED" => Scored(x)' = Foremost(Active(x) \ {d}, MaxCves)
      <4>1. assoc' = [assoc EXCEPT ![x][d] = change]
        BY <2>3
      <4>2. QED
        BY <4>1, ChangedScored
    <3>4. ASSUME NEW f \in Findings, NEW c \in Scored(f)', c \notin Scored(f), NEW j \in Latest(c)
          PROVE  Owes(r, f, c, j)' \/ f \in excused'
      <4>1. f = x
        BY <3>3, <3>4
      <4>2. CASE q.kind = "ATTACH"
        <5>1. change = "ACTIVE"
          BY <4>2
        <5>2. c = d
          BY <3>3, <3>4, <4>1, <5>1
        <5>3. QED
          BY <3>1, <4>1, <4>2, <5>2 DEF Owes, ScoresNext
      <4>3. CASE q.kind = "REMOVE"
        <5>1. c \in Foremost(Active(x) \ {d}, MaxCves) \ Scored(x)
          <6>1. change = "REMOVED"
            BY <4>3
          <6>2. QED
            BY <3>3, <3>4, <4>1, <6>1
        <5>2. CASE q.asOf < jobs[j].queriedAt
          <6>1. LetsInUnread(x, d, q.asOf)
            BY <5>1, <5>2 DEF LetsInUnread, TooEarly
          <6>2. QED
            BY <2>3, <4>1, <6>1
        <5>3. CASE q.asOf >= jobs[j].queriedAt
          <6>1. jobs' = jobs
            BY <1>3 DEF ChangeAssociation
          <6>2. req'[r].pc = "rescoring"
            BY <3>1, <4>3
          <6>3. QED
            BY <3>1, <4>1, <4>3, <5>3, <6>1, <6>2 DEF Owes, ScoresNext
        <5>4. jobs[j].queriedAt \in Int
          BY DEF Latest, Completed, TypeOK, Job, Never
        <5>5. QED
          BY <3>2, <5>2, <5>3, <5>4
      <4>4. QED
        BY <3>2, <4>2, <4>3
    <3>5. \A c \in CVEs : AnswersStand(c) /\ ActiveJobs(c)' = ActiveJobs(c)
      BY <1>3, JobsAlone DEF ChangeAssociation
    <3>6. \A k \in JobIds : jobs'[k].queriedAt <= clock
      BY <1>1, <1>3 DEF ChangeAssociation
    <3>7. UNCHANGED <<clock, score, batch>> /\ excused \subseteq excused'
      BY <1>3 DEF ChangeAssociation
    <3> HIDE DEF q, target
    <3>8. req'[r].asOf <= clock
      BY <1>1, <3>1 DEF q
    <3>9. QED
      BY <2>1, <3>1, <3>4, <3>5, <3>6, <3>7, <3>8, RequestReaches
  <2>4. QED
    BY <1>3, <2>2, <2>3 DEF ChangeAssociation
<1>4. QED
  BY <1>2, <1>3

\* The cache: an answer that the request's instant finds fresh is one that it will read.
LEMMA LookingReaches ==
    ASSUME TypeOK, TypeOK', Params, EvidenceInv, NEW r \in Requests,
           CheckCache(r) \/ FindActiveJob(r)
    PROVE  EvidenceInv'
<1>1. req[r].asOf <= clock /\ 0 <= clock
  BY RequestsFitIn
<1>2. UNCHANGED <<clock, assoc, jobs, score, batch>> /\ excused' = excused
  BY DEF CheckCache, FindActiveJob
<1>3. /\ \A p \in Requests : p # r => req'[p] = req[p]
      /\ req'[r].asOf <= clock
  BY <1>1, GoesFits, EndsFits DEF CheckCache, FindActiveJob, Scheduled
<1>4. ASSUME NEW f \in Findings, NEW c \in Scored(f), NEW j \in Latest(c), Owes(r, f, c, j)
      PROVE  Owes(r, f, c, j)' \/ ActiveJobs(c) # {}
  <2>1. req[r].kind = "ATTACH" /\ req[r].cve = c /\ req[r].finding = f /\ c \in CVEs
    BY <1>4, ScoredAreActive DEF CheckCache, FindActiveJob, Owes, ScoresNext
  <2>2. ASSUME NEW pc \in {"looking", "creating"}, Goes(r, pc)
        PROVE  Owes(r, f, c, j)'
    <3>1. /\ req'[r].pc = pc /\ req'[r].kind = "ATTACH" /\ req'[r].cve = c
          /\ req'[r].finding = f
      BY <2>1, <2>2, GoesFits
    <3>2. QED
      BY <3>1 DEF Owes, ScoresNext
  <2>3. CASE CheckCache(r) /\ Scheduled(r) /\ \E i \in Latest(c) : FreshAt(i, req[r].asOf)
    <3>1. FreshAt(j, req[r].asOf)
      BY <2>1, <2>3, EvidenceOfLatest DEF LatestIsRead
    <3>2. req[r].asOf >= jobs[j].queriedAt
      <4>1. jobs[j].queriedAt \in Int /\ req[r].asOf \in Int
        BY <1>4 DEF Latest, Completed, TypeOK, Job, Never
      <4>2. QED
        BY <3>1, <4>1 DEF FreshAt
    <3>3. /\ req'[r].pc = "rescoring" /\ req'[r].kind = "ATTACH" /\ req'[r].finding = f
          /\ req'[r].asOf = req[r].asOf
      BY <2>1, <2>3, GoesFits DEF Scheduled
    <3>4. QED
      BY <1>2, <3>2, <3>3 DEF Owes, ScoresNext
  <2>4. QED
    BY <2>1, <2>2, <2>3 DEF CheckCache, FindActiveJob
<1>5. QED
  BY <1>2, <1>3, <1>4, RequestWithoutRows

\* A job in the queue is owed to everyone who waits for its CVE.
LEMMA CreatingReaches ==
    ASSUME TypeOK, TypeOK', Params, EvidenceInv, NEW r \in Requests, CreateJob(r)
    PROVE  EvidenceInv'
<1>1. /\ req[r].asOf <= clock /\ 0 <= clock
      /\ \A k \in JobIds : jobs[k].queriedAt <= clock
  BY RequestsFitIn
<1>2. UNCHANGED <<clock, assoc, score, batch>> /\ excused' = excused /\ req[r].pc = "creating"
  BY DEF CreateJob
<1>3. /\ \A p \in Requests : p # r => req'[p] = req[p]
      /\ req'[r].asOf <= clock
  BY <1>1, GoesFits, EndsFits DEF CreateJob, Scheduled
<1>4. \A f, c, j : Owes(r, f, c, j) => c = req[r].cve
  BY <1>2 DEF Owes
<1>5. CASE ActiveJobs(req[r].cve) # {} /\ jobs' = jobs
  BY <1>2, <1>3, <1>4, <1>5, RequestWithoutRows
<1>6. ASSUME NEW i \in JobIds, jobs[i].status = "NONE",
             jobs' = [jobs EXCEPT ![i] = [NewJob EXCEPT
                          !.cve = req[r].cve, !.status = "PENDING", !.requestedAt = req[r].asOf]]
      PROVE  EvidenceInv'
  <2> DEFINE new == [NewJob EXCEPT !.cve = req[r].cve, !.status = "PENDING",
                                   !.requestedAt = req[r].asOf]
  <2>1. new.cve = req[r].cve /\ new.status = "PENDING" /\ new.queriedAt = Never
    BY DEF NewJob
  <2>2. jobs'[i] = new /\ \A k \in JobIds : k # i => jobs'[k] = jobs[k]
    BY <1>6 DEF TypeOK
  <2> HIDE DEF new
  <2>3. \A k \in JobIds : jobs'[k].queriedAt <= clock
    <3>1. Never <= clock
      BY DEF Never, TypeOK
    <3>2. QED
      BY <1>1, <2>1, <2>2, <3>1
  <2>4. \A c \in CVEs : AnswersStand(c)
    BY <1>6, <2>1, <2>2 DEF AnswersStand, Completed
  <2>5. \A c \in CVEs : \A k \in ActiveJobs(c) : k \in ActiveJobs(c)'
    BY <1>6, <2>2 DEF ActiveJobs
  <2>6. \A c : c = req[r].cve => i \in ActiveJobs(c)'
    BY <2>1, <2>2 DEF ActiveJobs
  <2>7. QED
    <3>1. \A c \in CVEs : ActiveJobs(c) # {} => ActiveJobs(c)' # {}
      BY <2>5
    <3>2. \A f \in Findings : Scored(f)' = Scored(f)
      BY <1>2, AssociationsAlone
    <3>3. ASSUME NEW f \in Findings, NEW c \in Scored(f), NEW j \in Latest(c), Owes(r, f, c, j)
          PROVE  ActiveJobs(c)' # {}
      BY <1>4, <2>6, <3>3
    <3>4. QED
      BY <1>2, <1>3, <2>3, <2>4, <3>1, <3>2, <3>3, RequestReaches
<1>7. QED
  BY <1>5, <1>6 DEF CreateJob

LEMMA LosingReaches ==
    ASSUME TypeOK, TypeOK', Params, EvidenceInv, NEW r \in Requests,
           ScheduleFails(r) \/ LoseRequest(r)
    PROVE  EvidenceInv'
<1>1. req[r].asOf <= clock /\ 0 <= clock
  BY RequestsFitIn
<1>2. UNCHANGED <<clock, assoc, jobs, score, batch>> /\ excused \subseteq excused'
  BY DEF ScheduleFails, LoseRequest
<1>3. /\ \A p \in Requests : p # r => req'[p] = req[p]
      /\ req'[r].asOf <= clock
  BY <1>1, GoesFits, EndsFits DEF ScheduleFails, LoseRequest, Scheduled
<1>4. \A f, c, j : Owes(r, f, c, j) => f \in excused'
  BY DEF ScheduleFails, LoseRequest, Owes, ScoresNext
<1>5. QED
  BY <1>2, <1>3, <1>4, RequestWithoutRows

\* The rescore of a request reads what it was owed for.
LEMMA RequestedReaches ==
    ASSUME TypeOK, TypeOK', RequestsFit, Params, EvidenceInv, NEW r \in Requests, RescoreRequested(r)
    PROVE  EvidenceInv'
<1> DEFINE f == req[r].finding
           asOf == req[r].asOf
<1>1. /\ Rescore(f, asOf, FALSE) /\ f \in Findings /\ asOf \in Nat /\ asOf <= clock
      /\ UNCHANGED <<clock, assoc, jobs, batch>> /\ req[r].pc = "rescoring" /\ InstantsPassed
  BY RequestsFitIn DEF RescoreRequested, RequestsFit, RequestFit, TypeOK, EvidenceInv
<1>2. /\ req'[r].pc = "done" /\ req'[r].asOf = 0
      /\ \A q \in Requests : q # r => req'[q] = req[q]
  BY EndsFits DEF RescoreRequested
<1>3. InstantsPassed' /\ HooksFit'
  BY <1>1, <1>2, RequestsFitIn DEF EvidenceInv, InstantsPassed, HooksFit
<1>4. ASSUME NEW g \in Findings, NEW c \in Scored(g)', NEW j \in Latest(c)'
      PROVE  Reached(g, c, j)'
  <2>1. c \in CVEs /\ c \in Scored(g) /\ AnswersStand(c) /\ ActiveJobs(c)' = ActiveJobs(c)
    BY <1>1, JobsAlone, AssociationsAlone, ScoredAreActive
  <2>2. j \in Latest(c)
    BY <2>1, LatestStands
  <2>3. Reached(g, c, j)
    BY <2>1, <2>2 DEF EvidenceInv, EvidenceReached
  <2>4. asOf \in Int /\ jobs[j].queriedAt \in Int
    BY <1>1, <2>2 DEF Latest, Completed, TypeOK, Job, Never
  <2>5. Debt(g, c, j) => Debt(g, c, j)' \/ (g = f /\ asOf >= jobs[j].queriedAt)
    <3>1. RequestDebt(g, c, j) => RequestDebt(g, c, j)' \/ (g = f /\ asOf >= jobs[j].queriedAt)
      <4> SUFFICES ASSUME NEW q \in Requests, Owes(q, g, c, j)
                   PROVE  RequestDebt(g, c, j)' \/ (g = f /\ asOf >= jobs[j].queriedAt)
        BY DEF RequestDebt
      <4>1. CASE q = r
        BY <1>1, <4>1 DEF Owes, ScoresNext
      <4>2. CASE q # r
        BY <1>1, <1>2, <4>2 DEF RequestDebt, Owes, ScoresNext
      <4>3. QED
        BY <4>1, <4>2
    <3>2. HookDebt(g, c)' = HookDebt(g, c)
      BY <1>1 DEF HookDebt
    <3>3. QED
      BY <2>1, <3>1, <3>2 DEF Debt
  <2> HIDE DEF f, asOf
  <2>6. CASE g = f
    <3>1. /\ asOf >= jobs[j].queriedAt /\ FreshAt(j, clock)
               => score'[f].input[c] = Evidence(c, clock)
          /\ asOf < jobs[j].queriedAt =>
               /\ f \in excused => f \in excused'
               /\ score[f].input[c] = Evidence(c, clock)
                     => f \in excused' \/ score'[f].input[c] = Evidence(c, clock)
      BY <1>1, <2>1, <2>2, <2>6, RescoreReads
    <3>2. (FreshAt(j, clock)' <=> FreshAt(j, clock)) /\ Evidence(c, clock)' = Evidence(c, clock)
      BY <1>1 DEF FreshAt, Evidence, Latest, Completed
    <3>3. CASE asOf >= jobs[j].queriedAt
      BY <2>6, <3>1, <3>2, <3>3 DEF Reached
    <3>4. CASE asOf < jobs[j].queriedAt
      <4>1. Debt(g, c, j) => Debt(g, c, j)'
        BY <2>4, <2>5, <3>4
      <4>2. QED
        BY <2>3, <2>6, <3>1, <3>2, <3>4, <4>1 DEF Reached
    <3>5. QED
      BY <2>4, <3>3, <3>4
  <2>7. CASE g # f
    <3>1. score'[g] = score[g] /\ (g \in excused => g \in excused')
      BY <1>1, <2>7, RescoreTouches
    <3>2. Debt(g, c, j) => Debt(g, c, j)'
      BY <2>5, <2>7
    <3>3. clock' >= clock
      BY <1>1 DEF TypeOK
    <3>4. QED
      BY <1>1, <2>1, <2>2, <2>3, <3>1, <3>2, <3>3, ReachStands
  <2>8. QED
    BY <2>6, <2>7
<1>5. EvidenceReached'
  BY <1>4 DEF EvidenceReached
<1>6. QED
  BY <1>3, <1>5 DEF EvidenceInv

LEMMA RequestStepReaches ==
    ASSUME TypeOK, TypeOK', RequestsFit, Params, EvidenceInv, NEW r \in Requests, RequestStep(r)
    PROVE  EvidenceInv'
  BY ChangingReaches, LookingReaches, CreatingReaches, LosingReaches, RequestedReaches
     DEF RequestStep

\* Time takes nothing from a score but answers that expire.
LEMMA TimeReaches ==
    ASSUME TypeOK, TypeOK', Params, EvidenceInv, Tick \/ UNCHANGED vars
    PROVE  EvidenceInv'
<1>1. UNCHANGED <<assoc, jobs, score, req, batch, excused>> /\ clock' \in {clock, clock + 1}
  BY DEF Tick, vars
<1>2. clock \in Int /\ clock' >= clock
  BY <1>1 DEF TypeOK
<1>3. InstantsPassed'
  <2>1. /\ \A r \in Requests : req[r].asOf \in Int /\ req[r].asOf <= clock
        /\ \A b \in Batches : batch[b].now \in Int /\ batch[b].now <= clock
        /\ \A j \in JobIds : jobs[j].queriedAt \in Int /\ jobs[j].queriedAt <= clock
    BY DEF EvidenceInv, InstantsPassed, TypeOK, Job, Never
  <2> PICK then : then = clock'
    OBVIOUS
  <2>2. then \in Int /\ clock <= then
    BY <1>1, <1>2
  <2>3. /\ \A r \in Requests : req[r].asOf <= then
        /\ \A b \in Batches : batch[b].now <= then
        /\ \A j \in JobIds : jobs[j].queriedAt <= then
    BY <1>2, <2>1, <2>2
  <2>4. QED
    BY <1>1, <2>3 DEF InstantsPassed
<1>4. HooksFit'
  BY <1>1 DEF EvidenceInv, HooksFit
<1>5. ASSUME NEW f \in Findings, NEW c \in Scored(f)', NEW j \in Latest(c)'
      PROVE  Reached(f, c, j)'
  <2>1. c \in CVEs /\ c \in Scored(f) /\ AnswersStand(c) /\ ActiveJobs(c)' = ActiveJobs(c)
    BY <1>1, <1>5, JobsAlone, AssociationsAlone, ScoredAreActive
  <2>2. j \in Latest(c)
    BY <2>1, LatestStands
  <2>3. Reached(f, c, j) /\ InstantsPassed
    BY <2>1, <2>2 DEF EvidenceInv, EvidenceReached
  <2>4. Debt(f, c, j)' = Debt(f, c, j)
    BY <1>1, <2>1 DEF Debt, RequestDebt, Owes, ScoresNext, HookDebt
  <2>5. QED
    BY <1>1, <1>2, <2>1, <2>2, <2>3, <2>4, ReachStands
<1>6. EvidenceReached'
  BY <1>5 DEF EvidenceReached
<1>7. QED
  BY <1>3, <1>4, <1>6 DEF EvidenceInv

LEMMA InitReaches ==
    ASSUME Init, Params
    PROVE  EvidenceInv
<1>1. NewRequest.asOf = 0 /\ NewBatch.now = 0 /\ NewJob.queriedAt = Never
  BY DEF NewRequest, NewBatch, NewJob
<1>2. InstantsPassed
  BY <1>1 DEF Init, InstantsPassed, Never
<1>3. HooksFit
  BY DEF Init, HooksFit, HookFit, NewBatch
<1>4. \A c : Latest(c) = {}
  BY DEF Init, Latest, Completed, NewJob
<1>5. EvidenceReached
  BY <1>4 DEF EvidenceReached
<1>6. QED
  BY <1>2, <1>3, <1>5 DEF EvidenceInv

\* Fresh evidence on a CVE reaches the score of every finding that reads it, unless the rescore
\* was excused, for one past a limit of the hook too, or is still owed: by a request, by a job in
\* the queue, or by the hook of the batch that completed it.
THEOREM EvidenceIsNotLost == Spec => []EvidenceReachesScores
<1>1. Init => EvidenceInv
  BY Params, InitReaches
<1>2. IInv /\ IInv' /\ EvidenceInv /\ [Next]_vars => EvidenceInv'
  BY Params, BatchStepReaches, RequestStepReaches, TimeReaches DEF IInv, Next
<1>3. EvidenceInv => EvidenceReachesScores
  BY DEF EvidenceInv, EvidenceReached, EvidenceReachesScores, Reached, Debt, RequestDebt, Owes,
         HookDebt, RescoreOwed
<1>4. QED
  BY <1>1, <1>2, <1>3, Invariance, PTL DEF Spec
=============================================================================
