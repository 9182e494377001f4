------------------------- MODULE VulnerabilityScoring -------------------------
(***************************************************************************)
(* What the risk score of a finding knows of the CVEs an analyst attached  *)
(* to it: the associations, the queue of provider lookups they schedule,   *)
(* the batches that work the queue off, and the scores calculated after    *)
(* every change.                                                           *)
(*                                                                         *)
(* Every process captures its instant once, when it starts, and reads the  *)
(* whole database as of that instant however late it gets to a step.       *)
(*                                                                         *)
(* An association change and a rescore are each one serializable           *)
(* transaction, and one step here.  The answers of the three providers are *)
(* stored together and stand here for one answer; a score names the        *)
(* evidence of each CVE, which the code aggregates.                        *)
(***************************************************************************)
EXTENDS Integers, FiniteSets

CONSTANTS
    Findings,    \* finding ids
    CVEs,        \* the vulnerabilities an analyst may name, numbered in the order of their ids
    Requests,    \* requests of analysts
    Batches,     \* enrichment batches, on any server
    Verdicts,    \* what a successful lookup may say
    Ttl,         \* how long each answer stays fresh
    MaxTime,     \* bound on the clock
    MaxJobs,     \* bound on the jobs ever created
    BatchSize,   \* candidates of one batch
    MaxAttempts, \* claims of one job
    LeaseTime,   \* the lease of a claim
    Delay,       \* the pause after a failed or cancelled attempt
    MaxCves,     \* MAX_ACTIVE_CVES_PER_FINDING: the CVEs of a finding that are scored
    HookLimit,   \* findings listed for one completed CVE
    TriggerLimit, \* MAX_FINDINGS_PER_TRIGGER: findings rescored by one hook
    Beginnings,  \* the associations there may be at first
    MaxFailures  \* bound on deaths and database failures together

VARIABLES
    clock,
    assoc,       \* the current FindingVulnerability row of each finding and CVE
    jobs,        \* the VulnerabilityEnrichmentJob rows, with their results
    score,       \* the current RiskScore row of each finding
    req,         \* each request's program counter and local variables
    batch,       \* each batch's program counter and local variables
    failures,    \* deaths and database failures so far
    excused      \* history: findings a rescore was lost for, or made as of too early

vars == <<clock, assoc, jobs, score, req, batch, failures, excused>>

Failed == "failed"
Answers == Verdicts \cup {Failed}
Never == -1
NoToken == "none"
NoFinding == 0

\* How a score reads one CVE: not attached, attached without usable evidence, a verdict.
Readings == Verdicts \cup {"absent", "unknown"}

JobIds == 1..MaxJobs
NewJob == [cve |-> CHOOSE c \in CVEs : TRUE, status |-> "NONE", requestedAt |-> 0,
           token |-> NoToken, lease |-> 0, attempts |-> 0, next |-> 0,
           lastAttemptAt |-> Never, queriedAt |-> Never, answer |-> Failed]

\* asOf is Never while the finding has no score.
NoScore == [asOf |-> Never, input |-> [c \in CVEs |-> "absent"]]

Kinds == {"ATTACH", "REMOVE", "RESCORE", "REFRESH", "FORCE"}
RequestPCs == {"idle", "changing", "scheduling", "looking", "creating", "rescoring", "done"}
NewRequest == [pc |-> "idle", kind |-> "RESCORE", finding |-> NoFinding,
               cve |-> CHOOSE c \in CVEs : TRUE, asOf |-> 0]

BatchPCs == {"idle", "opening", "picking", "calling", "answered", "listing", "rescoring", "done"}
NewBatch == [pc |-> "idle", now |-> 0, todo |-> {}, job |-> 0, answer |-> Failed,
             completed |-> {}, ids |-> {}]

ParamsAssumption ==
    /\ Findings \subseteq Nat \ {NoFinding} /\ IsFiniteSet(Findings)
    /\ CVEs # {} /\ CVEs \subseteq Nat /\ IsFiniteSet(CVEs)
    /\ NoToken \notin Batches
    /\ Verdicts \cap {Failed, "absent", "unknown"} = {}
    /\ Ttl \in [Answers -> Nat \ {0}]
    /\ MaxTime \in Nat
    /\ MaxJobs \in Nat
    /\ BatchSize \in Nat \ {0}
    /\ MaxAttempts \in Nat \ {0}
    /\ LeaseTime \in Nat \ {0}
    /\ Delay \in Nat \ {0}
    /\ MaxCves \in Nat \ {0}
    /\ HookLimit \in Nat \ {0}
    /\ TriggerLimit \in Nat \ {0}
    /\ Beginnings \subseteq [Findings -> SUBSET CVEs]
    /\ MaxFailures \in Nat

ASSUME Params == ParamsAssumption

-----------------------------------------------------------------------------
(* Evidence. *)

\* ORDER BY ... LIMIT n, and sort and slice(0, n).
Foremost(S, n) == {x \in S : Cardinality({y \in S : y < x}) < n}

Active(f) == {c \in CVEs : assoc[f][c] = "ACTIVE"}
Holders(c) == {f \in Findings : assoc[f][c] = "ACTIVE"}

\* The attached CVEs a score reads.  Nothing limits how many are attached.
Scored(f) == Foremost(Active(f), MaxCves)

\* The rows under the unique activeJobKey of a CVE.
ActiveJobs(c) == {j \in JobIds : jobs[j].cve = c /\ jobs[j].status = "PENDING"}

Completed(c) == {j \in JobIds : jobs[j].cve = c /\ jobs[j].status = "COMPLETED"}

\* findLatestProviderResults: the answer asked for last, of a completed job only.
Latest(c) ==
    {j \in Completed(c) : \A k \in Completed(c) :
        \/ jobs[k].queriedAt < jobs[j].queriedAt
        \/ (jobs[k].queriedAt = jobs[j].queriedAt /\ k <= j)}

\* From the query to the expiry: an answer is not yet known to who reads as of before it.
FreshAt(j, asOf) ==
    /\ jobs[j].queriedAt <= asOf
    /\ asOf < jobs[j].queriedAt + Ttl[jobs[j].answer]

\* Only a successful answer influences a score; a fresh failure only spares a lookup.
Evidence(c, asOf) ==
    LET usable == {j \in Latest(c) : FreshAt(j, asOf) /\ jobs[j].answer # Failed}
    IN  IF usable = {} THEN "unknown" ELSE jobs[CHOOSE j \in usable : TRUE].answer

RiskInput(f, asOf) ==
    [c \in CVEs |-> IF c \in Scored(f) THEN Evidence(c, asOf) ELSE "absent"]

-----------------------------------------------------------------------------
(* Scores. *)

\* An answer is stored that this instant is too early for.
TooEarly(c, asOf) == \E j \in Latest(c) : asOf < jobs[j].queriedAt
Behind(f, asOf) == \E c \in Scored(f) : TooEarly(c, asOf)

\* The rescore would take fresh evidence out of the score again.
Forgets(f, asOf) ==
    \E c \in Scored(f) :
        /\ Evidence(c, clock) # "unknown"
        /\ score[f].input[c] = Evidence(c, clock)
        /\ Evidence(c, asOf) = "unknown"

\* calculateAndPersistRisk: the same input leaves the row as it is.
Rescore(f, asOf, early) ==
    LET input == RiskInput(f, asOf)
    IN  /\ score' = IF score[f].asOf # Never /\ score[f].input = input
                    THEN score
                    ELSE [score EXCEPT ![f] = [asOf |-> asOf, input |-> input]]
        /\ excused' = IF ~Behind(f, asOf) THEN excused \ {f}
                      ELSE IF early \/ Forgets(f, asOf) THEN excused \cup {f}
                      ELSE excused

Fails == failures < MaxFailures /\ failures' = failures + 1

-----------------------------------------------------------------------------
(* Requests. *)

\* A request captures its instant and, to schedule by hand, needs a CVE that is known.
BeginRequest(r) ==
    /\ req[r].pc = "idle"
    /\ \E kind \in Kinds, f \in Findings, c \in CVEs :
          /\ kind \in {"REFRESH", "FORCE"} => assoc[f][c] # "NONE"
          /\ req' = [req EXCEPT ![r] =
                [pc |-> CASE kind \in {"ATTACH", "REMOVE"} -> "changing"
                          [] kind = "RESCORE" -> "rescoring"
                          [] kind = "REFRESH" -> "scheduling"
                          [] kind = "FORCE" -> "looking",
                 kind |-> kind, cve |-> c, asOf |-> clock,
                 finding |-> IF kind \in {"REFRESH", "FORCE"} THEN NoFinding ELSE f]]
    /\ UNCHANGED <<clock, assoc, jobs, score, batch, failures, excused>>

Goes(r, pc) == req' = [req EXCEPT ![r].pc = pc]
Ends(r) == req' = [req EXCEPT ![r] = [NewRequest EXCEPT !.pc = "done"]]

\* The retraction of c lets a CVE be read that was attached beyond the cap, and will score it
\* as of an instant that is too early for its answer.
LetsInUnread(f, c, asOf) ==
    \E d \in Foremost(Active(f) \ {c}, MaxCves) \ Scored(f) : TooEarly(d, asOf)

\* Slip: a retraction schedules nothing, so nothing is scored for it either.
ChangeAssociationUnscored(r) ==
    LET q == req[r]
        current == assoc[q.finding][q.cve]
        target == IF q.kind = "ATTACH" THEN "ACTIVE" ELSE "REMOVED"
    IN  /\ q.pc = "changing"
        /\ IF current = target \/ (current = "NONE" /\ target = "REMOVED")
           THEN Ends(r) /\ UNCHANGED <<assoc, excused>>
           ELSE /\ assoc' = [assoc EXCEPT ![q.finding][q.cve] = target]
                /\ IF q.kind = "ATTACH" THEN Goes(r, "scheduling") ELSE Ends(r)
                /\ excused' = IF LetsInUnread(q.finding, q.cve, q.asOf)
                              THEN excused \cup {q.finding} ELSE excused
        /\ UNCHANGED <<clock, jobs, score, batch, failures>>

\* attachCve and removeCve: nothing to do when the pair already is in the state asked
\* for, or when there is nothing to retract.
ChangeAssociation(r) ==
    LET q == req[r]
        current == assoc[q.finding][q.cve]
        target == IF q.kind = "ATTACH" THEN "ACTIVE" ELSE "REMOVED"
    IN  /\ q.pc = "changing"
        /\ IF current = target \/ (current = "NONE" /\ target = "REMOVED")
           THEN Ends(r) /\ UNCHANGED <<assoc, excused>>
           ELSE /\ assoc' = [assoc EXCEPT ![q.finding][q.cve] = target]
                /\ Goes(r, IF q.kind = "ATTACH" THEN "scheduling" ELSE "rescoring")
                /\ excused' = IF LetsInUnread(q.finding, q.cve, q.asOf)
                              THEN excused \cup {q.finding} ELSE excused
        /\ UNCHANGED <<clock, jobs, score, batch, failures>>

\* An attachment is scored whatever became of the scheduling.
Scheduled(r) == IF req[r].kind = "ATTACH" THEN Goes(r, "rescoring") ELSE Ends(r)

\* Slip: an answer counts as cached until it expires, whenever it was asked for.
CheckCacheByExpiry(r) ==
    /\ req[r].pc = "scheduling"
    /\ IF \E j \in Latest(req[r].cve) : req[r].asOf < jobs[j].queriedAt + Ttl[jobs[j].answer]
       THEN Scheduled(r)
       ELSE Goes(r, "looking")
    /\ UNCHANGED <<clock, assoc, jobs, score, batch, failures, excused>>

\* A forced refresh skips this step.
CheckCache(r) ==
    /\ req[r].pc = "scheduling"
    /\ IF \E j \in Latest(req[r].cve) : FreshAt(j, req[r].asOf)
       THEN Scheduled(r)
       ELSE Goes(r, "looking")
    /\ UNCHANGED <<clock, assoc, jobs, score, batch, failures, excused>>

FindActiveJob(r) ==
    /\ req[r].pc = "looking"
    /\ IF ActiveJobs(req[r].cve) # {} THEN Scheduled(r) ELSE Goes(r, "creating")
    /\ UNCHANGED <<clock, assoc, jobs, score, batch, failures, excused>>

\* The unique key refuses a second active job, and the scheduling looks again.
CreateJob(r) ==
    LET q == req[r]
    IN  /\ q.pc = "creating"
        /\ \/ /\ ActiveJobs(q.cve) # {}
              /\ Goes(r, IF q.kind = "FORCE" THEN "looking" ELSE "scheduling")
              /\ UNCHANGED jobs
           \/ /\ ActiveJobs(q.cve) = {}
              /\ \E j \in JobIds :
                    /\ jobs[j].status = "NONE"
                    /\ \A k \in JobIds : k < j => jobs[k].status # "NONE"
                    /\ jobs' = [jobs EXCEPT ![j] = [NewJob EXCEPT
                          !.cve = q.cve, !.status = "PENDING", !.requestedAt = q.asOf]]
              /\ Scheduled(r)
        /\ UNCHANGED <<clock, assoc, score, batch, failures, excused>>

\* scheduleSafely swallows the failure.
ScheduleFails(r) ==
    /\ req[r].pc \in {"scheduling", "looking", "creating"}
    /\ Fails
    /\ Scheduled(r)
    /\ excused' = IF req[r].kind = "ATTACH" THEN excused \cup {req[r].finding} ELSE excused
    /\ UNCHANGED <<clock, assoc, jobs, score, batch>>

RescoreRequested(r) ==
    /\ req[r].pc = "rescoring"
    /\ Rescore(req[r].finding, req[r].asOf, FALSE)
    /\ Ends(r)
    /\ UNCHANGED <<clock, assoc, jobs, batch, failures>>

\* The rescore is given up, or the process dies, at any step that follows a commit.
LoseRequest(r) ==
    /\ req[r].pc \in {"scheduling", "looking", "creating", "rescoring"}
    /\ Fails
    /\ Ends(r)
    /\ excused' = IF req[r].kind \in {"ATTACH", "REMOVE"}
                  THEN excused \cup {req[r].finding} ELSE excused
    /\ UNCHANGED <<clock, assoc, jobs, score, batch>>

-----------------------------------------------------------------------------
(* Batches. *)

Moves(b, fields) == batch' = [batch EXCEPT ![b] = fields]

\* The instant of a batch is captured before it lists anything.
OpenBatch(b) ==
    /\ batch[b].pc = "idle"
    /\ Moves(b, [batch[b] EXCEPT !.pc = "opening", !.now = clock])
    /\ UNCHANGED <<clock, assoc, jobs, score, req, failures, excused>>

Unleased(j, now) == jobs[j].token = NoToken \/ jobs[j].lease <= now
Due(j, now) == jobs[j].next <= now

Candidates(now) ==
    {j \in JobIds : jobs[j].status = "PENDING" /\ Unleased(j, now) /\ Due(j, now)}

\* The queue order: the instant a job was asked for, then its id.
Before(j, k) ==
    \/ jobs[j].requestedAt < jobs[k].requestedAt
    \/ (jobs[j].requestedAt = jobs[k].requestedAt /\ j < k)

\* listPendingCandidates, with the attempts each candidate had when it was listed.
ListCandidates(b) ==
    LET listed == Candidates(batch[b].now)
        page == {j \in listed : Cardinality({k \in listed : Before(k, j)}) < BatchSize}
    IN  /\ batch[b].pc = "opening"
        /\ Moves(b, [batch[b] EXCEPT !.pc = "picking",
                        !.todo = {[id |-> j, attempts |-> jobs[j].attempts] : j \in page}])
        /\ UNCHANGED <<clock, assoc, jobs, score, req, failures, excused>>

FirstOf(b, t) == \A u \in batch[b].todo : u = t \/ Before(t.id, u.id)

\* The CVE of every job this batch completed is rescored when it is through.
Finishes(b, done) ==
    Moves(b, [NewBatch EXCEPT !.pc = IF done = {} THEN "done" ELSE "listing",
                              !.now = batch[b].now, !.completed = done])

Buried(j) == [jobs[j] EXCEPT !.status = "DEAD_LETTER", !.token = NoToken, !.lease = 0, !.next = 0]

\* claimPendingJob, by the row as it is now; a claim that fails is passed over.
Claim(b, t) ==
    LET now == batch[b].now
        job == jobs[t.id]
        rest == batch[b].todo \ {t}
    IN  /\ t.attempts < MaxAttempts
        /\ \/ /\ job.status = "PENDING" /\ job.attempts < MaxAttempts
              /\ Unleased(t.id, now) /\ Due(t.id, now)
              /\ jobs' = [jobs EXCEPT ![t.id] = [job EXCEPT
                    !.token = b, !.lease = now + LeaseTime, !.lastAttemptAt = now,
                    !.attempts = job.attempts + 1]]
              /\ Moves(b, [batch[b] EXCEPT !.pc = "calling", !.job = t.id, !.todo = rest])
           \/ /\ \/ job.status # "PENDING" \/ job.attempts >= MaxAttempts
                 \/ ~Unleased(t.id, now) \/ ~Due(t.id, now)
              /\ Moves(b, [batch[b] EXCEPT !.todo = rest])
              /\ UNCHANGED jobs

\* sweepExhaustedCandidate: a candidate listed without attempts left is retired, unless a
\* claim holds it by now.
SweepExhausted(b, t) ==
    LET job == jobs[t.id]
    IN  /\ t.attempts >= MaxAttempts
        /\ jobs' = IF /\ job.status = "PENDING" /\ job.attempts >= MaxAttempts
                      /\ Unleased(t.id, batch[b].now)
                   THEN [jobs EXCEPT ![t.id] = Buried(t.id)] ELSE jobs
        /\ Moves(b, [batch[b] EXCEPT !.todo = batch[b].todo \ {t}])

\* Findings whose evidence will not come any more.
GivenUp(j) == excused' = IF jobs'[j].status = "DEAD_LETTER" /\ jobs[j].status = "PENDING"
                         THEN excused \cup Holders(jobs[j].cve) ELSE excused

NextCandidate(b) ==
    /\ batch[b].pc = "picking"
    /\ \E t \in batch[b].todo :
          /\ FirstOf(b, t)
          /\ Claim(b, t) \/ SweepExhausted(b, t)
          /\ GivenUp(t.id)
    /\ UNCHANGED <<clock, assoc, score, req, failures>>

EndOfCandidates(b) ==
    /\ batch[b].pc = "picking"
    /\ batch[b].todo = {}
    /\ Finishes(b, batch[b].completed)
    /\ UNCHANGED <<clock, assoc, jobs, score, req, failures, excused>>

Answer(b) ==
    /\ batch[b].pc = "calling"
    /\ \E answer \in Answers :
          Moves(b, [batch[b] EXCEPT !.pc = "answered", !.answer = answer])
    /\ UNCHANGED <<clock, assoc, jobs, score, req, failures, excused>>

\* Slip: the end of a job is guarded by its status alone.
HoldsByStatus(b) == jobs[batch[b].job].status = "PENDING"

Holds(b) == jobs[batch[b].job].status = "PENDING" /\ jobs[batch[b].job].token = b

\* What follows a job, whether or not the claim still was the batch's to conclude.
Picks(b, done) == Moves(b, [batch[b] EXCEPT !.pc = "picking", !.job = 0, !.answer = Failed,
                                            !.completed = done])

Released(j, now, attempts) ==
    [jobs[j] EXCEPT !.token = NoToken, !.lease = 0, !.next = now + Delay, !.attempts = attempts]

\* completeClaimedJob: the answers of all providers and the end of the job, or neither.
WithAnswer(b) ==
    [jobs EXCEPT ![batch[b].job] = [jobs[batch[b].job] EXCEPT
        !.status = "COMPLETED", !.token = NoToken, !.lease = 0, !.next = 0,
        !.queriedAt = batch[b].now, !.answer = batch[b].answer]]

CompleteJob(b) ==
    /\ batch[b].pc = "answered"
    /\ IF Holds(b)
       THEN /\ jobs' = WithAnswer(b)
            /\ Picks(b, batch[b].completed \cup {jobs[batch[b].job].cve})
       ELSE UNCHANGED jobs /\ Picks(b, batch[b].completed)
    /\ UNCHANGED <<clock, assoc, score, req, failures, excused>>

\* The completion fails, or commits unheard; either way the claim is left to expire.
CompletionError(b) ==
    /\ batch[b].pc = "answered"
    /\ Fails
    /\ \/ UNCHANGED <<jobs, excused>>
       \/ /\ Holds(b)
          /\ jobs' = WithAnswer(b)
          /\ excused' = excused \cup Holders(jobs[batch[b].job].cve)
    /\ Picks(b, batch[b].completed)
    /\ UNCHANGED <<clock, assoc, score, req>>

\* A provider that throws, or answers for another CVE, costs the attempt.
AttemptFails(b) ==
    LET j == batch[b].job
    IN  /\ batch[b].pc = "calling"
        /\ jobs' = IF ~Holds(b) THEN jobs
                   ELSE [jobs EXCEPT ![j] = IF jobs[j].attempts >= MaxAttempts
                            THEN Buried(j)
                            ELSE Released(j, batch[b].now, jobs[j].attempts)]
        /\ GivenUp(j)
        /\ Picks(b, batch[b].completed)
        /\ UNCHANGED <<clock, assoc, score, req, failures>>

\* The caller cancels: the job at hand is released with its attempt refunded, and what was
\* completed before is rescored still.
Cancel(b) ==
    LET j == batch[b].job
    IN  /\ batch[b].pc \in {"picking", "calling", "answered"}
        /\ batch[b].pc = "picking" => batch[b].todo # {}
        /\ jobs' = IF batch[b].pc # "picking" /\ Holds(b)
                   THEN [jobs EXCEPT ![j] = Released(j, batch[b].now, jobs[j].attempts - 1)]
                   ELSE jobs
        /\ Finishes(b, batch[b].completed)
        /\ UNCHANGED <<clock, assoc, score, req, failures, excused>>

\* listFindingIdsWithActiveAssociation, for one completed CVE: the lowest ids only.  What was
\* listed for all of them is cut again before any is rescored.
ListFindings(b) ==
    /\ batch[b].pc = "listing"
    /\ \E c \in batch[b].completed :
          LET rest == batch[b].completed \ {c}
              listed == batch[b].ids \cup Foremost(Holders(c), HookLimit)
              selected == IF rest = {} THEN Foremost(listed, TriggerLimit) ELSE listed
          IN  /\ Moves(b, [batch[b] EXCEPT !.completed = rest, !.ids = selected,
                              !.pc = IF rest = {} THEN "rescoring" ELSE "listing"])
              /\ excused' = excused \cup ((batch[b].ids \cup Holders(c)) \ selected)
    /\ UNCHANGED <<clock, assoc, jobs, score, req, failures>>

RescoreListed(b) ==
    /\ batch[b].pc = "rescoring"
    /\ \E f \in batch[b].ids :
          /\ \A g \in batch[b].ids : f <= g
          /\ Rescore(f, batch[b].now, TRUE)
          /\ Moves(b, [batch[b] EXCEPT !.ids = batch[b].ids \ {f}])
    /\ UNCHANGED <<clock, assoc, jobs, req, failures>>

\* A rescore that fails is counted, and the next follows.
RescoreListedFails(b) ==
    /\ batch[b].pc = "rescoring"
    /\ Fails
    /\ \E f \in batch[b].ids :
          /\ \A g \in batch[b].ids : f <= g
          /\ Moves(b, [batch[b] EXCEPT !.ids = batch[b].ids \ {f}])
          /\ excused' = excused \cup {f}
    /\ UNCHANGED <<clock, assoc, jobs, score, req>>

EndOfBatch(b) ==
    /\ batch[b].pc = "rescoring"
    /\ batch[b].ids = {}
    /\ Moves(b, [NewBatch EXCEPT !.pc = "done"])
    /\ UNCHANGED <<clock, assoc, jobs, score, req, failures, excused>>

\* The process dies, or the listing of findings fails and ends the hook: a claim stays
\* until its lease expires, and nobody else rescores for what was completed.
LoseBatch(b) ==
    /\ batch[b].pc \in BatchPCs \ {"idle", "done"}
    /\ Fails
    /\ Moves(b, [NewBatch EXCEPT !.pc = "done"])
    /\ excused' = excused \cup batch[b].ids \cup UNION {Holders(c) : c \in batch[b].completed}
    /\ UNCHANGED <<clock, assoc, jobs, score, req>>

Tick ==
    /\ clock < MaxTime
    /\ clock' = clock + 1
    /\ UNCHANGED <<assoc, jobs, score, req, batch, failures, excused>>

-----------------------------------------------------------------------------
\* What was attached before has been scored, and no lookup of it could be scheduled.
Init ==
    /\ clock = 0
    /\ \E attached \in Beginnings :
          assoc = [f \in Findings |-> [c \in CVEs |->
                      IF c \in attached[f] THEN "ACTIVE" ELSE "NONE"]]
    /\ jobs = [j \in JobIds |-> NewJob]
    /\ score = [f \in Findings |-> IF Active(f) = {} THEN NoScore
                                  ELSE [asOf |-> 0, input |-> RiskInput(f, 0)]]
    /\ req = [r \in Requests |-> NewRequest]
    /\ batch = [b \in Batches |-> NewBatch]
    /\ failures = 0
    /\ excused = {}

RequestStep(r) ==
    \/ BeginRequest(r) \/ ChangeAssociation(r) \/ CheckCache(r) \/ FindActiveJob(r)
    \/ CreateJob(r) \/ ScheduleFails(r) \/ RescoreRequested(r) \/ LoseRequest(r)

BatchStep(b) ==
    \/ OpenBatch(b) \/ ListCandidates(b) \/ NextCandidate(b) \/ EndOfCandidates(b)
    \/ Answer(b) \/ CompleteJob(b) \/ CompletionError(b) \/ AttemptFails(b) \/ Cancel(b)
    \/ ListFindings(b) \/ RescoreListed(b) \/ RescoreListedFails(b) \/ EndOfBatch(b) \/ LoseBatch(b)

Next ==
    \/ \E r \in Requests : RequestStep(r)
    \/ \E b \in Batches : BatchStep(b)
    \/ Tick

Spec == Init /\ [][Next]_vars

-----------------------------------------------------------------------------
(* Properties. *)

Job == [cve : CVEs, status : {"NONE", "PENDING", "COMPLETED", "DEAD_LETTER"},
        requestedAt : Nat, token : Batches \cup {NoToken}, lease : Nat, attempts : 0..MaxAttempts,
        next : Nat, lastAttemptAt : Nat \cup {Never}, queriedAt : Nat \cup {Never},
        answer : Answers]

\* The type of every variable.
TypeOK ==
    /\ clock \in 0..MaxTime
    /\ assoc \in [Findings -> [CVEs -> {"NONE", "ACTIVE", "REMOVED"}]]
    /\ jobs \in [JobIds -> Job]
    /\ score \in [Findings -> [asOf : Nat \cup {Never}, input : [CVEs -> Readings]]]
    /\ req \in [Requests -> [pc : RequestPCs, kind : Kinds,
                             finding : Findings \cup {NoFinding}, cve : CVEs, asOf : Nat]]
    /\ batch \in [Batches -> [pc : BatchPCs, now : Nat,
                              todo : SUBSET [id : JobIds, attempts : 0..MaxAttempts],
                              job : JobIds \cup {0}, answer : Answers,
                              completed : SUBSET CVEs, ids : SUBSET Findings]]
    /\ failures \in 0..MaxFailures
    /\ excused \subseteq Findings

\* A request is on its way to score the finding again.
ScoresNext(r, f) ==
    /\ req[r].finding = f
    /\ \/ req[r].pc = "rescoring"
       \/ req[r].kind = "ATTACH" /\ req[r].pc \in {"scheduling", "looking", "creating"}

\* However attachments, retractions and rescores of a finding interleave, its score names
\* exactly the first MaxCves of those attached to it, once nobody is left who will score it again:
\* each change is scored after it committed, and by the associations of that moment.
ScoreNamesItsCves ==
    \A f \in Findings :
        \/ {c \in CVEs : score[f].input[c] # "absent"} = Scored(f)
        \/ f \in excused
        \/ \E r \in Requests : ScoresNext(r, f)

\* Somebody will score f with the answer of job j: a request, whose instant is not before
\* the answer or that has yet to schedule; a job still to be done; or the batch's hook.
RescoreOwed(f, c, j) ==
    \/ \E r \in Requests :
          /\ ScoresNext(r, f)
          /\ \/ req[r].pc = "rescoring" /\ req[r].asOf >= jobs[j].queriedAt
             \/ req[r].pc # "rescoring" /\ req[r].cve = c
    \/ ActiveJobs(c) # {}
    \/ \E b \in Batches : c \in batch[b].completed \/ f \in batch[b].ids

\* Fresh evidence on a CVE that is scored reaches the score, unless a failure or a death
\* lost the rescore, a rescore as of an earlier instant took the evidence out again or a
\* retraction as of one let the CVE in, the finding was past a limit of the hook, or the
\* last job was retired.  This is what the freshness test, which also refuses an answer
\* younger than the instant it is asked for, the order of completion and listing, and the
\* unique active job achieve together.
EvidenceReachesScores ==
    \A f \in Findings : \A c \in Scored(f) : \A j \in Latest(c) :
        \/ ~FreshAt(j, clock)
        \/ score[f].input[c] = Evidence(c, clock)
        \/ f \in excused
        \/ RescoreOwed(f, c, j)

\* The answers a completed job stores were asked for in its last attempt: a batch whose
\* claim was taken over can neither store its answer nor give the attempt of another back.
AnswerOfTheLastAttempt ==
    \A j \in JobIds : /\ jobs[j].status = "COMPLETED" => jobs[j].queriedAt = jobs[j].lastAttemptAt
                      /\ jobs[j].token # NoToken => jobs[j].attempts > 0

-----------------------------------------------------------------------------
(* What comments of the code say and these steps do not keep. *)

\* The cap keeps no verdict out of a score: what is known of a CVE beyond it the score knows
\* of another that it reads.
CapSparesTheScore ==
    \A f \in Findings : \A c \in Active(f) : \A j \in Latest(c) :
        \/ Evidence(c, clock) = "unknown"
        \/ \E d \in Scored(f) : score[f].input[d] = Evidence(c, clock)
        \/ f \in excused
        \/ RescoreOwed(f, c, j)

\* A rescore never replaces a score that knows fresh evidence by one that does not, while
\* the association and the evidence both stand.
FreshEvidenceStays ==
    [][\A f \in Findings : \A c \in Scored(f) \cap Scored(f)' :
          (score'[f] # score[f] /\ Evidence(c, clock) # "unknown"
             /\ score[f].input[c] = Evidence(c, clock))
          => score'[f].input[c] = Evidence(c, clock)]_vars
=============================================================================
