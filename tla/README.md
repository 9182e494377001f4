# A verification project for ThreatNeXus

ThreatNeXus is a Node/Express backend over Prisma and PostgreSQL (with a React
frontend) in which analysts follow findings about exposed hosts, indicators and
vulnerabilities.  The parts of it that carry the behaviour hardest to test are modelled here:

- the **direct enrichment runner**, where several worker processes ask external providers
  about a subject, against a daily budget, and must not ask the same question twice;
- the **IOC queue**, whose rows are worked off by an administrator's batch and by targeted
  worker passes at once, and which a charged call must end;
- the **enrichment runs**, where requests of one key converge on one run without any
  transaction, and a run must be reported finished when its work is;
- the **ownership of findings**, derived again by sweeps while the registry, the findings
  and the analysts' overrides change;
- the **CVE queue** and the scores it feeds, where every process works as of the
  instant at which it started;
- the **risk score** of a finding, a sum over tables whose inputs several requests change
  before any of them rescores;
- the **framework mappings** of a case and the **AI suggestions** for them, where two
  tables exclude each other and evidence moves under a decision;
- the **ingestion of reports**, where uploads of one file race, fail, die and are
  retried, and must leave each finding with exactly the evidence of its reports;
- the **case workflow**, where analysts, reviewers and ingestions act on the same
  cases, and a closure must be the decision of a second person about fixed evidence;
- the **notification workflow**, where what leaves the system must be what a second
  person approved, whatever was edited, rejected or submitted again on the way.

The other parts are inventoried below.

Every module is written from the JavaScript under `backend/src`; each definition's
lines are named in `PROJECT.json` under `map`.

## 1. The system's parts

Paths are relative to `backend/src`.

| part | state it keeps | operations | what is hard |
|---|---|---|---|
| **Direct enrichment execution** (`services/enrichmentOrchestration/enrichmentWorker.js`, `enrichmentDirectExecutionService.js`, `enrichmentQuotaService.js`, `enrichmentOrchestrationRepository.js`) | `ProviderLookupJob`, `ProviderLookupAttempt`, `ProviderDailyUsage` rows | claim, reserve, mark, call, record, recover an expired lease, sweep a stale attempt | several processes, no lock held across the provider call, crashes at any statement, leases, a budget |
| **Targeted IOC execution** (`enrichmentTargetedIocService.js`, `enrichmentReconciliationService.js`, worker) | the same job rows, executed through an `IocEnrichment` row | create delegate, claim, reserve, contact and hold, call, settle, reconcile from the delegate, sweep | three records of one question (attempt, job, row) that must agree; the ADMIN batch works on the same rows |
| **Enrichment runs** (`enrichmentRunService.js`) | `EnrichmentRun`, `EnrichmentRunItem` rows | create or attach, materialise items, link to jobs, refresh, reconcile, summarise | idempotency under a race of two requests; a run state derived from jobs that move meanwhile |
| **IOC enrichment queue** (`services/enrichment`) | `IocEnrichment` rows: cache and queue in one table | enqueue, claim, complete, release, dead-letter, retry, cancel | lease expiry, refunded attempts, exhausted rows nobody may claim |
| **CVE associations and the vulnerability queue** (`services/vulnerability`) | `FindingVulnerability`, `VulnerabilityEnrichmentJob` and result rows | attach, remove, schedule, claim, complete, release, retire, rescore the findings concerned | leases that expire under a call, answers that arrive between a change and its rescore |
| **Exposure and reputation providers** (`services/exposure`, `services/reputation`) | none (HTTP clients) | lookup | bounded response bodies, status mapping |
| **Report ingestion and finding spine** (`services/ingestion`, `services/normalization`) | `RawReport`, `RawReportRow`, `Finding`, `FindingOccurrence` rows | identify a file, create its report, begin, store rows, observe findings, finish or fail, hand recurrences over | concurrent uploads of one file, failures and deaths between statements, reports out of order, replays |
| **Findings** (`services/findings`) | none (queries) | list, read | not protocol logic |
| **Ownership** (`services/ownership`) | `AssetMapping`, `FindingOwnership` rows | create, change and disable mappings, resolve, override, clear, sweep by pages | sweeps of several mutations interleave with reports and overrides; the registry is written outside the transactions that read it; a cursor over two sources |
| **Risk** (`services/risk`) | `RiskScore` rows | read the inputs as of an instant, recognise that they are unchanged, score, recompute by request, by batch and after every change | a score is replaced by one made as of an earlier instant; an unchanged score must still be explained; boundaries of the tables |
| **Case workflow** (`services/workflow`) | `Case`, `CaseLifecycleEvent`, `CaseClosureRequest`, `CaseOrganizationResponse`, `CaseFinding`, `FindingTriage`, `CaseRecurrenceReopen` rows | create, change state, request closure, approve, reject, reopen, respond, link, unlink, triage, reopen by recurrence | separation of duties, decisions on state read before the transaction, recurrences racing with people |
| **Notifications** (`services/notification`) | `Notification`, `NotificationRevision`, `NotificationLifecycleEvent`, `NotificationExport`, `NotificationDeliveryEvent` rows | draft from a case, edit, submit, approve, reject, export, record a delivery | approval of what was reviewed and not of a later edit; edits merged over a stale revision; a delivery that is about an older revision |
| **Framework mapping and AI assistance** (`services/framework`, `services/ai`, `services/aiAssist`) | `CaseFrameworkMapping`, `CaseFrameworkNoMappingAssertion`, suggestion and decision rows | map, remove, determine, withdraw, suggest, approve, reject, accept, expire | exclusion between two tables; a decision on a suggestion whose evidence has moved; two decisions at once |
| **Auth, roles, rate limit, audit** (`middleware`, `services/auditService.js`) | sessions (stateless tokens), counters, audit rows | authenticate, authorise, limit, record | counters at their limits |
| **Dashboard, controllers, routes, frontend, scripts, eval** | views and requests | read and render | not protocol logic |

How they interact: an analyst's request creates an enrichment run over one finding.
The run materialises an item for each provider and indicator and links every eligible
item to the open job of that subject, creating the job if none is open
(`activeLookupKey` is unique).  Workers poll the job rows.  A job is answered either
directly (the provider is called by the worker) or through a delegate `IocEnrichment`
row, which an administrator's batch may answer as well.  When jobs settle, the runs that
link them are refreshed.  An upload of a report observes findings, which may close and be
reopened by a later sighting, resolves their ownership, and at its end hands each
recurrence to the case workflow, which reopens the closed cases the finding is evidence in.
Ownership decides which organization's cases a finding may be linked to.  A CVE attached to
a finding is looked up through the vulnerability queue, and whatever changes about a finding
is followed by a new score.  The mappings and suggestions of a case are made from the findings
linked to it, their triage, scores and CVEs.  A notification is drafted from a case and
from then on lives by itself.
All of it communicates through PostgreSQL rows only: there is no in-memory queue and no lock outside a single
statement or transaction, so the unit of atomicity of every model is one statement
(`updateMany` with a guard) or one `$transaction`.

## 2. Modules

| module | what it is |
|---|---|
| `LookupPromise` | the abstract specification: a question is open for at most one job, asked at most once, settled once, and answered only if asked |
| `DirectLookup` | the direct path in full: rows, workers, provider calls, crashes, the clock |
| `DirectLookupProofs` | TLAPS proofs about `DirectLookup`, for all parameters |
| `CaseWorkflow` | triage, cases, closure under review, responses, evidence links, reopening by recurrence |
| `CaseWorkflowProofs` | TLAPS proofs about `CaseWorkflow` |
| `ReportIngestion` | uploads, reports, row evidence, findings and their occurrences |
| `IngestionAndRunsProofs` | TLAPS proofs about `ReportIngestion` and about `EnrichmentRuns` |
| `NotificationReview` | the revisions, reviews, exports and deliveries of one notification |
| `NotificationAndRiskProofs` | TLAPS proofs about `NotificationReview` and about `RiskSnapshots` |
| `DelegatedLookup` | the rows of one cache key of the IOC queue, the delegated jobs on them, targeted passes and batches |
| `DelegatedLookupProofs` | TLAPS proofs about `DelegatedLookup` |
| `EnrichmentRuns` | runs, items and the jobs they share, requests and workers that refresh |
| `OwnershipResolution` | the registry, the owner of each finding, sweeps, overrides |
| `OwnershipResolutionProofs` | TLAPS proofs about `OwnershipResolution` |
| `VulnerabilityScoring` | CVE associations, their queue and batches, and the scores that know of them |
| `VulnerabilityScoringProofs` | TLAPS proofs about `VulnerabilityScoring` |
| `RiskSnapshots` | the inputs, factors and score of one finding, and the requests that change and rescore it |
| `FrameworkReview` | mappings, determinations and suggestions of one case |
| `FrameworkReviewProofs` | TLAPS proofs about `FrameworkReview` |
| `MC`*module* | for each of the ten modules, the small instances TLC checks |

`EnrichmentRuns` and `RiskSnapshots` are proved about in a module that extends a second
component as well, so their `Init`, `Next`, `Spec`, `TypeOK` and the like carry a prefix (`RunInit`,
`ScoreSpec`, ...).  The two components of such a module share no variable and no theorem.

The modules meet at the values they leave to each other.  `EnrichmentRuns` lets its jobs
settle as `DirectLookup` and `DelegatedLookup` show that they do; `CaseWorkflow` lets the
owner of a finding change as `OwnershipResolution` may change it, and lets a
recurrence arrive as `ReportIngestion` hands it over; `FrameworkReview` lets links and
evidence change as `CaseWorkflow` and `VulnerabilityScoring` do.  `RiskSnapshots` lets a finding be
observed, its owner be changed and its indicator and CVEs be looked up by requests that are
one step of what `ReportIngestion`, `OwnershipResolution`, `DelegatedLookup` and
`VulnerabilityScoring` describe in full, and has the arithmetic that those leave out.

### DirectLookup: state and actions

| variable | code |
|---|---|
| `job` | `ProviderLookupJob`: state, activeLookupKey, claimToken, leaseExpiresAt, attemptCount, queriedAt, terminalReasonCode |
| `att` | `ProviderLookupAttempt`, keyed by job and attemptNumber: state, contactedProvider, outcome, usageDate, and the age of `reservedAt` |
| `usage` | `ProviderDailyUsage.reservedCount` by bucket (provider, lane) and day |
| `wk` | what a worker process holds in local variables between two statements: its job, the token, the day of `reserveAt`, what it read |
| `calls` | history of the provider calls that left a process, with their day (not stored by the code) |
| `day`, `crashes` | the UTC day, and a bound on crashes |

| action | code |
|---|---|
| `CreateLookupJob` | `resolveEligibleTarget` creating a job when no open job holds the subject's key |
| `ClaimLookupJob` | `claimLookupJob`: guarded update to LEASED, attemptCount + 1, fresh token and lease |
| `SkipNotConfigured` | the credential check before anything is charged |
| `ReadReserveAt` | `const reserveAt = nowFn()`: the instant whose day the reservation will charge |
| `ReserveGranted`, `ReserveRefused` | `reserveProviderQuota`: conditional increment and ledger row in one transaction, or a refusal |
| `RefuseClaimedJobForBudget` | terminal SKIPPED_BUDGET with the attempt refunded |
| `MarkAttemptInFlight` | `markAttemptInFlight`; its result is not looked at |
| `StartLookup`, `LookupReturns`, `LookupThrows` | `lookupWithBound` around the provider call |
| `RecordAnswer` | the post-call transaction, rolled back unless both guards match |
| `RecordAmbiguous` | the ambiguous branch: both statements guarded, neither looked at |
| `RecoverRead`, `RecoverWrite` | `recoverStaleClaims`: candidate and attempt are read, then written under the claim token |
| `SweepRead`, `SweepWrite` | `sweepStaleAttempts`: attempt read, then finalized with its job in one transaction |
| `Crash` | the process dies between two statements, or an exception aborts the tick |
| `Tick`, `Midnight` | the clock |

Abstractions, and why they lose nothing the properties tell apart:

- A worker handles one candidate at a time instead of a snapshot of a batch, and its
  passes come in any order instead of the fixed order of a tick: every interleaving
  of the code's is one of the model's.
- Time is relative.  A lease counts down, an attempt's age and a call's duration count
  up, each to its configured threshold, which is all the code ever compares.
- The claim token is a fresh UUID.  A claim also increments `attemptCount` in the same
  statement, so the ordinal of the claim names it uniquely and stands for the token.
- The daily budget of a bucket is constant during a run of the model.
- The bound on a lookup abandons the promise without cancelling it.  A late answer
  has no effect on any row, so the model lets nothing of it remain.
- The refresh of runs after a job settles is in `EnrichmentRuns`.
- `retireExhaustedDirectJob` has no action: theorem `QueueNeverStarves` shows that the
  scan that feeds it can find no row.

`Prompt` chooses between the two environments the code may live in.  With
`Prompt = FALSE` a worker may be paused for any time between any two statements (a
garbage collection, a suspended container, a slow database).  With `Prompt = TRUE`
time passes only while workers wait for a poll or for a provider: the configuration
validator keeps the lease 30 s and the stale threshold 60 s above the longest lookup
(`enrichmentOrchestrationConfig.js:240-283`), and statements are taken to be
negligible against those margins.  Midnight is an instant, which no margin keeps apart from two
statements: it may fall anywhere in both environments, between `reserveAt`, the reservation, the mark
and the call too.  Prompt workers are only spared a second midnight before the call.

### DelegatedLookup: state and actions

| variable | code |
|---|---|
| `row` | the `IocEnrichment` rows of one cache key: status, attemptCount, lease, nextAttemptAt, result freshness |
| `job` | the `ProviderLookupJob` rows with route RUN_DELEGATED |
| `att` | `ProviderLookupAttempt` by job and attemptNumber |
| `wk`, `bt` | what a worker's targeted pass, and an administrator's batch, hold in local variables |
| `calls` | history of the provider calls, with the claim each was made under |
| `unheard` | history of the jobs of which a contact or completion committed while its worker heard of an error |
| `now`, `crashes` | the clock, and a bound on crashes and failed writes |

| action | code |
|---|---|
| `Ask`, `ScheduleEnrichment`, `CreateDelegatedJob` | `establishDelegate` with `scheduleEnrichmentCore`: a fresh answer, the pending row of the key, or a new one, and the job that waits on it |
| `ListTargetedCandidate`, `ClaimTargeted` | `runTargetedPass`: the job's row is listed and taken by `claimPendingJob` |
| `RefuseBeforeLookup`, `ReserveTargeted`, `Contact` | the refusals before the call, the reservation, and `beforeLookup`: the attempt is marked and the row held in one transaction |
| `ReserveUnheard`, `ContactUnheard`, `CompletionUnheard`, `BuryFails` | the `catch` of each of these writes, and of `safeDeadLetter`: the reservation, contact or completion has committed, and the worker goes on as if it had not; the burial has not, and it goes on as if it had |
| `StartTargetedLookup`, `TargetedLookupReturns`, `TargetedLookupFails` | the call and the bound on it |
| `CompleteTargeted`, `FinalizeCompleted`, `BuryRow`, `FinalizeAbandoned`, `ReleaseAndReturn`, `SettleJob` | the row, the attempt and the job, by statements of their own |
| `ReconcileDelegatedJob` | a job is settled by what its row says |
| `SweepRead`, `SweepWrite`, `RetireHeldRow` | the sweep of stale attempts, and of the row a dead worker held |
| `ListPendingCandidate`, `SweepExhausted`, `BatchClaim` | a batch lists pending rows and takes them as of the instant at which it started |
| `BatchCancelled`, `BatchLookup`, `BatchLookupReturns`, `BatchComplete`, `BatchRetryOrBury` | its work on a row, under the token of its claim |
| `AnswerExpires`, `WorkerCrash`, `BatchCrash`, `Tick` | freshness, deaths, the clock |

`MayPause` names the places where a worker may be held up for any time; from the reservation
on its statements take no time against the stale margin.  A batch may take any time
anywhere, its calls included, which nothing bounds.  The daily budget is in `DirectLookup`.

### EnrichmentRuns: state and actions

| variable | code |
|---|---|
| `run` | `FindingEnrichmentRun`: state, and the history of the jobs that were settled when it was asked for |
| `item` | `FindingEnrichmentRunItem` by run and target: decision and job |
| `job` | `ProviderLookupJob` by target and age: state, and whether its answer is fresh |
| `rq`, `wk` | where a request and a worker stand between two statements |
| `returns`, `deaths` | bounds on leases given back and on deaths |

| action | code |
|---|---|
| `Ask`, `RouteTarget`, `FindRun`, `CreateRun`, `ListItems` | `createEnrichmentRun` up to the items that the run has |
| `ResolveTarget` (`Share`, `Skip`), `EstablishDelegate`, `CreateJob`, `ReadWinner`, `WriteItem` | `materializeItems`: an open job is shared, a fresh answer or a refusal is skipped, otherwise a job is created, or the one that won the race is read |
| `ReadItems`, `StoreState` | `refreshRunState` of a request |
| `ListRunIdsForJob`, `RefreshRead`, `RefreshStore` | the same after a job was settled |
| `ListStaleRuns` | the general pass of `reconcileRunStates` |
| `ClaimJob`, `ReturnJob`, `ExhaustJob`, `SettleJob`, `AnswerExpires` | what becomes of a job |
| `RequestFails`, `WorkerCrash` | deaths |

### OwnershipResolution: state and actions

| variable | code |
|---|---|
| `reg` | `AssetMapping`: made, enabled, organization; what a mapping covers is a constant |
| `found` | the findings that exist |
| `own` | the current `FindingOwnership` of each finding: its decision, and how many it has had |
| `req` | where a mutation, sweep, ingestion, override or clearing stands |
| `deaths`, `excused` | a bound, and the findings whose row may be stale for a known reason |

| action | code |
|---|---|
| `CreateMapping`, `ReadMapping`, `UpdateMapping`, `DisableMapping` | `assetMappingService.js` and the sweep its controller starts |
| `AskForSweep`, `ContinueSweep`, `SelectRange`, `SelectPrior`, `MergePage`, `AnswerSweep` | `runBoundedReResolution` and `ownershipCandidateSelection.js`: a page from two sources, and its cursor |
| `Ingest`, `AskForClear`, `ApplyOverride` | a reported finding, and the analyst's two requests |
| `BeginResolve`, `KeepOwnership`, `PersistOwnership`, `ConflictOnCommit` | `resolveAndPersist`: the snapshot of a SERIALIZABLE transaction, and its commit, refusal, retry and end |
| `Die` | the process dies between two statements |

`Decide` is the resolver: the best tier of the enabled mappings that cover the finding
decides, where it is of one mind.

### VulnerabilityScoring: state and actions

| variable | code |
|---|---|
| `assoc` | `FindingVulnerability`: who is attached |
| `jobs` | `VulnerabilityEnrichmentJob` with its results: status, token, lease, attempts, times, answer |
| `score` | `RiskScore`: what the score knows of each CVE, and its instant |
| `req`, `batch` | a request's and a batch's instant, and what they read |
| `clock`, `failures`, `excused` | time, a bound, and the findings whose rescore was lost, left out by a limit of the hook, or made as of too early an instant |

| action | code |
|---|---|
| `BeginRequest`, `ChangeAssociation`, `CheckCache`, `FindActiveJob`, `CreateJob`, `ScheduleFails`, `RescoreRequested` | `findingVulnerabilityService.js`: the change, the lookups it schedules and the score that follows |
| `OpenBatch`, `ListCandidates`, `NextCandidate` (`Claim`, `SweepExhausted`), `EndOfCandidates` | a batch lists and claims jobs by its own instant |
| `Answer`, `CompleteJob`, `CompletionError`, `AttemptFails`, `Cancel` | the work on one job |
| `ListFindings`, `RescoreListed`, `RescoreListedFails`, `EndOfBatch` | the hook that scores the findings of completed CVEs: so many for each CVE (`HookLimit`), and of all those so many (`TriggerLimit`) |
| `LoseRequest`, `LoseBatch`, `Tick` | deaths, failures of the database, the clock |

`Scored` are the CVEs that a score of a finding reads, the first `MaxCves` of those attached
(`vulnerabilityRiskContext.js:122-124`); nothing limits how many are attached, so a retraction lets in the next.
`Beginnings` are the associations that may have been made, and scored, before a run begins.

### RiskSnapshots: state and actions

| variable | code |
|---|---|
| `finding`, `occurrences` | `Finding` (status, first and last sighting, closed through) and its `FindingOccurrence` rows |
| `answers` | the `IocEnrichment` rows of its indicator that bear a reputation, with the instant of each lookup |
| `owner` | the columns of `FindingOwnership` that decide whether its sector counts |
| `cves` | what is known of each attached CVE: listed or not, and its EPSS score |
| `current` | the current `RiskScore` with its inputs, its `RiskFactorContribution` rows and its instant |
| `req` | where a request stands, of which kind it is, and the instant it captured |
| `clock`, `troubles`, `latest`, `excused` | the day, a bound, the instant of the last calculation, and whether a change was followed by no rescore |

| action | code |
|---|---|
| `Begin` | a request captures its instant, once |
| `Observe` | ingestion: `classifyObservation` and the columns it computes |
| `StoreAnswer`, `ReadClock` | an answer on the indicator by a batch, or by a targeted pass, which rescores only for a success |
| `ChangeOwner`, `ChangeCve` | the owner is decided again; a CVE is attached, removed or answered |
| `Rescore` (`CalculateAndPersist`) | `calculateAndPersistRisk`: one serializable transaction reads the inputs (`Inputs`), returns if they are as they were (`Fingerprint`), and otherwise stores the score with its contributions |
| `LoseRescore` | the rescore fails for good, or the process dies before it |
| `CloseFinding` | external, as in `ReportIngestion` |
| `Tick` | days pass |

The tables of `riskConfiguration.js` and the ten evaluators of `riskEngine.js` are operators;
`Inputs(asOf)` is `loadRiskInputSnapshot`.  A contribution names its basis (the days, counts and
CVEs that its explanation shows) so that two explanations of one number differ.

### FrameworkReview: state and actions

| variable | code |
|---|---|
| `mapping`, `assertion` | the current `CaseFrameworkMapping` of each reference and `CaseFrameworkNoMappingAssertion` of each framework |
| `suggestion`, `ledger` | `AiFrameworkMappingSuggestion` and `FindingAiSuggestion`, and the `AiSuggestionDecision` rows |
| `linked`, `evidence` | the findings linked to the case, and the version of what is known of each |
| `req` | what a request read before its transaction, and its snapshot |

| action | code |
|---|---|
| `BeginMapping`, `BeginRemoval`, `BeginAssertion`, `BeginWithdrawal`, `BeginSuggestion`, `BeginDecision` | the checks before a transaction |
| `ListEvidence`, `Generate`, `PersistRun`, `PersistSuggestion` | the evidence is gathered by several queries, fingerprinted, shown to the provider, and its answer stored |
| `CompareEvidence` | the fingerprint of an approval or an acceptance |
| `Read` | a SERIALIZABLE transaction takes its snapshot |
| `CreateMapping`, `RemoveMapping`, `AssertNoApplicable`, `WithdrawNoApplicable`, `Promote`, `LinkMapping`, `AcceptText`, `Reject` | its commit, with every row it appends |
| `Conflict` | the commit is refused and the transaction runs again, or the request gives up |
| `ReadExpiring`, `Expire` | the expiry of a draft, at the default isolation |
| `ChangeEvidence`, `LinkFinding`, `UnlinkFinding` | the case moves under all of this |

A commit is refused where a row it overwrites, or one it read from a table whose writers
read what it writes, is no longer what the snapshot shows: with fewer conflicts two
serializable transactions could not be put in an order, and the database may refuse more.

### CaseWorkflow: state and actions

| variable | code |
|---|---|
| `case` | `Case`: lifecycleState, closureReason, reopenedCount |
| `events` | `CaseLifecycleEvent`: the reason code and the state each transition led to |
| `request` | `CaseClosureRequest`: state, case, reason, requester, reviewer, supporting response |
| `response` | `CaseOrganizationResponse`: case and type |
| `link` | `CaseFinding`, by case and finding |
| `owner` | the effective organization of a finding's ownership, written by the ownership services |
| `triage` | the current `FindingTriage` decision |
| `ledger` | `CaseRecurrenceReopen`, by occurrence and case |
| `handler` | what a request handler or an ingestion read before the write it is about to make |

| action | code |
|---|---|
| `CreateCase`, `ChangeCaseState`, `ReopenCase` | `caseLifecycleService.js` |
| `RequestClosure`, `ApproveClosure`, `RejectClosure` | `caseClosureService.js`, each one SERIALIZABLE transaction over case, request and timeline |
| `ReadCaseForResponse`, `RecordOrganizationResponse` | `caseResponseService.js`: a read, then an insert in no transaction |
| `ReadCaseForLink`, `LinkFinding`, `UnlinkFinding` | `caseFindingLinkService.js`: the case is read before the transaction, ownership and link inside it |
| `RecordTriageDecision` | `findingTriageService.js` |
| `OwnershipChanges` | any write of the ownership services |
| `ListLinks`, `ReopenByRecurrence`, `DeclineReopen`, `PairFails` | `caseRecurrenceReopenService.js`: the links are read once, then one transaction for each pair |
| `Abandon` | the write of a handler fails for good, or its process dies |

A transaction that re-reads everything it decides on is one action: the isolation level is
SERIALIZABLE and a loser is re-run as a whole, at most five times
(`workflowTransaction.js`), after which the request fails and has changed nothing.  `Managers`
and `Reviewers` are the users who *ever* hold a capability, so that a role change between
request and review is covered.  The closure's supporting response is the latest
REMEDIATED one by its reported time, which its reporter chooses: the model lets it be any.

### ReportIngestion: state and actions

| variable | code |
|---|---|
| `report` | `RawReport.status` by digest |
| `rows` | `RawReportRow` by file: row number, finding, duplicate or not |
| `finding` | `Finding`: status, firstSeen, lastSeen, occurrenceCount, recurrenceCount, closedThroughObservedAt |
| `occurrence` | `FindingOccurrence` by finding and file: action and observedAt |
| `upload` | where an upload stands between two statements, and the recurrences it has noted |
| `offered` | history of the recurrences handed to the case workflow |
| `failures`, `crashes` | bounds, and the condition of the liveness property |

| action | code |
|---|---|
| `ReceiveUpload` | `resolveRawReportIdentity`: the digest is looked up; a processed file ends here |
| `CreateRawReport` | the insert, and the resolution of a lost race |
| `BeginProcessing` | the unguarded update to PROCESSING |
| `PersistRow` | one row of evidence, inserted or found to be there |
| `RecordFindingObservation` | the SERIALIZABLE observation of one finding, or its replay |
| `FinishReport`, `FailReport` | the last update of the report |
| `ReopenCases` | the hand-over of the recurrences, the upload's last statement |
| `Crash` | the process dies at any statement |
| `CloseFinding` | external: nothing in the repository closes a finding yet, but its columns are read |

What a file contains is a constant: the finding of each row (none if invalid) and the time
it gives.  Parsing and normalization are pure functions that produce it.

### NotificationReview: state and actions

| variable | code |
|---|---|
| `state`, `approval` | `Notification`: lifecycleState; approvedRevisionId and approvedByUserId |
| `revisions` | `NotificationRevision` by revisionNumber: content and author; the last one is current |
| `events` | `NotificationLifecycleEvent`: type, states, revision, actor |
| `exports`, `deliveries` | `NotificationExport`, `NotificationDeliveryEvent`: what each row refers to |
| `handler` | what a request read before its transaction, and what a reviewer has on the screen |

| action | code |
|---|---|
| `CreateDraftFromCase` | `notificationRevisionService.js`: the notification, its first revision and event |
| `BeginEdit`, `WriteEdit` | `editCurrentRevision`: the patch is merged and compared before the transaction, which checks the state again |
| `SubmitForReview` | `submitForReview` |
| `OpenForReview`, `Approve`, `Reject` | `notificationReviewService.js`: the page a reviewer decides on, and the decision |
| `ExportNotification` | `notificationExportService.js` with the guard `evaluateExportEligibility` |
| `BeginDelivery`, `RecordDeliveryEvent` | `notificationDeliveryService.js`: export and state are read before the transaction that inserts |
| `Abandon` | a request is refused, fails for good, or its process dies |

The five fields of a revision that are not its address are one (`text`): the code treats
them alike, and two fields are enough for one edit to miss the other.  Export checks the
checksum of the revision it has just read, which matches by the way revisions are stored.

## 3. Runs

| run | environment | shows |
|---|---|---|
| `direct_prompt` | prompt workers, 2 crashes, three jobs over two subjects | at most one call per question; calls, ledger, budget and answers agree; contacted jobs never return to the queue; dead letters give true reasons; and the runner implements `LookupPromise` |
| `direct_pauses` | fair, paused workers, 1 crash | queued jobs can be claimed, history is never rewritten, every open job settles, every reservation is finished |
| `delegated_contended` | 2 workers, 1 batch, 2 jobs on 1 row, 1 crash or failed write | a charged call ends the queueing of its row, a settled job says what its row says unless its worker never heard of its own completion, history is never rewritten |
| `runs_raced` | 2 requests under one key or two, 1 worker, 1 crash | an answered request leaves no target undecided, and nobody is given work that was over before it was asked for |
| `runs_conclude` | 2 requests under one key, fair, 1 lease given back, 1 crash | a run with work is in the end reported finished, for good |
| `ownership_raced` | 2 requests, 2 findings, 2 nested ranges and an AS number, 1 death | when nothing is under way a finding has a stale owner only for one of the named reasons, and overrides stand |
| `scoring_raced` | 2 requests, 2 batches, 2 findings, 2 CVEs of which a score reads one, 1 failure | scores name the attached CVEs up to the cap, fresh evidence reaches them, answers are those of the last attempt |
| `risk_outrun` | 2 requests of any kinds, 2 CVEs, 3 owners, 1 lost rescore | when nothing is under way the score is explained by the evidence, unchanged inputs included, and time and reports alone never lower it |
| `framework_reviewed` | 2 requests, 2 suggestions, 1 reference | mappings and determinations exclude each other, promotions and decisions agree, decisions are taken once |
| `case_review` | 1 case, 2 closure requests, 2 concurrent handlers | one review per pending case, separation of duties, a timeline that accounts for every row, links that follow ownership, human closures that stand |
| `ingest_retried` | 2 files, 2 uploads, 1 failure or crash, fair | projections equal evidence, a successful report is complete, recurrences are carried over retries, reopenings are evidenced, retries conclude |
| `notify_review` | 2 users, 2 concurrent requests, 2 revisions | an approval is of the current revision, exports were approved by somebody entitled, the timeline explains the state and the rows, and approvals are of what was read |

**Bounds of the direct runs.**  Two workers and two or three jobs are enough: every
hazard of the code is a race of one worker's read-then-write with another worker's
statement over one job, and the third job gives two jobs the same subject.
`MaxAttempts = 2` is the smallest number for which "give it back" and "exhausted" differ;
`LookupMax = 1` and lease and stale times of 2 are the smallest that keep the
validator's order; a budget of 1 makes both the grant and the refusal happen; two
midnights leave time for one between `reserveAt` and the call and for another later, of a second
job; two crashes allow the same job to be orphaned twice.
`direct_pauses` has one job, because pauses multiply the states and liveness needs them
all; the theorems of section 5 say the same of its invariants for any number of jobs.

**Bounds of the delegated run.**  One row is enough, as only the rows of one cache key
are related and a second one begins when the first is settled.  Two jobs share it, one asked for
after the other.  A lease and a stale time of 2 in a time of 4 let a lease expire under a
call and a second claim be swept; three claims are those of a batch, of a worker, and of one
that must not come after a contact.

**Bounds of the run runs.**  `runs_raced` has two targets, one of them delegated, one run that
asks for both and one, forced, for the shared one: so requests meet in one run, in one
job, and at a job that settles between them.  `runs_conclude` has one run, one of
whose targets is refused: the item that is written first is final at once.

**Bounds of the ownership run.**  Two nested ranges and an AS number give every tier a
rival, and two findings in the outer one a page after the first, since `Take` is 1.
Two requests are a mutation or sweep and whatever may cut across it; two tries let a
commit be refused, repeated and given up.

**Bounds of the scoring run.**  A score reads one CVE (`MaxCves`), and each finding has one of the two
at first: attaching the lower to the finding that has the higher displaces it, and retracting it lets the higher
in again.  One finding is listed for each completed CVE, and one rescored in all, so a finding may be past the first limit
when both hold one CVE, and past the second when a batch (of two candidates) completes both
CVEs.  Two jobs let both CVEs be looked up, or one again when its answer is no longer
fresh; leases, answers and pauses of one unit all expire at the one tick of the clock, under any
call, and before or after any other process captures its instant.  Within these bounds no candidate is listed
with its attempts used up, so `SweepExhausted` finds nothing; a job is buried by `AttemptFails`, and the
theorems cover both.

**Bounds of the risk run.**  The days 0, 7 and 30 are those at which the table of unresolved days
steps, and the distances between them (7, 23, 30) fall into three of its rows; a finding reported first on
day 7 may be observed as of day 0 by a later report.  An answer on reputation is fresh for one day, the longest
of `enrichmentTtlPolicy.js`, so it has expired at the next instant.  Two requests, each
at work once, are the two that change evidence before either rescores: every such race is one of
two rescores over what both have changed.  Reputations of 0 and 80 separate a verdict that the
indicator is clean from none.  The three owners are one whose sector counts by confirmation, one by
confidence, and a provider whose sector does not; two CVEs of one listed, one
harmless or one unanswered make the named CVE change while the score stays, which is what
the fingerprint must notice.  The first evidence is nothing or one of each.

**Bounds of the framework run.**  Both suggestions may be for the one reference or
texts, so that two approvals of one reference, an approval and a removal, and an
approval and a determination of its framework can all meet; a reference has at most two rows.
One version change is what makes a fingerprint old.

**Bounds of the case run.**  Every transaction is about one case, and only the reopening
pass visits several, one at a time; its work over several cases is covered by the proofs,
which do not bound them.  Two requests let a case be closed, reopened and closed again;
two handlers let a stale read of one overlap with another's; two organizations let
ownership move away and back.  Both users may at some time request and review, one of
them with the override.  `MaxEvents = 7` is a timeline of creation, request, decision,
reopening, a second request and decision, and a second reopening: the shortest in which one
recurrence could reopen a case twice.

**Bounds of the ingestion run.**  The older file names one finding twice, at two times,
and has an invalid row; the newer names it again with another.  Either may arrive
first.  One trouble separates an attempt from its retry.  Closures may be at any of the three
times, so before, at and after an observation all occur.

**Bounds of the notification run.**  Nothing relates two notifications, so one is
enough.  Both users may at some time write, submit, export and review, and one of them
may override, so every combination of author, submitter and reviewer occurs.  Two revisions
are one that was decided on and one that came after; two requests let an edit, a
review or a delivery that began before overlap with another.  With one text an edit
changes the address only, which is what the export guard reads.

`CHECK_DEADLOCK FALSE` is set because the systems may come to rest: every job terminal
and every worker idle, a timeline at its bound, all files processed.

### Where the code and what it says of itself part

Modelling met statements of comments, documents and property candidates that the code
does not keep.  Their properties stay in the modules, and a trace appears when the property is
put alone into the configuration named here, changed as the last column says.

| property | configuration | change |
|---|---|---|
| `AtMostOneCall` | `direct_pauses` | `SPECIFICATION Spec` |
| `EvidenceIsFrozenUnderReview` | `case_review` | none |
| `SuccessStands` | `ingest_retried` | `SPECIFICATION Spec` |
| `RecurrencesReachCases` | `ingest_retried` | one upload |
| `EditsKeepTheRest` | `notify_review` | `Texts = {t1, t2}`, `MaxRevisions = 3`, no exports or deliveries |
| `NeverBothCalling` | `delegated_contended` | none |
| `HeldRowIsSomeones` | `delegated_contended` | `LeaseTime = 3` |
| `AmbiguousIsUnanswered` | `delegated_contended` | none |
| `FinishedRunIsTrue` | `runs_conclude` | `SPECIFICATION Spec` |
| `PageSkipsNone` | `ownership_raced` | findings 1 to 4, mappings 1 and 2, `Tier <- HalfBlock`, `Inside <- UpperHalf`, `Prefixed <- WholeBlock`, `ReportedAs <- NotReported`, `Requests = {r1}`, `Take = 2` |
| `FreshEvidenceStays`, `CapSparesTheScore` | `scoring_raced` | none |
| `AnswersReachScores` | `risk_outrun` | none |
| `OnlyDraftsExpire`, `ApprovedOnItsEvidence` | `framework_reviewed` | none |
| `CallsChargeTheirDay` | `direct_prompt` | none |

1. `AtMostOneCall`: `recoverStaleClaims` reads the attempt, then releases the lease under a
   guard that does not mention it (`enrichmentWorker.js:146`); an attempt marked in between, by a worker
   paused past its lease, is requeued although contacted, and the question is asked and charged twice.
   The code says "A contacted attempt is NEVER requeued, whatever state it is in"
   (`enrichmentWorker.js:106`).  With prompt workers the property holds, as `direct_prompt` checks.
2. `NeverBothCalling`: the leases of a batch count from its start, so the batch may be
   calling without one while a targeted pass claims the row and calls too.  A comment says
   that "the two paths contend on one lock for one row, so exactly one of them can ever
   call the provider for it" (`enrichmentRunner.js:482-484`).
3. `HeldRowIsSomeones`: the sweep finishes the attempt of a dead worker first, and
   `deadLetterUnleasedJob` is then refused the row while its lease is live, which the
   configuration admits; nothing looks at the row again, although "the ambiguity sweep drives
   the row terminal" (`iocEnrichmentRepository.js:604-608`).  In the same passage
   of the worker a guard that matched nothing "rolls the whole thing back"
   (`enrichmentWorker.js:240`), and the transaction in fact commits.
4. `FinishedRunIsTrue`: the general pass may read a run of which only the first, skipped
   item is written, and store that it is finished after the request has added an open job:
   the guard against runs without items (`enrichmentOrchestrationRepository.js:611-614`) does not
   cover it.  The next refresh repairs it (`RunsConclude`).
5. `PageSkipsNone`: a page of a sweep is merged from two sources, each with the limit of a
   page.  Where a range is finer than its octet prefix, the findings beside the range use up the limit
   of one source, and the cursor passes findings of the range that it never read, although "the merged
   slice can never skip an id that either source would have produced"
   (`ownershipCandidateSelection.js:165-168`).  When such a page is empty there is no
   token to continue with, and the sweep cannot go on at all.
6. `FreshEvidenceStays`: a request scores as of the instant at which it started.  If a batch has
   completed and scored the lookup of its attachment meanwhile, the request's score takes
   the evidence out again (`riskScoringService.js:215-229`).
7. `AnswersReachScores`: the same of an answer on the indicator.  A report's upload captures its
   instant when it starts (`reportIngestionService.js:691`) and rescores with it at its end
   (`:911`), as a manual request does (`findingRiskController.js:118`).  If a lookup has been answered and scored in
   between, the rescore takes the answer as not yet known and drops it, although a rescore follows every
   lookup because "without it a successful targeted lookup changes the reputation evidence while the
   stored score keeps describing the previous one" (`enrichmentTargetedIocService.js:283-285`).  A
   targeted lookup that ends with another answer than a success is followed by no rescore at all.
8. `OnlyDraftsExpire`: the expiry of a draft reads its state and then updates by id alone, at
   the default isolation, so a decision committed in between becomes EXPIRED.  The rule of
   `workflowTransaction.js` asks for a serializable transaction there, and the schema says that EXPIRED is reached
   only from a draft.
9. `ApprovedOnItsEvidence`: an approval compares fingerprints before its transaction
   (`aiSuggestionDecisionService.js:227`), so the evidence may move in between.
10. `EvidenceIsFrozenUnderReview`: `linkFinding` reads the state of the case before its transaction
   only; evidence grows under a reviewer (comment at `caseFindingLinkService.js:126`).
11. `SuccessStands`: no update of a report is guarded; an upload that began from FAILED turns a
   report completed meanwhile back to PROCESSING, and possibly FAILED
   (`reportIngestionService.js:513`, `654`).
12. `RecurrencesReachCases`: an upload that dies between completing a report and handing its
   recurrences over leaves them unoffered: the next upload of the file is a duplicate
   (`reportIngestionService.js:619`, `1006`).
13. `EditsKeepTheRest`: `editCurrentRevision` merges an edit before its transaction, which does
   not check that the revision it merged over is still current; a field edited by somebody else
   meanwhile is put back (`notificationRevisionService.js:335`, `387`).
14. `CallsChargeTheirDay`: "the UTC calendar day an attempt reserves against — the day the call
   actually happens" (`enrichmentQuotaService.js:120-122`).  The day is that of `reserveAt`
   (`enrichmentDirectExecutionService.js:213`), and the call leaves several statements later
   (line 264): when midnight falls between them, a call of one day is charged to the day before, by a
   prompt worker too.  `CallsAreAccountedFor` says what does hold.
15. `AmbiguousIsUnanswered`: "Ambiguous: the request was sent and no durable answer followed"
   (`enrichmentTargetedIocService.js:224`).  `completeClaimedJob` reads the row again after it has stored the
   answer (`iocEnrichmentRepository.js:418`); if that fails, or the acknowledgement of the update
   is lost, the runner reports the outcome as ambiguous (`enrichmentRunner.js:660-665`), and the pass abandons
   the attempt and dead-letters the job, which stays so beside a row that has the answer.
   `JobAgreesWithDelegate` names this exception, and shows that there is no other.
16. `CapSparesTheScore`: "The bound caps stored evidence and fingerprint input, never the score: cvePresence
   is a flat contribution regardless of how many CVEs there are" (`vulnerabilityRiskContext.js:97-98`).
   `loadVulnerabilityRiskContext` reads the evidence of the capped list only, so a CVE beyond the fiftieth that
   is known to be exploited, or has the highest EPSS score, does not raise the score.  With a cap that
   no finding reaches the property holds in this configuration.

Some more were met while modelling and have no property.  Two are excluded by prompt
workers, as `direct_prompt` shows: `executeDirectJob` ignores whether the mark matched, so an
attempt swept meanwhile leaves a call whose row says that none was made
(`CallsAreAccountedFor`); the sweep's guard does
not repeat `contactedProvider`, so an attempt marked after it was read is finalized beside an open
job (`ContactSettlesJob`).  The others are possible at any speed: the reopening pass reads the
links once, so a finding unlinked since reopens its former case; a response may be
recorded for a case closed since it was read, and a draft made from one; a reviewer approves whatever is pending,
so a revision that was rejected, edited and submitted again since they read it is approved
unread (`ApprovedAsRead` says what does hold: no edit alone does this); two requests of one key that
both lack an item create a second job that no item links, if the first has settled between;
`promotedMappingId` is unique, so that a second suggestion whose approval leaves the same row
unchanged fails after its retries; and a draft whose provider failed or was disabled is stored empty, and can be accepted.
The rescoring hook of a batch scores "the Findings whose CURRENT ACTIVE association names a
completed CVE" (`vulnerabilityRunner.js:729-739`), but no more of them for each CVE than the
caller's limit, and of them all no more than `MAX_FINDINGS_PER_TRIGGER`
(`riskRecalculationService.js:199-200`), of which that comment says nothing; the findings with the
highest ids are left to the next change of theirs.

## 4. Fairness

`FairSpec` of `DirectLookup` assumes weak fairness of the clock, of a worker's next statement,
and, for each job or attempt, of *some* idle worker claiming, recovering or sweeping it.
`schedule` (`enrichmentWorker.js:588-600`) re-arms the timer after every tick whatever the
tick did, and each pass lists its candidates oldest first in a bounded batch, so a
candidate comes to the front.  Nothing is assumed about asking, crashing or midnights.
A crash is bounded by `MaxCrashes` (`MaxDeaths` in `EnrichmentRuns`): a process that dies for ever
settles nothing.
`direct_pauses` checks its two liveness properties.

`FairRunSpec` of `EnrichmentRuns` assumes that a request runs on (weak fairness of
`RequestStep`), that the workers tick for ever (weak fairness of `WorkerStep`), and that a job
of the queue is claimed and, however often it returns to the queue, settled in the end (weak
fairness of `ClaimJob`, strong fairness of `SettleJob`): that a job does not stay open is what
`direct_pauses` checks of the queue itself, whose attempts are bounded.  Nothing is assumed
about asking, failing requests, dying workers or expiring answers.  `RunsConclude` is the
claim of `runs_conclude`.

`FairSpec` of `ReportIngestion` assumes that an upload that can take its next statement
eventually does or dies (weak fairness of `Proceed`), and that a file is uploaded again for
as long as that is accepted (strong fairness of `Receive`, because acceptance comes and
goes while other uploads hold the report).  `RetriesConclude` is claimed for histories
without a crash only: a dead upload leaves its report PROCESSING for good, which the code
documents as a policy still to be decided (`reportIdentityService.js:50-53`).

The other modules claim no liveness.  Nothing in `CaseWorkflow`, `NotificationReview` and
`FrameworkReview` has to happen until a person acts; the batches of `DelegatedLookup`, the
sweeps of `OwnershipResolution` and the batches of `VulnerabilityScoring` are started by an
administrator, so that no timer stands behind a row that waits for one.

## 5. Proofs

Each proof module proves its theorems for every value of the constants that the module's
`ParamsAssumption` allows.  Two results have a hypothesis besides, which their theorem states:
the five of `DirectLookup` that are marked below need prompt workers (`Prompt`, the environment of
`direct_prompt`; with workers that pause the first of them is false, see section 3), and
`StaleRowsAreExcused` needs ranges that end at octets (`OctetAligned`, as in `ownership_raced`;
elsewhere a page can skip a finding, see section 3).

| module | theorem | property |
|---|---|---|
| `DirectLookupProofs` | `TypeCorrect` | `TypeOK` |
| | `IdentityIsHeldWhileOpen` | `HoldsIffOpen` |
| | `QueueNeverStarves` | `QueuedIsClaimable` |
| | `HistoryNeverChanges` | `HistoryIsFinal` |
| | `BudgetIsKept` | `LedgerMatchesUsage` |
| | `ProviderIsAskedOnce` (prompt) | `AtMostOneCall` |
| | `BooksAreHonest` (prompt) | `CallsAreAccountedFor` |
| | `ContactIsNeverRetried` (prompt) | `ContactSettlesJob` |
| | `DeadLettersTellTheTruth` (prompt) | `DeadLetterReasonIsTrue` |
| | `PromiseIsKept` (prompt) | `KeepsPromise`, the refinement of `LookupPromise` |
| `DelegatedLookupProofs` | `TypeCorrect` | `TypeOK` |
| | `NoClaimAfterContact` | `ContactIsTheLastClaim` |
| | `HistoryStands` | `HistoryIsFinal` |
| | `JobsSayWhatDelegatesSay` | `JobAgreesWithDelegate` |
| `OwnershipResolutionProofs` | `AnalystsOverridesStand` | `OverrideStands` |
| | `StaleRowsAreExcused` (octets) | `StaleOnlyWhenExcused` |
| `VulnerabilityScoringProofs` | `TypeCorrect` | `TypeOK` |
| | `ScoresFollowAssociations` | `ScoreNamesItsCves` |
| | `AnswersAreOfTheLastAttempt` | `AnswerOfTheLastAttempt` |
| | `EvidenceIsNotLost` | `EvidenceReachesScores` |
| `FrameworkReviewProofs` | `TypeCorrect` | `TypeOK` |
| | `MappingsExcludeDeterminations` | `DeterminationsExclude` |
| | `EveryPromotionIsDecided` | `PromotionsAreDecisions` |
| | `DecisionsStand` | `DecidedOnce` |
| `CaseWorkflowProofs` | `TypeCorrect` | `TypeOK` |
| | `OneReviewPerPendingCase` | `PendingIffUnderReview` |
| | `ClosuresAreReviewed` | `ClosureWasReviewed` |
| | `EvidenceStands` | `EvidenceIsPermanent` |
| | `LinksFollowOwnership` | `LinksMatchOwnership` |
| | `HumanClosuresEndByHand` | `HumanClosureStands` |
| | `TimelinesAccount` | `TimelineAccounts` |
| `IngestionAndRunsProofs` | `TypeCorrect` | `TypeOK` |
| | `ProjectionsMatch` | `ProjectionsMatchEvidence` |
| | `SuccessfulReportsAreComplete` | `SuccessIsComplete` |
| | `RecurrencesCarried` | `RecurrencesAreCarried` |
| | `ReopeningsEvidenced` | `ReopeningsAreEvidenced` |
| | `RunsAreWellFormed` | `RunTypeOK` |
| | `AnsweredRunsAreWhole` | `AnsweredRunIsWhole` |
| | `RunsAskForNewWork` | `WorkIsNew` |
| `NotificationAndRiskProofs` | `TypeCorrect` | `TypeOK` |
| | `ApprovalsAreCurrent` | `ApprovalIsCurrent` |
| | `ExportsApproved` | `ExportsWereApproved` |
| | `RevisionsDecidedOnce` | `DecidedOnce` |
| | `ReviewedContentStays` | `ReviewedContentIsFixed` |
| | `ApprovalsAreOfWhatWasRead` | `ApprovedAsRead` |
| | `TimelinesExplain` | `TimelineExplains` |
| | `ScoresAreWellFormed` | `ScoreTypeOK` |
| | `ScoresAreExplained` | `ExplanationIsOfTheEvidence` |
| | `FallsAreExplained` | `FallIsExplained` |
| | `CapDiscardsNothing` | `CapNeverTruncates` |

The type invariants, `HoldsIffOpen`, `EvidenceIsPermanent`, `CapNeverTruncates` (stated beside its
proof: `calculateRisk` says that its cap "can never truncate"), and `DecidedOnce` and
`ReviewedContentIsFixed` of `NotificationReview` are proved and belong to no run; every other property
of the table is checked by one too.

**DirectLookup.**  `QueuedIsClaimable` is not inductive: a refused job is refunded an attempt
and a recovered job goes back to the queue on a decision taken in an earlier step.
`IInv` adds what makes it so: the token of a leased row is its attempt count (so a worker
that still owns a row knows the count), and a recovering worker that decided to
release read fewer than `MaxAttempts` attempts.

What prompt workers promise rests on `PInv`, whose parts TLC checked on `direct_prompt` before
they were proved.  A claim that is worked on has its lease (`ClaimsAreLive`: the lease has lost no more
than the lookup took, and `LeaseTime > LookupMax`), so that its job has no other worker
(`OneExecutor`), its attempt is younger than the stale threshold and was reserved for today or
yesterday (`ExecutorsFit`), and neither recovery nor sweep finds it.  What those two have read stays so until they write or their guard
refuses them (`RecoveriesFit`, `SweepsFit`).  A contacted attempt is then the only one of its
job, and the job is held by it or over (`ContactIsLast`), calls are one for each attempt
(`CallsFit`), and a job ends with what its attempts say (`JobsTell`).  `AtMostOneCall`,
`ContactSettlesJob`, `CallsAreAccountedFor` and `DeadLetterReasonIsTrue` follow from it in a few lines
each.

`PromiseIsKept` is the refinement, step by step: the initial states map to initial states, and
each step either changes no job and no call, which is a stutter, or settles, asks or queues exactly
the job it writes (`StepKeepsPromise`); that a question is asked while it is open, and answered
only if it was asked, is `PInv`.  `PhaseOf` has branches that exclude one another,
so that the choice among them does not matter to the proof.

**DelegatedLookup.**  `ContactIsTheLastClaim` compares the calls made with the claims counted
on their row, so the argument follows one number: `RowsFit` says what a row's state says of
its claims, `WorkerFit` and `BatchFit` that no process holds a claim later than its row's, and
that a row under contact is held (`Held`) until the claim that made the contact ends it, so that
nobody else can claim it.  `ClaimsDiffer` keeps two processes from holding one claim: they
would each be entitled to write.  `HistoryIsFinal` is one lemma per handler: each writes only rows
and jobs that were open and attempts that were not finalized (`StepIsFinal`).

`JobAgreesWithDelegate` relates two rows that are written in different transactions, by
processes that may die in between.  `AgreesInv` says what each process has found out and may rely on until it
writes (`WorkersTell`), that a contact which its worker heard of holds its delegate (`ContactsHold`), and
what a verdict stands for (`JobTells`).  A worker that did not hear of its contact gives the row
back with the hold dropped; `Uncalled` says that it has not called under that claim, so that this
reopens nothing, and the worker whose contact was heard is the only one with a hold while it works (`Alone`).  The hard case is the dead letter of the
sweep: the delegate must have no answer and must never get one.  An attempt is stale only after the
bound of a lookup (`LookupMax < StaleTime`), so that the worker that made the contact asks no more
(`StaleIsUnasked`); only that worker, or the owner of a batch, could answer
(`OnlyTheAskerAnswers`), and a held row has no other owner.  TLC checked `AgreesInv` on
`delegated_contended` with a time of 3, one answer and two crashes or failed writes (2,885,934 states).

**OwnershipResolution.**  `OverrideStands` says that only an analyst ends an override.  A sweep
writes under a compare-and-set on the id of the row it read, and a row that was never written
has id 0, which is also what a request that read no row expects; `RowsFit` excludes the
coincidence (an override was written, so its id is positive).  Every other step that writes the row of a
finding either was asked for by an analyst or decides the row again from the override
(`OverrideIsDecidedAgain`).

`StaleOnlyWhenExcused` is a statement about quiet states; `StaleAreAwaited` is what every state
satisfies: a stale row that nothing excuses waits for some request (`Pending`).  A sweep that selects its
page has a finding before it while it is beyond the cursor, affected by the mapping, and each of
the two sources was not read yet, has the finding, or was cut off before it (`ComesTo`); afterwards
the finding is on the page, or beyond its end with more to follow.  `MergedOrLeft` is the step from
the one to the other, and the only one that needs `OctetAligned`: a source that was cut off is then full of
findings of the range, so that the merged page ends where the source does, or before.
`CutOffIsBehind` and `PageStopsWithItsSource` are the two facts about `ORDER BY id LIMIT n` behind it.
On the side of the resolver, writing a mapping changes decisions only within its range
(`OnlyItsRangeIsDecidedAnew`), so that what a mutation makes stale is before the sweep it
starts (`BeginningSettles`), and a row decided with the AS number of a report is as good as one
decided without (`NumberYieldsToAddress`).  TLC checked the invariant on the 1,598,367 states of
`ownership_raced`.

**VulnerabilityScoring.**  `ScoreNamesItsCves` is a statement about quiet states.  `IInv` says of
every state that the score of a finding names the first `MaxCves` of its associations, or its rescore failed and the
finding is excused, or some request that changed the associations has not scored it yet (`Owed`).
`AnswerOfTheLastAttempt` needs that a batch whose claim stands was the last to attempt its job
(`HolderFit`): a claim that expired and was taken over leaves the answer of the first batch refused.
`EvidenceReachesScores` is carried by `EvidenceInv`: the latest answer of a CVE is in the score of every finding
that reads it, is out of date, or is owed (`Debt`) by a request that changed the association, by
an active job, or by the hook of the batch that completed it.  `HooksFit` says that a batch lists the findings of
every CVE it completed before it rescores the first, and `InstantsPassed` that nobody acts
as of an instant to come, which the freshness test needs.  A change of an association changes which CVEs are
read: an attachment lets in no other than the one attached (`ForemostOfMore`, by cardinalities, for any
cap), and what a retraction lets in is read by the request that retracted, unless its instant is too early for the answer
(`ChangedScored`).  Findings that a limit of the hook leaves out are excused at that step (`ListedTyped`).

**FrameworkReview.**  `Tables` holds the five facts that support one another: rows that were made
have ids, determinations exclude mappings, the ledger of a suggestion agrees with its state, every
promoted row has the approval that made it, and two approvals never share a row (`ApprovalsDiffer`).
`RequestsFit` bounds what an open transaction has read by what is stored (ids only grow), which
is all that remains of a snapshot when it commits.

**CaseWorkflow.**  `PendingIffUnderReview` counts requests, which is awkward to carry through
a step; `ReviewInv` says instead that a case is CLOSURE_PENDING exactly while some
request of it is pending and that two pending requests of one case are the same, and
the count follows at the end.  `ClosureWasReviewed` needs that a request for a remediated
closure is supported from the moment it is made (the response it rests on is never
rewritten), and that approvers were entitled when they decided.  The action
properties need the types only, except for the distinctness of REOPENED_BY_RECURRENCE
and human closures, which rests on `QualifiesForReopen`.  `TimelineAccounts` compares counts of entries
with cardinalities of rows; `AccountsInv` adds that a pass is of an occurrence and that a case was
reopened for finitely many, and each step adds one entry and the row it tells of (`LogTally`).

**ReportIngestion.**  The heart of `IInv` is `UploadsKnow`: whatever an upload no longer has to
do *is* done, by itself or by an earlier attempt, and the recurrences it has noted are
exactly those of the findings it has passed.  With `Grows` (no step forgets evidence) it
survives every interleaving with other uploads, and at the end of the work it yields
`SuccessIsComplete` and `RecurrencesAreCarried`.  `CanonicalIsLatest` shows from the
well-ordering of the naturals that the choice of a canonical row is well defined, which
is where `ParamsAssumption` needs dates to end.  `ProjectionsMatchEvidence` is inductive
together with `IInv`; its counts are cardinalities of sets that a new observation
extends by one file.

**NotificationReview.**  `ExportsWereApproved` looks back at the timeline, and nobody looks at
it when exporting; `IInv` carries it as two facts, that an approver was entitled
(`ApproversAreEntitled`, which later steps keep because a decided revision is never
submitted again) and that an export follows an approval of its revision
(`ExportsFollowApprovals`, from `ApprovalIsCurrent` at the moment of the export).
`LatestStage` and `PendingWasSubmitted` tie the state of the notification to the events
about its current revision, which makes `DecidedOnce` inductive.  `ReadOrDecided` is the
invariant behind `ApprovedAsRead`: what a reviewer reads is current until it is decided on.
`TimelineExplains` is inductive together with `IInv`: a transition leaves from the state in which the
chain ended, because the guard of every handler reads that state.

**EnrichmentRuns.**  No statement of a request is in a transaction with another, so `RunInv` says what
a request may rely on between two of them (`Fits`): the run it has found stays, and once it has
listed the items, each target of the key has an item or is still in `todo`.  No step takes an item
away (`RunsGrow`), so that this survives whatever the other requests of the key write
(`FittingLasts`), and at the answer, when `todo` is empty, it is `AnsweredRunIsWhole`.  `WorkIsNew` needs
the history: jobs that are over stay over (`SettledAreOver`), so a job that is open when it is
shared was not over when the run was created, even if it is settled before the item is written; and a
job that is opened is one that did not exist, because the jobs of a target are numbered without a
gap (`JobsNumbered`, `JobsCounted`).  TLC checked `RunInv` on the 1,964,947 states of
`runs_raced`.

**RiskSnapshots.**  `ExplanationIsOfTheEvidence` is a statement about quiet states; `ScoreCurrent`
says of every state that the stored contributions are those of the evidence as of the last
calculation, or a rescore was lost (`excused`), or a request that changed the evidence has still to
rescore (`ScoreOwed`).  A rescore that finds the inputs unchanged writes nothing, and is right not to,
because the fingerprint determines the contributions.

`FallIsExplained` compares the score stored at one instant with the one calculated at a later,
from evidence that others have added to meanwhile.  `CountsStand` is what makes them comparable: the
sightings and returns that the stored score counted are still there to be counted, and unless the
finding has returned once more, its present episode began no later than the score says
(`LaterIsNoBetter`).  The tables then do the rest, factor by factor: a later value is in the same bucket
or one that is worth no less (`ScoresGrow`), and no sum is cut (`CapDiscardsNothing`:
the shares of the ten factors add up to the 10000 points of the scale), so that more points are a higher
score.  TLC checked `RiskInv` on `risk_outrun`.

**Model-checked only.**  Every invariant and every action property that a run checks is proved.  What
is left to TLC is liveness (`EveryJobSettles`, `EveryAttemptFinishes`, `RetriesConclude`, `RunsConclude`),
which rests on fairness and on ENABLED and is beyond the proof system.

## 6. Not modelled

HTTP clients and parsers of provider responses, report parsing, authentication, roles and rate
limits, the audit log (nothing reads it back), read models and dashboards, rendering, the
frontend, scripts and evaluation harnesses: input and output, stateless checks before a
handler, or data transformation without protocol.

Within the modelled parts:

- `DirectLookup`: the retirement of exhausted queued jobs, which `QueueNeverStarves` proves
  never has one to retire.
- `DelegatedLookup`: the daily budget (it is that of `DirectLookup`), the scheduling of a
  whole finding.
- `EnrichmentRuns`: how a job is worked on; eligibility is the constant outcome for each target.
- `OwnershipResolution`: validity windows and the `asOf` of a resolution, findings without an IPv4
  address, the null ASN of a row resolved again, rows ambiguous between ASNs that the disabling of a mapping
  leaves alone, the rescoring that follows a change of owner.
- `VulnerabilityScoring`: the three providers of a job are one answer, the score is what it knows of the CVEs
  (`RiskSnapshots` has the rest), attempts at scheduling, which nothing counts.
- `RiskSnapshots`: the cap on the CVEs that are read (it is in `VulnerabilityScoring`), bands and the displayed score, the wording of explanations and so the outcome of a
  lookup that gave no answer, the read service; when the evidence on a CVE is usable
  is said by `VulnerabilityScoring`; a change of owner by a sweep or a report is the same step as an override.
- `FrameworkReview`: one case; a serializable transaction is its read and its commit; the content rules of
  a framework are met and quotes are found; ledger rows of decisions that came too late, run rows and
  attempts.
- `CaseWorkflow`: assignment of a case to a user, internal notes, the history of triage decisions.
- `ReportIngestion`: storage of the file; the ownership, enrichment and risk steps between its
  statements, which never throw and have modules of their own.
- `NotificationReview`: the exported document, notifications that predate the workflow, the state of
  the case at drafting.

## 7. Plan

1. Done: `LookupPromise`, `DirectLookup`, `CaseWorkflow`, `ReportIngestion`, `NotificationReview`,
   and their proofs.
2. Done: `EnrichmentRuns`, over jobs that settle meanwhile.
3. Done: `DelegatedLookup`, the targeted path and the batches over the rows of one cache key.
4. Done: `VulnerabilityScoring`, `OwnershipResolution`, `FrameworkReview`, `RiskSnapshots`.
5. Composition: the recurrences of `ReportIngestion` as the occurrences of `CaseWorkflow`;
   drafting from the cases of `CaseWorkflow`; the jobs of `EnrichmentRuns` as those of `DirectLookup`.
6. Done: proofs of every invariant and action property that a run checks, and of the refinement of
   `LookupPromise`.
7. Open: the lemma that would carry `StaleRowsAreExcused` to ranges within an octet that no sweep has to page.
