-------------------------- MODULE DelegatedLookup --------------------------
(***************************************************************************)
(* The IOC queue and the two ways its rows are worked off.                 *)
(*                                                                         *)
(* An IocEnrichment row is a question about one indicator, queued under a  *)
(* cache key that only one pending row may hold.  An administrator's batch *)
(* lists pending rows and works through them; an enrichment worker's       *)
(* targeted pass works on the one row that a delegated ProviderLookupJob   *)
(* waits on.  Both take a row by the same guarded update.  The batch       *)
(* retries; the targeted pass, whose call is charged, marks an attempt and *)
(* holds the row before it calls, so that nobody calls again.              *)
(*                                                                         *)
(* The rows and jobs below are those of one cache key, oldest first.  Each *)
(* action is one statement or one transaction.  Times are readings of one  *)
(* clock: a batch reads it once, when it starts, and a worker at each use. *)
(***************************************************************************)
EXTENDS Integers, FiniteSets

CONSTANTS
    Workers,      \* enrichment worker processes
    Batches,      \* batches an administrator started
    MaxRows,      \* bound on the IocEnrichment rows of the key
    MaxJobs,      \* bound on the delegated jobs of the key
    MaxAttempts,  \* IocEnrichment.maxAttempts
    MaxClaims,    \* bound on the claims of one row, refunded ones included
    Statuses,     \* the provider statuses a lookup may return
    LeaseTime,    \* leaseMs, in model ticks
    StaleTime,    \* ENRICHMENT_ATTEMPT_STALE_SECONDS, in model ticks
    LookupMax,    \* ENRICHMENT_LOOKUP_MAX_MS, in model ticks
    Delay,        \* the retry policy's delay, in model ticks
    MaxTime,      \* bound on the clock
    MaxCrashes    \* bound on the processes that die (or whose write fails)

VARIABLES
    row,          \* the IocEnrichment rows
    job,          \* the RUN_DELEGATED ProviderLookupJob rows
    att,          \* the ProviderLookupAttempt rows, by job and attemptNumber
    wk,           \* each worker's program counter and local variables
    bt,           \* each batch's
    calls,        \* history: the provider calls that left a process
    now,          \* the clock
    crashes,      \* crashes and failed writes so far
    unheard       \* history: the jobs of which a write of its own worker, the contact
                  \* or the completion, committed and was answered with an error

vars == <<row, job, att, wk, bt, calls, now, crashes, unheard>>

Rows == 1..MaxRows
Jobs == 1..MaxJobs
Nums == 1..MaxAttempts
Claims == 0..MaxClaims
Times == 0..(MaxTime + LeaseTime + Delay)

\* CONTACT_SENTINEL: an instant that is never reached.
Forever == MaxTime + LeaseTime + Delay + 1

Answers == {"SUCCESS", "NOT_FOUND", "RATE_LIMITED", "TIMEOUT", "INVALID_KEY",
            "FAILED", "SKIPPED_DISABLED", "UNSUPPORTED_INDICATOR"}
RowStates == {"ABSENT", "PENDING", "DEAD_LETTER"} \cup Answers
Settled(r) == row[r].status \in Answers \cup {"DEAD_LETTER"}

\* The state a waiting job adopts from its delegate.
IocStatusToJobState ==
    [s \in Answers \cup {"DEAD_LETTER"} |->
        CASE s = "SUCCESS"               -> "SUCCEEDED"
          [] s = "NOT_FOUND"             -> "NO_RECORD"
          [] s = "UNSUPPORTED_INDICATOR" -> "SKIPPED_UNSUPPORTED_SUBJECT"
          [] s = "SKIPPED_DISABLED"      -> "SKIPPED_DISABLED"
          [] s = "DEAD_LETTER"           -> "DEAD_LETTER"
          [] OTHER                       -> "FAILED"]

Refusals == {"SKIPPED_BUDGET", "SKIPPED_NOT_CONFIGURED"}
Verdicts == {IocStatusToJobState[s] : s \in Answers \cup {"DEAD_LETTER"}} \cup Refusals
JobStates == {"ABSENT", "WAITING_ON_DELEGATE"} \cup Verdicts

\* token and claims number the claims of a row: the token of the code is a fresh
\* UUID, and zero is null.
Row == [status: RowStates, token: Claims, leaseExpiresAt: Times, claims: Claims,
        attemptCount: 0..MaxAttempts, nextAttemptAt: Times \cup {Forever}, fresh: BOOLEAN]
NoRow == [status |-> "ABSENT", token |-> 0, leaseExpiresAt |-> 0, claims |-> 0,
          attemptCount |-> 0, nextAttemptAt |-> 0, fresh |-> FALSE]

Job == [state: JobStates, iocEnrichmentId: 0..MaxRows, ambiguous: BOOLEAN]
NoJob == [state |-> "ABSENT", iocEnrichmentId |-> 0, ambiguous |-> FALSE]

Unfinished == {"RESERVED", "IN_FLIGHT"}
Attempt == [state: {"NONE", "FINISHED"} \cup Unfinished, contactedProvider: BOOLEAN,
            startedAt: 0..MaxTime, outcome: {"none", "ABANDONED"} \cup RowStates]
NoAttempt == [state |-> "NONE", contactedProvider |-> FALSE, startedAt |-> 0, outcome |-> "none"]

\* job and row are 0 while the process is idle; "since" is the time its call began,
\* or, of a batch, the time it read when it started; n is the attemptCount of its claim.
Idle == [pc |-> "idle", job |-> 0, row |-> 0, token |-> 0, n |-> 0, since |-> 0, seen |-> "none"]
Process == [pc: {"idle", "listed", "claimed", "releasing", "settling", "reserved", "contacted",
                 "calling", "answered", "failed", "buried", "completed", "sweeping", "retiring"},
            job: 0..MaxJobs, row: 0..MaxRows, token: Claims, n: 0..MaxAttempts,
            since: 0..MaxTime,
            seen: {"none", "lost", "exhausted", "contacted", "uncontacted", "ABSENT"}
                      \cup RowStates \cup Verdicts]

\* The orderings the configuration validator enforces.  It does not order a lease
\* and the time after which an attempt is stale.
ParamsAssumption ==
    /\ MaxRows \in Nat /\ MaxJobs \in Nat /\ MaxTime \in Nat /\ MaxCrashes \in Nat
    /\ MaxAttempts \in Nat \ {0} /\ MaxClaims \in Nat
    /\ LeaseTime \in Nat /\ StaleTime \in Nat /\ LookupMax \in Nat /\ Delay \in Nat
    /\ LookupMax < LeaseTime /\ LookupMax < StaleTime
    /\ Statuses \subseteq Answers
    /\ Workers \cap Batches = {}
ASSUME Params == ParamsAssumption

Init ==
    /\ row = [r \in Rows |-> NoRow]
    /\ job = [j \in Jobs |-> NoJob]
    /\ att = [k \in Jobs \X Nums |-> NoAttempt]
    /\ wk = [w \in Workers |-> Idle]
    /\ bt = [b \in Batches |-> Idle]
    /\ calls = {}
    /\ now = 0
    /\ crashes = 0
    /\ unheard = {}

-----------------------------------------------------------------------------
(* Statements both paths share.                                            *)

\* WHERE status = PENDING AND claimToken = token: the only completion credential.
Owns(r, token) == row[r].status = "PENDING" /\ row[r].token = token

LeaseFree(r, asOf) == row[r].token = 0 \/ row[r].leaseExpiresAt <= asOf

\* The gates a candidate list applies, and the claim again.
Claimable(r, asOf) ==
    /\ row[r].status = "PENDING"
    /\ LeaseFree(r, asOf)
    /\ row[r].nextAttemptAt <= asOf

\* The guarded update that takes a row: a fresh token, a lease from the claimer's own
\* reading of the clock, and one attempt.
ClaimedRow(r, asOf) ==
    [row[r] EXCEPT !.token = row[r].claims + 1, !.claims = @ + 1,
                   !.leaseExpiresAt = asOf + LeaseTime, !.attemptCount = @ + 1]

\* A row that reaches a terminal status: the key, the lease and any wait or hold go.
ClosedRow(r, status) ==
    [row[r] EXCEPT !.status = status, !.token = 0, !.leaseExpiresAt = 0,
                   !.nextAttemptAt = 0, !.fresh = status \in Answers]

\* A row given back to the queue.
ReleasedRow(r, nextAttemptAt, refund) ==
    [row[r] EXCEPT !.token = 0, !.leaseExpiresAt = 0, !.nextAttemptAt = nextAttemptAt,
                   !.attemptCount = @ - refund]

\* A guarded updateMany: a guard that matches no row changes nothing.
UpdateRowIf(guard, r, new) == row' = IF guard THEN [row EXCEPT ![r] = new] ELSE row

\* terminalizeDelegatedJob, guarded on WAITING_ON_DELEGATE.
SettledJob(j, state, ambiguous) ==
    IF job[j].state = "WAITING_ON_DELEGATE"
    THEN [job EXCEPT ![j].state = state, ![j].ambiguous = ambiguous]
    ELSE job

\* finalizeAttempt, guarded on state IN (RESERVED, IN_FLIGHT).
Finalized(k, outcome) ==
    IF att[k].state \in Unfinished
    THEN [att EXCEPT ![k].state = "FINISHED", ![k].outcome = outcome]
    ELSE att

\* A failed write counts among the crashes.
WriteFails == crashes < MaxCrashes /\ crashes' = crashes + 1

Work(w, pc) == wk' = [wk EXCEPT ![w].pc = pc]
Rest(w) == wk' = [wk EXCEPT ![w] = Idle]
Step(b, pc) == bt' = [bt EXCEPT ![b].pc = pc]
Stop(b) == bt' = [bt EXCEPT ![b] = Idle]

-----------------------------------------------------------------------------
(* Asking.                                                                 *)

\* A cached answer is served while it is fresh, unless the asker forces a new one; a
\* pending row is shared; otherwise a row is created, and activeCacheKey admits one.
ScheduleEnrichment(r, forced) ==
    /\ row[r].status = "ABSENT"
    /\ \A s \in Rows : s < r => row[s].status # "ABSENT"
    /\ forced \/ \A s \in Rows : ~row[s].fresh
    /\ \A s \in Rows : row[s].status # "PENDING"
    /\ row' = [row EXCEPT ![r].status = "PENDING"]
    /\ UNCHANGED <<job, att, wk, bt, calls, now, crashes, unheard>>

\* expiresAt passes.
AnswerExpires(r) ==
    /\ row[r].fresh
    /\ row' = [row EXCEPT ![r].fresh = FALSE]
    /\ UNCHANGED <<job, att, wk, bt, calls, now, crashes, unheard>>

\* A run links a job to the row that the scheduling answered with, which may have
\* been settled since.  activeLookupKey admits one waiting job.
CreateDelegatedJob(j, r) ==
    /\ job[j].state = "ABSENT"
    /\ \A i \in Jobs : /\ i < j => job[i].state # "ABSENT"
                       /\ job[i].state # "WAITING_ON_DELEGATE"
    /\ row[r].status # "ABSENT"
    /\ job' = [job EXCEPT ![j].state = "WAITING_ON_DELEGATE", ![j].iocEnrichmentId = r]
    /\ UNCHANGED <<row, att, wk, bt, calls, now, crashes, unheard>>

-----------------------------------------------------------------------------
(* The targeted pass.                                                      *)

ListTargetedCandidate(w, j) ==
    LET r == job[j].iocEnrichmentId IN
    /\ wk[w].pc = "idle"
    /\ job[j].state = "WAITING_ON_DELEGATE"
    /\ Claimable(r, now)
    /\ row[r].attemptCount < MaxAttempts
    /\ wk' = [wk EXCEPT ![w] = [Idle EXCEPT !.pc = "listed", !.job = j, !.row = r]]
    /\ UNCHANGED <<row, job, att, bt, calls, now, crashes, unheard>>

\* The job is not looked at again: only the row is claimed.
ClaimTargeted(w) ==
    LET r == wk[w].row IN
    /\ wk[w].pc = "listed"
    /\ IF Claimable(r, now) /\ row[r].attemptCount < MaxAttempts
       THEN /\ row[r].claims < MaxClaims
            /\ row' = [row EXCEPT ![r] = ClaimedRow(r, now)]
            /\ wk' = [wk EXCEPT ![w].pc = "claimed", ![w].token = row[r].claims + 1,
                                ![w].n = row[r].attemptCount + 1]
       ELSE Rest(w) /\ UNCHANGED row
    /\ UNCHANGED <<job, att, bt, calls, now, crashes, unheard>>

\* An unknown or unconfigured provider, a spent budget, or a reservation that fails: a
\* number that a refunded claim has already used cannot be reserved again.
RefuseBeforeLookup(w) ==
    /\ wk[w].pc = "claimed"
    /\ \E state \in Refusals :
         wk' = [wk EXCEPT ![w].pc = "releasing", ![w].seen = state]
    /\ UNCHANGED <<row, job, att, bt, calls, now, crashes, unheard>>

\* The reservation charges the daily budget, modelled in DirectLookup, and creates the
\* attempt, numbered by the count the claim wrote.
ReserveTargeted(w) ==
    LET k == <<wk[w].job, wk[w].n>> IN
    /\ wk[w].pc = "claimed"
    /\ att[k].state = "NONE"
    /\ att' = [att EXCEPT ![k] = [NoAttempt EXCEPT !.state = "RESERVED", !.startedAt = now]]
    /\ Work(w, "reserved")
    /\ UNCHANGED <<row, job, bt, calls, now, crashes, unheard>>

\* The reservation commits, but an error is all the worker hears of it: it takes the
\* lookup for refused.
ReserveUnheard(w) ==
    LET k == <<wk[w].job, wk[w].n>> IN
    /\ wk[w].pc = "claimed"
    /\ att[k].state = "NONE"
    /\ WriteFails
    /\ att' = [att EXCEPT ![k] = [NoAttempt EXCEPT !.state = "RESERVED", !.startedAt = now]]
    /\ wk' = [wk EXCEPT ![w].pc = "releasing", ![w].seen = "SKIPPED_BUDGET"]
    /\ UNCHANGED <<row, job, bt, calls, now, unheard>>

\* Slip: the hold is a delay like any other.
ContactWithDelay(w) ==
    LET k == <<wk[w].job, wk[w].n>>
        r == wk[w].row IN
    /\ wk[w].pc = "reserved"
    /\ IF att[k].state = "RESERVED" /\ Owns(r, wk[w].token)
       THEN /\ att' = [att EXCEPT ![k].state = "IN_FLIGHT", ![k].contactedProvider = TRUE]
            /\ row' = [row EXCEPT ![r].nextAttemptAt = now + LeaseTime]
            /\ Work(w, "contacted")
       ELSE /\ wk' = [wk EXCEPT ![w].pc = "releasing", ![w].seen = "lost"]
            /\ UNCHANGED <<row, att>>
    /\ UNCHANGED <<job, bt, calls, now, crashes, unheard>>

\* The contact transition: the attempt is marked and the row is held, or neither.
Contact(w) ==
    LET k == <<wk[w].job, wk[w].n>>
        r == wk[w].row IN
    /\ wk[w].pc = "reserved"
    /\ IF att[k].state = "RESERVED" /\ Owns(r, wk[w].token)
       THEN /\ att' = [att EXCEPT ![k].state = "IN_FLIGHT", ![k].contactedProvider = TRUE]
            /\ row' = [row EXCEPT ![r].nextAttemptAt = Forever]
            /\ Work(w, "contacted")
       ELSE /\ wk' = [wk EXCEPT ![w].pc = "releasing", ![w].seen = "lost"]
            /\ UNCHANGED <<row, att>>
    /\ UNCHANGED <<job, bt, calls, now, crashes, unheard>>

\* The contact commits, but the worker takes it for lost and will not call.
ContactUnheard(w) ==
    LET k == <<wk[w].job, wk[w].n>>
        r == wk[w].row IN
    /\ wk[w].pc = "reserved"
    /\ att[k].state = "RESERVED" /\ Owns(r, wk[w].token)
    /\ WriteFails
    /\ att' = [att EXCEPT ![k].state = "IN_FLIGHT", ![k].contactedProvider = TRUE]
    /\ row' = [row EXCEPT ![r].nextAttemptAt = Forever]
    /\ wk' = [wk EXCEPT ![w].pc = "releasing", ![w].seen = "lost"]
    /\ unheard' = unheard \cup {wk[w].job}
    /\ UNCHANGED <<job, bt, calls, now>>

\* Nothing was sent: the claim and its attempt are given back.  A refusal whose claim
\* was lost meanwhile is not acted on.
ReleaseAndReturn(w) ==
    LET r == wk[w].row
        owned == Owns(r, wk[w].token) IN
    /\ wk[w].pc = "releasing"
    /\ UpdateRowIf(owned, r, ReleasedRow(r, 0, 1))
    /\ IF owned /\ wk[w].seen # "lost" THEN Work(w, "settling") ELSE Rest(w)
    /\ UNCHANGED <<job, att, bt, calls, now, crashes, unheard>>

StartTargetedLookup(w) ==
    /\ wk[w].pc = "contacted"
    /\ calls' = calls \cup {[row |-> wk[w].row, claim |-> wk[w].token, by |-> "targeted"]}
    /\ wk' = [wk EXCEPT ![w].pc = "calling", ![w].since = now]
    /\ UNCHANGED <<row, job, att, bt, now, crashes, unheard>>

TargetedLookupReturns(w) ==
    /\ wk[w].pc = "calling"
    /\ \E s \in Statuses : wk' = [wk EXCEPT ![w].pc = "answered", ![w].seen = s]
    /\ UNCHANGED <<row, job, att, bt, calls, now, crashes, unheard>>

\* The provider threw, the worker's bound fired, the answer made no sense, or it could
\* not be stored.
TargetedLookupFails(w) ==
    /\ wk[w].pc \in {"calling", "answered"}
    /\ Work(w, "failed")
    /\ UNCHANGED <<row, job, att, bt, calls, now, crashes, unheard>>

\* The answer is stored if the claim still stands; if it does not, the worker leaves
\* attempt and job as they are.
CompleteTargeted(w) ==
    LET r == wk[w].row
        owned == Owns(r, wk[w].token) IN
    /\ wk[w].pc = "answered"
    /\ UpdateRowIf(owned, r, ClosedRow(r, wk[w].seen))
    /\ IF owned THEN Work(w, "completed") ELSE Rest(w)
    /\ UNCHANGED <<job, att, bt, calls, now, crashes, unheard>>

\* The answer is stored, but the statement that wrote it or the reading after it fails:
\* the worker takes the outcome for unknown.
CompletionUnheard(w) ==
    LET r == wk[w].row IN
    /\ wk[w].pc = "answered"
    /\ Owns(r, wk[w].token)
    /\ WriteFails
    /\ row' = [row EXCEPT ![r] = ClosedRow(r, wk[w].seen)]
    /\ Work(w, "failed")
    /\ unheard' = unheard \cup {wk[w].job}
    /\ UNCHANGED <<job, att, bt, calls, now>>

\* The delegate is read again, and the attempt finalized from what it says; the
\* reconciliation that follows is ReconcileDelegatedJob.
FinalizeCompleted(w) ==
    /\ wk[w].pc = "completed"
    /\ att' = Finalized(<<wk[w].job, wk[w].n>>, row[wk[w].row].status)
    /\ Rest(w)
    /\ UNCHANGED <<row, job, bt, calls, now, crashes, unheard>>

\* After a contact every uncertainty ends the row, its attempt and its job, in three
\* statements.
BuryRow(w) ==
    LET r == wk[w].row IN
    /\ wk[w].pc = "failed"
    /\ UpdateRowIf(Owns(r, wk[w].token), r, ClosedRow(r, "DEAD_LETTER"))
    /\ Work(w, "buried")
    /\ UNCHANGED <<job, att, bt, calls, now, crashes, unheard>>

\* A failure of the first of them is swallowed, and the others follow.
BuryFails(w) ==
    /\ wk[w].pc = "failed"
    /\ WriteFails
    /\ Work(w, "buried")
    /\ UNCHANGED <<row, job, att, bt, calls, now, unheard>>

FinalizeAbandoned(w) ==
    /\ wk[w].pc = "buried"
    /\ att' = Finalized(<<wk[w].job, wk[w].n>>, "ABANDONED")
    /\ wk' = [wk EXCEPT ![w].pc = "settling", ![w].seen = "DEAD_LETTER"]
    /\ UNCHANGED <<row, job, bt, calls, now, crashes, unheard>>

SettleJob(w) ==
    /\ wk[w].pc = "settling"
    /\ job' = SettledJob(wk[w].job, wk[w].seen, wk[w].seen = "DEAD_LETTER")
    /\ Rest(w)
    /\ UNCHANGED <<row, att, bt, calls, now, crashes, unheard>>

-----------------------------------------------------------------------------
(* The worker's recovery passes.                                           *)

\* A waiting job adopts the verdict of its settled delegate.  A settled row is never
\* rewritten, so the reading and the guarded write are one step.
ReconcileDelegatedJob(w, j) ==
    /\ wk[w].pc = "idle"
    /\ job[j].state = "WAITING_ON_DELEGATE"
    /\ Settled(job[j].iocEnrichmentId)
    /\ job' = SettledJob(j, IocStatusToJobState[row[job[j].iocEnrichmentId].status], FALSE)
    /\ UNCHANGED <<row, att, wk, bt, calls, now, crashes, unheard>>

Stale(k) == att[k].state \in Unfinished /\ att[k].startedAt + StaleTime <= now

\* Slip: the delegate is not looked at first.
SweepReadLedgerOnly(w, j, n) ==
    /\ wk[w].pc = "idle"
    /\ Stale(<<j, n>>)
    /\ wk' = [wk EXCEPT ![w] = [Idle EXCEPT !.pc = "sweeping", !.job = j, !.n = n,
                !.row = job[j].iocEnrichmentId,
                !.seen = IF att[<<j, n>>].contactedProvider THEN "contacted" ELSE "uncontacted"]]
    /\ UNCHANGED <<row, job, att, bt, calls, now, crashes, unheard>>

\* The delegate's answer is looked for first: it may be stored beside an unfinished attempt.
SweepRead(w, j, n) ==
    LET r == job[j].iocEnrichmentId IN
    /\ wk[w].pc = "idle"
    /\ Stale(<<j, n>>)
    /\ wk' = [wk EXCEPT ![w] = [Idle EXCEPT !.pc = "sweeping", !.job = j, !.row = r, !.n = n,
                !.seen = IF Settled(r) THEN row[r].status
                         ELSE IF att[<<j, n>>].contactedProvider THEN "contacted"
                         ELSE "uncontacted"]]
    /\ UNCHANGED <<row, job, att, bt, calls, now, crashes, unheard>>

\* An attempt that never reached the provider, or whose delegate has answered, is only
\* finalized.  The other is finalized with its job in one transaction, which commits
\* whether or not a job was waiting; only if one was is the row retired next.
SweepWrite(w) ==
    LET j == wk[w].job
        k == <<j, wk[w].n>>
        ambiguous == wk[w].seen = "contacted" /\ att[k].state \in Unfinished IN
    /\ wk[w].pc = "sweeping"
    /\ att' = Finalized(k, IF wk[w].seen \in RowStates THEN wk[w].seen ELSE "ABANDONED")
    /\ job' = IF ambiguous THEN SettledJob(j, "DEAD_LETTER", TRUE) ELSE job
    /\ IF ambiguous /\ job[j].state = "WAITING_ON_DELEGATE" THEN Work(w, "retiring") ELSE Rest(w)
    /\ UNCHANGED <<row, bt, calls, now, crashes, unheard>>

\* deadLetterUnleasedJob: a statement of its own, which a live lease refuses.
RetireHeldRow(w) ==
    LET r == wk[w].row IN
    /\ wk[w].pc = "retiring"
    /\ UpdateRowIf(row[r].status = "PENDING" /\ LeaseFree(r, now), r, ClosedRow(r, "DEAD_LETTER"))
    /\ Rest(w)
    /\ UNCHANGED <<job, att, bt, calls, now, crashes, unheard>>

-----------------------------------------------------------------------------
(* The administrator's batch.  It reads the clock once and works through   *)
(* rows of many keys, so any time may pass before it comes to this one.    *)

ListPendingCandidate(b, r) ==
    /\ bt[b].pc = "idle"
    /\ Claimable(r, now)
    /\ bt' = [bt EXCEPT ![b] = [Idle EXCEPT !.pc = "listed", !.row = r, !.since = now,
                !.seen = IF row[r].attemptCount >= MaxAttempts THEN "exhausted" ELSE "none"]]
    /\ UNCHANGED <<row, job, att, wk, calls, now, crashes, unheard>>

SweepExhausted(b) ==
    LET r == bt[b].row IN
    /\ bt[b].pc = "listed" /\ bt[b].seen = "exhausted"
    /\ UpdateRowIf(/\ row[r].status = "PENDING"
                   /\ row[r].attemptCount >= MaxAttempts
                   /\ LeaseFree(r, bt[b].since),
                   r, ClosedRow(r, "DEAD_LETTER"))
    /\ Stop(b)
    /\ UNCHANGED <<job, att, wk, calls, now, crashes, unheard>>

\* Its lease counts from the start of the batch, and may be over when it is written.
BatchClaim(b) ==
    LET r == bt[b].row IN
    /\ bt[b].pc = "listed" /\ bt[b].seen # "exhausted"
    /\ IF Claimable(r, bt[b].since) /\ row[r].attemptCount < MaxAttempts
       THEN /\ row[r].claims < MaxClaims
            /\ row' = [row EXCEPT ![r] = ClaimedRow(r, bt[b].since)]
            /\ bt' = [bt EXCEPT ![b].pc = "claimed", ![b].token = row[r].claims + 1,
                                ![b].n = row[r].attemptCount + 1]
       ELSE Stop(b) /\ UNCHANGED row
    /\ UNCHANGED <<job, att, wk, calls, now, crashes, unheard>>

\* A cancelled batch gives its claim back with the attempt, before its lookup or after.
BatchCancelled(b) ==
    LET r == bt[b].row IN
    /\ bt[b].pc \in {"claimed", "calling", "answered"}
    /\ UpdateRowIf(Owns(r, bt[b].token), r, ReleasedRow(r, bt[b].since + Delay, 1))
    /\ Stop(b)
    /\ UNCHANGED <<job, att, wk, calls, now, crashes, unheard>>

BatchLookup(b) ==
    /\ bt[b].pc = "claimed"
    /\ calls' = calls \cup {[row |-> bt[b].row, claim |-> bt[b].token, by |-> "batch"]}
    /\ Step(b, "calling")
    /\ UNCHANGED <<row, job, att, wk, now, crashes, unheard>>

BatchLookupReturns(b) ==
    /\ bt[b].pc = "calling"
    /\ \E s \in Statuses : bt' = [bt EXCEPT ![b].pc = "answered", ![b].seen = s]
    /\ UNCHANGED <<row, job, att, wk, calls, now, crashes, unheard>>

\* Slip: a late answer is stored over a row that has been settled.
BatchCompleteLate(b) ==
    /\ bt[b].pc = "answered"
    /\ row' = [row EXCEPT ![bt[b].row] = ClosedRow(bt[b].row, bt[b].seen)]
    /\ Stop(b)
    /\ UNCHANGED <<job, att, wk, calls, now, crashes, unheard>>

BatchComplete(b) ==
    LET r == bt[b].row IN
    /\ bt[b].pc = "answered"
    /\ UpdateRowIf(Owns(r, bt[b].token), r, ClosedRow(r, bt[b].seen))
    /\ Stop(b)
    /\ UNCHANGED <<job, att, wk, calls, now, crashes, unheard>>

\* No provider, a provider that threw, or an answer that cannot be stored: the row is
\* released with a delay, its attempt spent, or buried with its last attempt.
BatchRetryOrBury(b) ==
    LET r == bt[b].row
        new == IF bt[b].n >= MaxAttempts THEN ClosedRow(r, "DEAD_LETTER")
               ELSE ReleasedRow(r, bt[b].since + Delay, 0) IN
    /\ bt[b].pc \in {"claimed", "calling", "answered"}
    /\ UpdateRowIf(Owns(r, bt[b].token), r, new)
    /\ Stop(b)
    /\ UNCHANGED <<job, att, wk, calls, now, crashes, unheard>>

-----------------------------------------------------------------------------
(* The environment.                                                        *)

\* A process dies, or the statement it is at fails and it gives up the row.
WorkerCrash(w) ==
    /\ wk[w].pc # "idle"
    /\ crashes < MaxCrashes
    /\ crashes' = crashes + 1
    /\ Rest(w)
    /\ UNCHANGED <<row, job, att, bt, calls, now, unheard>>

BatchCrash(b) ==
    /\ bt[b].pc # "idle"
    /\ crashes < MaxCrashes
    /\ crashes' = crashes + 1
    /\ Stop(b)
    /\ UNCHANGED <<row, job, att, wk, calls, now, unheard>>

\* Where a worker may be held up for any time, and lose its lease.  From the reservation
\* on, and in a sweep, its statements take no time against the stale margin.
MayPause == {"idle", "listed", "claimed", "releasing", "settling"}

\* A worker's bound on a lookup holds; a batch has none and may take any time.
Tick ==
    /\ now < MaxTime
    /\ \A w \in Workers : \/ wk[w].pc \in MayPause
                          \/ wk[w].pc = "calling" /\ now < wk[w].since + LookupMax
    /\ now' = now + 1
    /\ UNCHANGED <<row, job, att, wk, bt, calls, crashes, unheard>>

Ask == \/ \E r \in Rows : AnswerExpires(r) \/ \E forced \in BOOLEAN : ScheduleEnrichment(r, forced)
       \/ \E j \in Jobs, r \in Rows : CreateDelegatedJob(j, r)

TargetedStep(w) ==
    \/ \E j \in Jobs : ListTargetedCandidate(w, j)
    \/ ClaimTargeted(w) \/ RefuseBeforeLookup(w) \/ ReserveTargeted(w) \/ Contact(w)
    \/ ReleaseAndReturn(w) \/ StartTargetedLookup(w) \/ TargetedLookupReturns(w)
    \/ TargetedLookupFails(w) \/ CompleteTargeted(w) \/ FinalizeCompleted(w)
    \/ BuryRow(w) \/ FinalizeAbandoned(w) \/ SettleJob(w)
    \/ ReserveUnheard(w) \/ ContactUnheard(w) \/ CompletionUnheard(w) \/ BuryFails(w)

RecoveryStep(w) ==
    \/ \E j \in Jobs : ReconcileDelegatedJob(w, j) \/ \E n \in Nums : SweepRead(w, j, n)
    \/ SweepWrite(w) \/ RetireHeldRow(w)

BatchStep(b) ==
    \/ \E r \in Rows : ListPendingCandidate(b, r)
    \/ SweepExhausted(b) \/ BatchClaim(b) \/ BatchCancelled(b) \/ BatchLookup(b)
    \/ BatchLookupReturns(b) \/ BatchComplete(b) \/ BatchRetryOrBury(b)

Next ==
    \/ Ask
    \/ \E w \in Workers : TargetedStep(w) \/ RecoveryStep(w) \/ WorkerCrash(w)
    \/ \E b \in Batches : BatchStep(b) \/ BatchCrash(b)
    \/ Tick

Spec == Init /\ [][Next]_vars

-----------------------------------------------------------------------------
(* What must hold.                                                         *)

\* Every row keeps to the values its columns allow.
TypeOK ==
    /\ row \in [Rows -> Row]
    /\ job \in [Jobs -> Job]
    /\ att \in [Jobs \X Nums -> Attempt]
    /\ wk \in [Workers -> Process]
    /\ bt \in [Batches -> Process]
    /\ calls \subseteq [row: Rows, claim: Claims, by: {"targeted", "batch"}]
    /\ now \in 0..MaxTime
    /\ crashes \in 0..MaxCrashes
    /\ unheard \subseteq Jobs

\* A charged call is the end of its row's queueing: no claim made after that of a
\* targeted call ever calls, whoever makes it, whatever crashes or expires meanwhile.
ContactIsTheLastClaim ==
    \A c, d \in calls : c.row = d.row /\ c.by = "targeted" => d.claim <= c.claim

\* An answer the provider gave is never reported as another, or as unknown: a job that
\* was settled says what its delegate says, unless it was refused before any call; a job
\* is given up beside an answer only if its own worker's write committed unheard.
JobAgreesWithDelegate ==
    \A j \in Jobs :
        LET r == job[j].iocEnrichmentId IN
        /\ job[j].state \in Verdicts \ (Refusals \cup {"DEAD_LETTER"})
              => row[r].status \in Answers /\ job[j].state = IocStatusToJobState[row[r].status]
        /\ job[j].state = "DEAD_LETTER" => row[r].status \notin Answers \/ j \in unheard

\* A settled row, a settled job and a finished attempt are history: no late answer,
\* release, sweep or batch rewrites them.
HistoryIsFinal ==
    [][ /\ \A r \in Rows : Settled(r) => /\ row'[r].status = row[r].status
                                         /\ row'[r].attemptCount = row[r].attemptCount
        /\ \A j \in Jobs : job[j].state \in Verdicts => job'[j] = job[j]
        /\ \A k \in Jobs \X Nums : att[k].state = "FINISHED" => att'[k] = att[k] ]_vars

-----------------------------------------------------------------------------
(* What comments of the code say and these steps do not keep.              *)

\* "The two paths contend on one lock for one row, so exactly one of them can ever call
\* the provider for it": a batch whose lease is over is still calling.
NeverBothCalling ==
    \A w \in Workers, b \in Batches :
        wk[w].pc = "calling" /\ bt[b].pc = "calling" => wk[w].row # bt[b].row

\* "Ambiguous: the request was sent and no durable answer followed": a completion that
\* committed unheard leaves its answer beside the job it is given up for.
AmbiguousIsUnanswered ==
    \A j \in Jobs : job[j].state = "DEAD_LETTER" /\ job[j].ambiguous
                       => row[job[j].iocEnrichmentId].status \notin Answers

\* "A hold is cleared by a path that knows the outcome": a held row has a worker at
\* work on it or an unfinished attempt that the sweep will find.
HeldRowIsSomeones ==
    \A r \in Rows :
        row[r].status = "PENDING" /\ row[r].nextAttemptAt = Forever =>
            \/ \E w \in Workers : wk[w].pc # "idle" /\ wk[w].row = r
            \/ \E k \in Jobs \X Nums : /\ job[k[1]].iocEnrichmentId = r
                                       /\ att[k].state \in Unfinished
=============================================================================
