---------------------------- MODULE DirectLookup ----------------------------
(***************************************************************************)
(* Direct execution of ProviderLookupJob rows by the enrichment workers.   *)
(*                                                                         *)
(* Several worker processes share three PostgreSQL tables: the job rows,   *)
(* the attempt ledger and the daily usage counters.  Every action below is *)
(* one database statement or one interactive transaction of the code, so   *)
(* that everything that can happen between two of them (another worker, a  *)
(* crash, the passing of time) is an interleaving of the model.            *)
(*                                                                         *)
(* Time is relative: a lease counts down from LeaseTime, an unfinished     *)
(* attempt ages up to StaleTime and a call up to LookupMax, which is all   *)
(* the code ever compares.  The UTC day is a counter of its own.           *)
(***************************************************************************)
EXTENDS Integers, FiniteSets

CONSTANTS
    Workers,      \* worker processes
    Jobs,         \* ProviderLookupJob rows that may come to exist
    NoJob,        \* "no row": the worker is between jobs
    SubjectOf,    \* the work identity (queryIdentityHash) of each job
    Buckets,      \* (provider, lane) pairs
    BucketOf,     \* the bucket each job is charged against
    Configured,   \* the jobs whose provider has its credential
    Limit,        \* the live daily budget of each bucket
    Unlimited,    \* the budget that is no bound (limit === null)
    Statuses,     \* the provider statuses a lookup may return
    MaxAttempts,  \* ProviderLookupJob.maxAttempts
    LeaseTime,    \* ENRICHMENT_WORKER_LEASE_SECONDS, in model ticks
    StaleTime,    \* ENRICHMENT_ATTEMPT_STALE_SECONDS, in model ticks
    LookupMax,    \* ENRICHMENT_LOOKUP_MAX_MS, in model ticks
    MaxDay,       \* bound on the number of UTC midnights
    MaxCrashes,   \* bound on the number of worker crashes
    Prompt        \* TRUE: a live worker's database statements take no time
                  \* against the lease and stale margins; FALSE: it may pause

VARIABLES
    job,          \* the ProviderLookupJob rows
    att,          \* the ProviderLookupAttempt rows, by job and attemptNumber
    usage,        \* ProviderDailyUsage.reservedCount, by bucket and day
    wk,           \* each worker's program counter and local variables
    calls,        \* history: the provider calls that left the process
    day,          \* the UTC day
    crashes       \* crashes so far

vars == <<job, att, usage, wk, calls, day, crashes>>

\* A column that is null.
Null == "null"
Subjects == {SubjectOf[j] : j \in Jobs}
Nums == 1..MaxAttempts
Days == 0..MaxDay

AllStatuses == {"SUCCESS", "NOT_FOUND", "RATE_LIMITED", "TIMEOUT", "INVALID_KEY",
                "FAILED", "SKIPPED_DISABLED", "UNSUPPORTED_INDICATOR"}

\* The terminal job state each provider status produces.
StatusToJobState ==
    [s \in AllStatuses |->
        CASE s = "SUCCESS"               -> "SUCCEEDED"
          [] s = "NOT_FOUND"             -> "NO_RECORD"
          [] s = "SKIPPED_DISABLED"      -> "SKIPPED_DISABLED"
          [] s = "UNSUPPORTED_INDICATOR" -> "SKIPPED_UNSUPPORTED_SUBJECT"
          [] OTHER                       -> "FAILED"]

Answered == {"SUCCEEDED", "NO_RECORD", "FAILED", "SKIPPED_DISABLED",
             "SKIPPED_UNSUPPORTED_SUBJECT"}
Terminal == Answered \cup {"SKIPPED_NOT_CONFIGURED", "SKIPPED_BUDGET", "DEAD_LETTER"}
Open == {"PENDING", "LEASED"}

Reasons == {"none", "NOT_CONFIGURED", "MAX_ATTEMPTS_EXHAUSTED", "AMBIGUOUS_AFTER_CONTACT"}
Unfinished == {"RESERVED", "IN_FLIGHT"}
AttemptStates == {"NONE", "FINISHED"} \cup Unfinished

Job == [state: {"ABSENT"} \cup Open \cup Terminal,
        activeLookupKey: {Null} \cup Subjects, claimToken: 0..MaxAttempts,
        lease: 0..LeaseTime, attemptCount: 0..MaxAttempts,
        queriedAt: {Null, "set"}, terminalReasonCode: Reasons]

Attempt == [state: AttemptStates, contactedProvider: BOOLEAN, age: 0..StaleTime,
            usageDate: Days, outcome: {"none", "ABANDONED"} \cup Statuses]

Steps == {"idle", "claimed", "reserving", "refused", "reserved", "marked", "calling",
          "answered", "failed", "recovering", "sweeping"}

Worker == [pc: Steps, job: Jobs \cup {NoJob}, token: 0..MaxAttempts,
           day: Days, age: 0..LookupMax, seen: {"none", "release", "exhaust", "bury",
           "contacted", "uncontacted"} \cup Statuses]

NoRow == [state |-> "ABSENT", activeLookupKey |-> Null, claimToken |-> 0,
          lease |-> 0, attemptCount |-> 0, queriedAt |-> Null,
          terminalReasonCode |-> "none"]
NoAttempt == [state |-> "NONE", contactedProvider |-> FALSE, age |-> 0,
              usageDate |-> 0, outcome |-> "none"]
Idle == [pc |-> "idle", job |-> NoJob, token |-> 0, day |-> 0, age |-> 0, seen |-> "none"]

\* The bounds the configuration validator enforces between the three times, and
\* the shape of the other parameters.
ParamsAssumption ==
    /\ IsFiniteSet(Jobs) /\ NoJob \notin Jobs
    /\ Null \notin Subjects
    /\ BucketOf \in [Jobs -> Buckets]
    /\ Limit \in [Buckets -> Nat \cup {Unlimited}]
    /\ Unlimited \notin Nat
    /\ Statuses \subseteq AllStatuses
    /\ MaxAttempts \in Nat \ {0} /\ MaxDay \in Nat /\ MaxCrashes \in Nat
    /\ LookupMax \in Nat /\ LeaseTime \in Nat /\ StaleTime \in Nat
    /\ LookupMax < LeaseTime /\ LookupMax < StaleTime
    /\ Prompt \in BOOLEAN
ASSUME Params == ParamsAssumption

Init ==
    /\ job = [j \in Jobs |-> NoRow]
    /\ att = [k \in Jobs \X Nums |-> NoAttempt]
    /\ usage = [k \in Buckets \X Days |-> 0]
    /\ wk = [w \in Workers |-> Idle]
    /\ calls = {}
    /\ day = 0
    /\ crashes = 0

-----------------------------------------------------------------------------
(* Statements the handlers share.                                          *)

\* Slip: ownership by attempt number, which a row keeps after its lease is cleared.
OwnsByAttempt(j, token) == job[j].attemptCount = token

\* WHERE state = LEASED AND claimToken = token: the completion credential.
Owns(j, token) == job[j].state = "LEASED" /\ job[j].claimToken = token

\* The columns every terminal transition writes: the identity is released for a
\* future ask and the lease is cleared.
Closed(j, state, reason) ==
    [job[j] EXCEPT !.state = state, !.activeLookupKey = Null, !.claimToken = 0,
                   !.lease = 0, !.terminalReasonCode = reason]

\* A guarded updateMany: a guard that matches no row changes nothing.
UpdateIf(guard, j, row) == job' = IF guard THEN [job EXCEPT ![j] = row] ELSE job

\* The guarded finalization of an attempt: state IN (RESERVED, IN_FLIGHT).
Finalized(k, outcome) ==
    IF att[k].state \in Unfinished
    THEN [att EXCEPT ![k].state = "FINISHED", ![k].outcome = outcome, ![k].age = 0]
    ELSE att

GoIdle(w) == wk' = [wk EXCEPT ![w] = Idle]
GoTo(w, pc) == wk' = [wk EXCEPT ![w].pc = pc]

-----------------------------------------------------------------------------
(* The asking side: a run creates the job its eligible item links.         *)

\* Slip: the identity carries no unique constraint.
CreateBeside(j) ==
    /\ job[j].state = "ABSENT"
    /\ job' = [job EXCEPT ![j].state = "PENDING", ![j].activeLookupKey = SubjectOf[j]]
    /\ UNCHANGED <<att, usage, wk, calls, day, crashes>>

\* activeLookupKey is UNIQUE: while a job for the subject holds it, the ask
\* attaches to that job and inserts nothing.
CreateLookupJob(j) ==
    /\ job[j].state = "ABSENT"
    /\ \A i \in Jobs : job[i].activeLookupKey # SubjectOf[j]
    /\ job' = [job EXCEPT ![j].state = "PENDING", ![j].activeLookupKey = SubjectOf[j]]
    /\ UNCHANGED <<att, usage, wk, calls, day, crashes>>

-----------------------------------------------------------------------------
(* The direct pass: claim, reserve, mark, call, record.                    *)

LeaseFree(j) == job[j].claimToken = 0 \/ job[j].lease = 0

\* The claim token is a fresh UUID.  attemptCount grows with every claim, so the
\* count a claim wrote names the claim, and stands for its token.
ClaimLookupJob(w, j) ==
    /\ wk[w].pc = "idle"
    /\ job[j].state = "PENDING"
    /\ job[j].attemptCount < MaxAttempts
    /\ LeaseFree(j)
    /\ LET n == job[j].attemptCount + 1 IN
        /\ job' = [job EXCEPT ![j].state = "LEASED", ![j].claimToken = n,
                              ![j].lease = LeaseTime, ![j].attemptCount = n]
        /\ wk' = [wk EXCEPT ![w] = [Idle EXCEPT !.pc = "claimed", !.job = j, !.token = n]]
    /\ UNCHANGED <<att, usage, calls, day, crashes>>

\* An unconfigured provider is refused before anything is charged.
SkipNotConfigured(w) ==
    LET j == wk[w].job IN
    /\ wk[w].pc = "claimed"
    /\ j \notin Configured
    /\ UpdateIf(Owns(j, wk[w].token), j,
                Closed(j, "SKIPPED_NOT_CONFIGURED", "NOT_CONFIGURED"))
    /\ GoIdle(w)
    /\ UNCHANGED <<att, usage, calls, day, crashes>>

\* reserveAt: the instant whose UTC day the reservation charges, some statements before
\* the reservation commits and some more before the call.
ReadReserveAt(w) ==
    /\ wk[w].pc = "claimed"
    /\ wk[w].job \in Configured
    /\ wk' = [wk EXCEPT ![w].pc = "reserving", ![w].day = day]
    /\ UNCHANGED <<job, att, usage, calls, day, crashes>>

HasBudget(b, d) == Limit[b] # Unlimited => usage[<<b, d>>] < Limit[b]

\* Slip: the increment commits and the ledger row does not.
ReserveWithoutRow(w) ==
    LET b == BucketOf[wk[w].job]
        d == wk[w].day IN
    /\ wk[w].pc = "reserving"
    /\ HasBudget(b, d)
    /\ usage' = [usage EXCEPT ![<<b, d>>] = @ + 1]
    /\ GoTo(w, "reserved")
    /\ UNCHANGED <<job, att, calls, day, crashes>>

\* The reservation transaction: the guarded increment and the ledger row commit
\* together, or neither does.
ReserveGranted(w) ==
    LET j == wk[w].job
        k == <<j, wk[w].token>>
        b == BucketOf[j]
        d == wk[w].day IN
    /\ wk[w].pc = "reserving"
    /\ HasBudget(b, d)
    /\ att[k].state = "NONE"
    /\ usage' = [usage EXCEPT ![<<b, d>>] = @ + 1]
    /\ att' = [att EXCEPT ![k] = [NoAttempt EXCEPT !.state = "RESERVED", !.usageDate = d]]
    /\ GoTo(w, "reserved")
    /\ UNCHANGED <<job, calls, day, crashes>>

ReserveRefused(w) ==
    /\ wk[w].pc = "reserving"
    /\ ~HasBudget(BucketOf[wk[w].job], wk[w].day)
    /\ GoTo(w, "refused")
    /\ UNCHANGED <<job, att, usage, calls, day, crashes>>

\* One statement terminalizes, refunds the attempt and clears the lease.
RefuseClaimedJobForBudget(w) ==
    LET j == wk[w].job IN
    /\ wk[w].pc = "refused"
    /\ UpdateIf(Owns(j, wk[w].token), j,
                [Closed(j, "SKIPPED_BUDGET", job[j].terminalReasonCode)
                    EXCEPT !.attemptCount = @ - 1])
    /\ GoIdle(w)
    /\ UNCHANGED <<att, usage, calls, day, crashes>>

\* Slip: contact is left to be recorded after the call.
MarkWithoutContact(w) ==
    LET k == <<wk[w].job, wk[w].token>> IN
    /\ wk[w].pc = "reserved"
    /\ att' = IF att[k].state = "RESERVED" THEN [att EXCEPT ![k].state = "IN_FLIGHT"] ELSE att
    /\ GoTo(w, "marked")
    /\ UNCHANGED <<job, usage, calls, day, crashes>>

\* The guard is state = RESERVED; whether it matched is not looked at.
MarkAttemptInFlight(w) ==
    LET k == <<wk[w].job, wk[w].token>> IN
    /\ wk[w].pc = "reserved"
    /\ att' = IF att[k].state = "RESERVED"
              THEN [att EXCEPT ![k].state = "IN_FLIGHT", ![k].contactedProvider = TRUE]
              ELSE att
    /\ GoTo(w, "marked")
    /\ UNCHANGED <<job, usage, calls, day, crashes>>

StartLookup(w) ==
    /\ wk[w].pc = "marked"
    /\ calls' = calls \cup {[job |-> wk[w].job, n |-> wk[w].token, day |-> day]}
    /\ GoTo(w, "calling")
    /\ UNCHANGED <<job, att, usage, day, crashes>>

LookupReturns(w) ==
    /\ wk[w].pc = "calling"
    /\ \E s \in Statuses :
         wk' = [wk EXCEPT ![w].pc = "answered", ![w].seen = s, ![w].age = 0]
    /\ UNCHANGED <<job, att, usage, calls, day, crashes>>

\* The provider threw, or the worker's own bound on the lookup fired.
LookupThrows(w) ==
    /\ wk[w].pc = "calling"
    /\ wk' = [wk EXCEPT ![w].pc = "failed", ![w].age = 0]
    /\ UNCHANGED <<job, att, usage, calls, day, crashes>>

\* The post-call transaction: evidence, ledger and job commit together; if either
\* guard misses, all of it rolls back and the worker walks away (STALE_CLAIM).
RecordAnswer(w) ==
    LET j == wk[w].job
        k == <<j, wk[w].token>>
        s == wk[w].seen IN
    /\ wk[w].pc = "answered"
    /\ IF att[k].state \in Unfinished /\ Owns(j, wk[w].token)
       THEN /\ att' = Finalized(k, s)
            /\ job' = [job EXCEPT ![j] =
                  [Closed(j, StatusToJobState[s], job[j].terminalReasonCode)
                      EXCEPT !.queriedAt = "set"]]
       ELSE UNCHANGED <<att, job>>
    /\ GoIdle(w)
    /\ UNCHANGED <<usage, calls, day, crashes>>

\* The ambiguous branch: two guarded statements in one transaction, and no look
\* at whether either of them matched.
RecordAmbiguous(w) ==
    LET j == wk[w].job IN
    /\ wk[w].pc = "failed"
    /\ att' = Finalized(<<j, wk[w].token>>, "ABANDONED")
    /\ UpdateIf(Owns(j, wk[w].token), j, Closed(j, "DEAD_LETTER", "AMBIGUOUS_AFTER_CONTACT"))
    /\ GoIdle(w)
    /\ UNCHANGED <<usage, calls, day, crashes>>

-----------------------------------------------------------------------------
(* The recovery passes.  Each reads its candidates first and writes later,  *)
(* guarded: "seen" is what it read.                                         *)

Reserved(j) == {n \in Nums : att[<<j, n>>].state # "NONE"}
LatestIs(j, n) == n \in Reserved(j) /\ \A m \in Reserved(j) : m <= n

\* Slips: the lease alone decides; the oldest attempt is read instead of the newest;
\* a finished contacted attempt is left to the sweep, which never looks at it.
ContactIgnored(j, state) == FALSE
OldestContacted(j, state) ==
    att[<<j, 1>>].contactedProvider /\ att[<<j, 1>>].state = state
ContactedInAnyState(j, state) ==
    \E n \in Nums : LatestIs(j, n) /\ att[<<j, n>>].contactedProvider /\ state = "IN_FLIGHT"

\* The job's newest attempt proves its provider was already asked.
ContactedLatest(j, state) ==
    \E n \in Nums : LatestIs(j, n) /\ att[<<j, n>>].contactedProvider
                                   /\ att[<<j, n>>].state = state

\* Slip: off by one.
RecoverPastLimit(w, j) ==
    /\ wk[w].pc = "idle"
    /\ job[j].state = "LEASED" /\ job[j].lease = 0
    /\ ~ContactedLatest(j, "IN_FLIGHT")
    /\ wk' = [wk EXCEPT ![w] = [Idle EXCEPT !.pc = "recovering", !.job = j,
                !.token = job[j].claimToken,
                !.seen = IF ContactedLatest(j, "FINISHED") THEN "bury"
                         ELSE IF job[j].attemptCount > MaxAttempts THEN "exhaust"
                         ELSE "release"]]
    /\ UNCHANGED <<job, att, usage, calls, day, crashes>>

\* An expired lease: bury the job if its contacted attempt is finished, leave it
\* to the sweep if that attempt is not, and give it back otherwise.
RecoverRead(w, j) ==
    /\ wk[w].pc = "idle"
    /\ job[j].state = "LEASED" /\ job[j].lease = 0
    /\ ~ContactedLatest(j, "IN_FLIGHT")
    /\ LET decision == IF ContactedLatest(j, "FINISHED") THEN "bury"
                       ELSE IF job[j].attemptCount >= MaxAttempts THEN "exhaust"
                       ELSE "release" IN
       wk' = [wk EXCEPT ![w] = [Idle EXCEPT !.pc = "recovering", !.job = j,
                                  !.token = job[j].claimToken, !.seen = decision]]
    /\ UNCHANGED <<job, att, usage, calls, day, crashes>>

RecoverWrite(w) ==
    LET j == wk[w].job
        row == CASE wk[w].seen = "bury"    -> Closed(j, "DEAD_LETTER", "AMBIGUOUS_AFTER_CONTACT")
                 [] wk[w].seen = "exhaust" -> Closed(j, "DEAD_LETTER", "MAX_ATTEMPTS_EXHAUSTED")
                 [] OTHER -> [job[j] EXCEPT !.state = "PENDING", !.claimToken = 0, !.lease = 0] IN
    /\ wk[w].pc = "recovering"
    /\ UpdateIf(Owns(j, wk[w].token), j, row)
    /\ GoIdle(w)
    /\ UNCHANGED <<att, usage, calls, day, crashes>>

Stale(k) == att[k].state \in Unfinished /\ att[k].age = StaleTime

SweepRead(w, j, n) ==
    /\ wk[w].pc = "idle"
    /\ Stale(<<j, n>>)
    /\ wk' = [wk EXCEPT ![w] = [Idle EXCEPT !.pc = "sweeping", !.job = j, !.token = n,
                !.seen = IF att[<<j, n>>].contactedProvider THEN "contacted" ELSE "uncontacted"]]
    /\ UNCHANGED <<job, att, usage, calls, day, crashes>>

\* Slips: the job is left for a second statement; a job that is not leased rolls the
\* finalization back.
SweepAttemptOnly(w) ==
    /\ wk[w].pc = "sweeping"
    /\ att' = Finalized(<<wk[w].job, wk[w].token>>, "ABANDONED")
    /\ GoIdle(w)
    /\ UNCHANGED <<job, usage, calls, day, crashes>>
SweepRollsBack(w) ==
    LET j == wk[w].job IN
    /\ wk[w].pc = "sweeping"
    /\ IF job[j].state = "LEASED"
       THEN /\ att' = Finalized(<<j, wk[w].token>>, "ABANDONED")
            /\ job' = [job EXCEPT ![j] = Closed(j, "DEAD_LETTER", "AMBIGUOUS_AFTER_CONTACT")]
       ELSE UNCHANGED <<att, job>>
    /\ GoIdle(w)
    /\ UNCHANGED <<usage, calls, day, crashes>>

\* A contacted attempt buries whatever lease the job is under, by state alone; the
\* transaction commits even when the job's guard matched no row.
SweepWrite(w) ==
    LET j == wk[w].job
        k == <<j, wk[w].token>> IN
    /\ wk[w].pc = "sweeping"
    /\ att' = Finalized(k, "ABANDONED")
    /\ UpdateIf(/\ wk[w].seen = "contacted"
                /\ att[k].state \in Unfinished
                /\ job[j].state = "LEASED",
                j, Closed(j, "DEAD_LETTER", "AMBIGUOUS_AFTER_CONTACT"))
    /\ GoIdle(w)
    /\ UNCHANGED <<usage, calls, day, crashes>>

-----------------------------------------------------------------------------
(* The environment: crashes, the clock and midnight.                       *)

\* The process dies; its local variables are lost and it is started again.
Crash(w) ==
    /\ wk[w].pc # "idle"
    /\ crashes < MaxCrashes
    /\ crashes' = crashes + 1
    /\ GoIdle(w)
    /\ UNCHANGED <<job, att, usage, calls, day>>

Older(age, max) == IF age < max THEN age + 1 ELSE age

\* Under Prompt, time passes only while a live worker waits for a poll or for a
\* provider, and the bound on a lookup fires no later than LookupMax.
Tick ==
    /\ Prompt => \A w \in Workers : \/ wk[w].pc = "idle"
                                    \/ wk[w].pc = "calling" /\ wk[w].age < LookupMax
    /\ job' = [j \in Jobs |-> [job[j] EXCEPT !.lease = IF @ > 0 THEN @ - 1 ELSE 0]]
    /\ att' = [k \in Jobs \X Nums |->
                 IF att[k].state \in Unfinished
                 THEN [att[k] EXCEPT !.age = Older(@, StaleTime)] ELSE att[k]]
    /\ wk' = [w \in Workers |->
                 IF wk[w].pc = "calling"
                 THEN [wk[w] EXCEPT !.age = Older(@, LookupMax)] ELSE wk[w]]
    /\ UNCHANGED <<usage, calls, day, crashes>>

\* Midnight may fall between any two statements.  Under Prompt two of them do not, a day
\* being longer than any margin.
Midnight ==
    /\ day < MaxDay
    /\ Prompt => \A w \in Workers :
                     wk[w].pc \in {"reserving", "reserved", "marked"} => wk[w].day = day
    /\ day' = day + 1
    /\ UNCHANGED <<job, att, usage, wk, calls, crashes>>

\* The steps a worker that holds a job, or a row it read, takes next.
Proceed(w) ==
    \/ SkipNotConfigured(w) \/ ReadReserveAt(w) \/ ReserveGranted(w) \/ ReserveRefused(w)
    \/ RefuseClaimedJobForBudget(w) \/ MarkAttemptInFlight(w) \/ StartLookup(w)
    \/ LookupReturns(w) \/ LookupThrows(w) \/ RecordAnswer(w) \/ RecordAmbiguous(w)
    \/ RecoverWrite(w) \/ SweepWrite(w)

\* What an idle worker may find to do about one job.
Pick(w, j) ==
    \/ ClaimLookupJob(w, j)
    \/ RecoverRead(w, j)
    \/ \E n \in Nums : SweepRead(w, j, n)

Next ==
    \/ \E j \in Jobs : CreateLookupJob(j)
    \/ \E w \in Workers : Proceed(w) \/ Crash(w) \/ \E j \in Jobs : Pick(w, j)
    \/ Tick
    \/ Midnight

Spec == Init /\ [][Next]_vars

\* setTimeout re-arms after every tick of a worker, and every pass lists its
\* candidates oldest first, so no candidate of a pass is passed over for ever.
\* Nobody is obliged to ask, to crash, or to cross midnight.
Fairness ==
    /\ WF_vars(Tick)
    /\ \A w \in Workers : WF_vars(Proceed(w))
    /\ \A j \in Jobs :
         /\ WF_vars(\E w \in Workers : ClaimLookupJob(w, j))
         /\ WF_vars(\E w \in Workers : RecoverRead(w, j))
         /\ \A n \in Nums : WF_vars(\E w \in Workers : SweepRead(w, j, n))

FairSpec == Spec /\ Fairness

-----------------------------------------------------------------------------
(* What holds however long a worker pauses.                                *)

\* Every row keeps to the values its columns allow.
TypeOK ==
    /\ job \in [Jobs -> Job]
    /\ att \in [Jobs \X Nums -> Attempt]
    /\ usage \in [Buckets \X Days -> Nat]
    /\ wk \in [Workers -> Worker]
    /\ calls \subseteq [job: Jobs, n: Nums, day: Days]
    /\ day \in Days
    /\ crashes \in 0..MaxCrashes

\* A job holds its work identity exactly while it is open, and a lease exactly
\* while it is leased: every one of the statements that close a job must
\* release both, or its subject can never be asked about again.
HoldsIffOpen ==
    \A j \in Jobs :
        /\ job[j].activeLookupKey = IF job[j].state \in Open THEN SubjectOf[j] ELSE Null
        /\ job[j].claimToken # 0 <=> job[j].state = "LEASED"

\* Every queued job has an attempt left, so it can be claimed: the pass that retires
\* exhausted queued jobs never finds one, and has no action here.
QueuedIsClaimable == \A j \in Jobs : job[j].state = "PENDING" => job[j].attemptCount < MaxAttempts

ChargedTo(b, d) ==
    {k \in Jobs \X Nums : att[k].state # "NONE" /\ BucketOf[k[1]] = b /\ att[k].usageDate = d}

\* The usage counter is the number of ledger rows of its day: no reservation without
\* its attempt, no attempt without its reservation, and no refund; and workers that race
\* for the last unit of a budget do not reserve past it.
LedgerMatchesUsage ==
    \A b \in Buckets, d \in Days :
        /\ usage[<<b, d>>] = Cardinality(ChargedTo(b, d))
        /\ Limit[b] # Unlimited => usage[<<b, d>>] <= Limit[b]

\* A terminal job and a finished attempt are history: no late answer, recovery or
\* sweep rewrites either of them.
HistoryIsFinal ==
    [][ /\ \A j \in Jobs : job[j].state \in Terminal => job'[j] = job[j]
        /\ \A k \in Jobs \X Nums : att[k].state = "FINISHED" => att'[k] = att[k] ]_vars

-----------------------------------------------------------------------------
(* What holds while workers are prompt (Prompt = TRUE).                    *)

CallsFor(j) == {c \in calls : c.job = j}

\* The promise of the contract: a question is put to its provider at most once,
\* whatever crashes, expires or is swept meanwhile.
AtMostOneCall == \A j \in Jobs : Cardinality(CallsFor(j)) <= 1

\* The books are honest about every call, although it is marked before it is made and its
\* answer stored after it: it has a ledger row to itself, which says that the provider was
\* contacted and charges the day of the call or, when midnight falls between the
\* reservation and the call, the day before; and a job that reports an answer, or the time
\* of one, has the row and the call it came from.
CallsAreAccountedFor ==
    /\ \A c \in calls : /\ att[<<c.job, c.n>>].contactedProvider
                        /\ att[<<c.job, c.n>>].usageDate \in {c.day, c.day - 1}
    /\ \A c, d \in calls : c.job = d.job /\ c.n = d.n => c = d
    /\ \A j \in Jobs :
          /\ job[j].queriedAt # Null <=> job[j].state \in Answered
          /\ job[j].state \in Answered =>
                \E c \in calls :
                    /\ c.job = j
                    /\ att[<<j, c.n>>].state = "FINISHED"
                    /\ att[<<j, c.n>>].outcome \in Statuses
                    /\ StatusToJobState[att[<<j, c.n>>].outcome] = job[j].state

\* A job whose provider may have been asked is never given back to the queue; and when
\* its attempt is finished the job is too, since recovery would give back a leased one.
ContactSettlesJob ==
    \A j \in Jobs, n \in Nums :
        att[<<j, n>>].contactedProvider =>
            /\ job[j].state # "PENDING"
            /\ att[<<j, n>>].state = "FINISHED" => job[j].state \in Terminal

\* The reason a dead letter gives is true: attempts are exhausted only by claims
\* that never reached the provider, and an ambiguity is one that did.
DeadLetterReasonIsTrue ==
    \A j \in Jobs :
        job[j].state = "DEAD_LETTER" =>
            /\ job[j].terminalReasonCode = "MAX_ATTEMPTS_EXHAUSTED" => CallsFor(j) = {}
            /\ job[j].terminalReasonCode = "AMBIGUOUS_AFTER_CONTACT" =>
                 \E n \in Nums : att[<<j, n>>].contactedProvider /\ att[<<j, n>>].outcome = "ABANDONED"

-----------------------------------------------------------------------------
(* The promise this implements while workers are prompt.                   *)

\* What a job's row says of its question.
PhaseOf(j) ==
    CASE job[j].state = "ABSENT"   -> "absent"
      [] job[j].state \in Open     -> "queued"
      [] job[j].state \in Answered -> "answered"
      [] OTHER -> IF job[j].terminalReasonCode = "AMBIGUOUS_AFTER_CONTACT"
                  THEN "unknown" ELSE "not_asked"

Promise == INSTANCE LookupPromise WITH
    phase <- [j \in Jobs |-> PhaseOf(j)],
    asked <- [j \in Jobs |-> CallsFor(j) # {}]

\* Leases, attempts, recovery and sweep together implement the promise: each of
\* their steps settles, asks or queues one question, or changes nothing it says.
KeepsPromise == Promise!Spec

-----------------------------------------------------------------------------
(* What a comment of the code says and these steps do not keep.            *)

\* "The UTC calendar day an attempt reserves against - the day the call actually happens,
\* which is the only day a provider could attribute it to": the day is that of reserveAt,
\* and the call is made some statements later.
CallsChargeTheirDay == \A c \in calls : att[<<c.job, c.n>>].usageDate = c.day

-----------------------------------------------------------------------------
(* What happens in the end (FairSpec).                                     *)

\* Every job that is asked for is settled, so the runs that wait on it can be.
EveryJobSettles == \A j \in Jobs : job[j].state \in Open ~> job[j].state \in Terminal

\* Every reservation is accounted for: no attempt stays unfinished for ever.
EveryAttemptFinishes ==
    \A k \in Jobs \X Nums : att[k].state \in Unfinished ~> att[k].state = "FINISHED"
=============================================================================
