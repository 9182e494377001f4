------------------------- MODULE DirectLookupProofs -------------------------
(***************************************************************************)
(* Theorems about DirectLookup that hold for every number of workers,      *)
(* jobs, buckets, attempts, crashes and midnights.                         *)
(*                                                                         *)
(* IInv holds however long a worker pauses, and so do the theorems that    *)
(* rest on it alone.  PInv adds what is true only while a live worker's    *)
(* statements take no time against its lease (Prompt): from it follow the  *)
(* invariants about the calls and the refinement of LookupPromise.         *)
(***************************************************************************)
EXTENDS DirectLookup, FiniteSetTheorems, TLAPS

-----------------------------------------------------------------------------
(* The inductive invariant, one part for each table.                       *)

\* The token of a lease is the count its claim wrote, so a later claim never has
\* the token of an earlier one; a row nobody asked for has had no claim.
LeaseNamesClaim ==
    \A j \in Jobs :
        /\ job[j].state = "LEASED" => job[j].claimToken = job[j].attemptCount
        /\ job[j].state # "LEASED" => job[j].lease = 0
        /\ job[j].state = "ABSENT" => job[j].attemptCount = 0

JobInv ==
    /\ job \in [Jobs -> Job]
    /\ LeaseNamesClaim
    /\ HoldsIffOpen
    /\ QueuedIsClaimable

\* A worker that is not idle works on a job, under a token that a claim wrote, and
\* one that decided to give a job back read a claim below the limit.
WorkersHoldTokens ==
    \A w \in Workers :
        wk[w].pc # "idle" =>
            /\ wk[w].job \in Jobs
            /\ wk[w].token \in Nums
            /\ wk[w].pc = "recovering" /\ wk[w].seen \notin {"bury", "exhaust"}
                   => wk[w].token < MaxAttempts
            /\ wk[w].pc = "answered" => wk[w].seen \in Statuses

WorkerInv ==
    /\ wk \in [Workers -> Worker]
    /\ WorkersHoldTokens

LedgerInv ==
    /\ att \in [Jobs \X Nums -> Attempt]
    /\ usage \in [Buckets \X Days -> Nat]
    /\ calls \subseteq [job: Jobs, n: Nums, day: Days]
    /\ day \in Days
    /\ crashes \in 0..MaxCrashes

IInv == JobInv /\ WorkerInv /\ LedgerInv

-----------------------------------------------------------------------------
(* Facts about the parameters and the statements the handlers share.       *)

LEMMA ParamFacts ==
    /\ MaxAttempts \in Nat \ {0} /\ MaxDay \in Nat /\ MaxCrashes \in Nat
    /\ LookupMax \in Nat /\ LeaseTime \in Nat /\ StaleTime \in Nat
    /\ LookupMax < LeaseTime /\ LookupMax < StaleTime
    /\ NoJob \notin Jobs /\ Null \notin Subjects
    /\ Statuses \subseteq AllStatuses
    /\ BucketOf \in [Jobs -> Buckets]
BY Params DEF ParamsAssumption

LEMMA Zeros ==
    0 \in 0..MaxAttempts /\ 0 \in 0..LeaseTime /\ 0 \in 0..StaleTime /\ 0 \in 0..LookupMax
    /\ 0 \in Days
BY ParamFacts DEF Days

\* Closing a row yields a well formed row that is neither open nor leased.
LEMMA ClosedRow ==
    ASSUME NEW j \in Jobs, job[j] \in Job, NEW s \in Terminal, NEW r \in Reasons
    PROVE  /\ Closed(j, s, r) \in Job
           /\ Closed(j, s, r).state = s
           /\ Closed(j, s, r).activeLookupKey = Null
           /\ Closed(j, s, r).claimToken = 0 /\ Closed(j, s, r).lease = 0
           /\ Closed(j, s, r).attemptCount = job[j].attemptCount
<1>1. 0 \in 0..MaxAttempts /\ 0 \in 0..LeaseTime
  BY ParamFacts
<1>2. Closed(j, s, r) \in Job
  BY <1>1 DEF Closed, Job
<1>3. QED
  BY <1>2 DEF Closed, Job

\* Overwriting a row with a closed one keeps the invariant of the job table.
LEMMA CloseKeepsJobInv ==
    ASSUME JobInv, NEW j \in Jobs, NEW row \in Job, NEW guard,
           row.state \in Terminal, row.activeLookupKey = Null,
           row.claimToken = 0, row.lease = 0,
           UpdateIf(guard, j, row)
    PROVE  JobInv'
<1>1. row.state \notin Open \cup {"LEASED", "PENDING", "ABSENT"}
  BY DEF Terminal, Answered, Open
<1>2. CASE ~guard
  BY <1>2 DEF UpdateIf, JobInv, LeaseNamesClaim, HoldsIffOpen, QueuedIsClaimable
<1>3. CASE guard
  <2>1. job' = [job EXCEPT ![j] = row]
    BY <1>3 DEF UpdateIf
  <2>2. job' \in [Jobs -> Job]
    BY <2>1 DEF JobInv
  <2>3. \A i \in Jobs : job'[i] = IF i = j THEN row ELSE job[i]
    BY <2>1 DEF JobInv
  <2>4. LeaseNamesClaim'
    BY <1>1, <2>3 DEF JobInv, LeaseNamesClaim
  <2>5. HoldsIffOpen'
    BY <1>1, <2>3 DEF JobInv, HoldsIffOpen
  <2>6. QueuedIsClaimable'
    BY <1>1, <2>3 DEF JobInv, QueuedIsClaimable
  <2>7. QED
    BY <2>2, <2>4, <2>5, <2>6 DEF JobInv
<1>4. QED
  BY <1>2, <1>3

LEMMA FinalizedType ==
    ASSUME att \in [Jobs \X Nums -> Attempt], NEW k \in Jobs \X Nums,
           NEW o \in {"ABANDONED"} \cup Statuses
    PROVE  Finalized(k, o) \in [Jobs \X Nums -> Attempt]
<1>1. 0 \in 0..StaleTime
  BY ParamFacts
<1>2. "FINISHED" \in AttemptStates
  BY DEF AttemptStates
<1>3. QED
  <2>1. CASE att[k].state \in Unfinished
    <3>1. [att[k] EXCEPT !.state = "FINISHED", !.outcome = o, !.age = 0] \in Attempt
      BY <1>1, <1>2 DEF Attempt
    <3>2. Finalized(k, o) = [att EXCEPT ![k] = [att[k] EXCEPT !.state = "FINISHED", !.outcome = o, !.age = 0]]
      BY <2>1 DEF Finalized
    <3>3. QED
      BY <3>1, <3>2
  <2>2. CASE att[k].state \notin Unfinished
    BY <2>2 DEF Finalized
  <2>3. QED
    BY <2>1, <2>2

\* A worker that goes idle owes nothing.
LEMMA IdleKeepsWorkerInv ==
    ASSUME WorkerInv, NEW w \in Workers, GoIdle(w)
    PROVE  WorkerInv'
<1>1. Idle \in Worker
  BY Zeros DEF Idle, Worker, Steps
<1>2. wk' \in [Workers -> Worker] /\ \A v \in Workers : wk'[v] = IF v = w THEN Idle ELSE wk[v]
  BY <1>1 DEF GoIdle, WorkerInv
<1>3. QED
  BY <1>2 DEF WorkerInv, WorkersHoldTokens, Idle

\* Moving on to a step other than the two that carry a reading keeps its job and token.
LEMMA GoToKeepsWorkerInv ==
    ASSUME WorkerInv, NEW w \in Workers, wk[w].pc # "idle",
           NEW p \in {"refused", "reserved", "marked", "calling", "failed"}, GoTo(w, p)
    PROVE  WorkerInv'
<1>1. [wk[w] EXCEPT !.pc = p] \in Worker
  BY DEF WorkerInv, Worker, Steps
<1>2. /\ wk' \in [Workers -> Worker]
      /\ \A v \in Workers : wk'[v] = IF v = w THEN [wk[w] EXCEPT !.pc = p] ELSE wk[v]
  BY <1>1 DEF GoTo, WorkerInv
<1>3. QED
  BY <1>2 DEF WorkerInv, WorkersHoldTokens, Worker

-----------------------------------------------------------------------------
THEOREM Initialized == Init => IInv
<1> SUFFICES ASSUME Init PROVE IInv
  OBVIOUS
<1>1. NoRow \in Job /\ NoAttempt \in Attempt /\ Idle \in Worker
  <2>1. 0 \in 0..MaxAttempts /\ 0 \in 0..LeaseTime /\ 0 \in 0..StaleTime /\ 0 \in Days
        /\ 0 \in 0..LookupMax
    BY ParamFacts DEF Days
  <2>2. NoRow \in Job
    BY <2>1 DEF NoRow, Job, Reasons
  <2>3. NoAttempt \in Attempt
    BY <2>1, Zenon DEF NoAttempt, Attempt, AttemptStates
  <2>4. Idle \in Worker
    BY <2>1 DEF Idle, Worker, Steps
  <2>5. QED
    BY <2>2, <2>3, <2>4
<1>2. JobInv
  BY <1>1 DEF Init, JobInv, LeaseNamesClaim, HoldsIffOpen, QueuedIsClaimable, NoRow, Open
<1>3. WorkerInv
  BY <1>1 DEF Init, WorkerInv, WorkersHoldTokens, Idle
<1>4. LedgerInv
  BY <1>1, ParamFacts DEF Init, LedgerInv, Days
<1>5. QED
  BY <1>2, <1>3, <1>4 DEF IInv

-----------------------------------------------------------------------------
(* One lemma for each action.                                              *)

LEMMA CreateStep == ASSUME IInv, NEW j \in Jobs, CreateLookupJob(j) PROVE IInv'
<1> DEFINE row == [job[j] EXCEPT !.state = "PENDING", !.activeLookupKey = SubjectOf[j]]
<1>1. row \in Job /\ row.state = "PENDING" /\ row.activeLookupKey = SubjectOf[j]
      /\ row.claimToken = job[j].claimToken /\ row.lease = job[j].lease
      /\ row.attemptCount = job[j].attemptCount
  BY DEF IInv, JobInv, Job, Subjects, Open
<1>2. \A i \in Jobs : job'[i] = IF i = j THEN row ELSE job[i]
  BY DEF CreateLookupJob, IInv, JobInv
<1>3. job' \in [Jobs -> Job]
  BY <1>1 DEF CreateLookupJob, IInv, JobInv
<1>4. JobInv'
  <2>1. LeaseNamesClaim'
    BY <1>1, <1>2 DEF CreateLookupJob, IInv, JobInv, LeaseNamesClaim
  <2>2. HoldsIffOpen'
    BY <1>1, <1>2 DEF CreateLookupJob, IInv, JobInv, HoldsIffOpen, Open
  <2>3. QueuedIsClaimable'
    BY <1>1, <1>2, ParamFacts DEF CreateLookupJob, IInv, JobInv, LeaseNamesClaim, QueuedIsClaimable
  <2>4. QED
    BY <1>3, <2>1, <2>2, <2>3 DEF JobInv
<1>5. QED
  BY <1>4 DEF CreateLookupJob, IInv, WorkerInv, WorkersHoldTokens, LedgerInv

LEMMA ClaimStep ==
    ASSUME IInv, NEW w \in Workers, NEW j \in Jobs, ClaimLookupJob(w, j) PROVE IInv'
<1> DEFINE n == job[j].attemptCount + 1
           row == [job[j] EXCEPT !.state = "LEASED", !.claimToken = n,
                                 !.lease = LeaseTime, !.attemptCount = n]
           wrk == [Idle EXCEPT !.pc = "claimed", !.job = j, !.token = n]
<1>1. n \in Nums /\ n \in 0..MaxAttempts /\ n # 0 /\ LeaseTime \in 0..LeaseTime
  BY ParamFacts DEF ClaimLookupJob, IInv, JobInv, Job, Nums
<1>2. row \in Job /\ row.state = "LEASED" /\ row.claimToken = n /\ row.attemptCount = n
      /\ row.activeLookupKey = job[j].activeLookupKey
  BY <1>1 DEF IInv, JobInv, Job, Open
<1>3. \A i \in Jobs : job'[i] = IF i = j THEN row ELSE job[i]
  BY DEF ClaimLookupJob, IInv, JobInv
<1>4. job' \in [Jobs -> Job]
  BY <1>2 DEF ClaimLookupJob, IInv, JobInv
<1>5. JobInv'
  <2>1. LeaseNamesClaim'
    BY <1>2, <1>3 DEF IInv, JobInv, LeaseNamesClaim
  <2>2. HoldsIffOpen'
    BY <1>1, <1>2, <1>3 DEF ClaimLookupJob, IInv, JobInv, HoldsIffOpen, Open
  <2>3. QueuedIsClaimable'
    BY <1>2, <1>3 DEF IInv, JobInv, QueuedIsClaimable
  <2>4. QED
    BY <1>4, <2>1, <2>2, <2>3 DEF JobInv
<1>6. wrk \in Worker /\ wrk.pc = "claimed" /\ wrk.job = j /\ wrk.token = n
  BY <1>1, Zeros DEF Idle, Worker, Steps
<1>7. \A v \in Workers : wk'[v] = IF v = w THEN wrk ELSE wk[v]
  BY DEF ClaimLookupJob, IInv, WorkerInv
<1>8. wk' \in [Workers -> Worker]
  BY <1>6 DEF ClaimLookupJob, IInv, WorkerInv
<1>9. WorkerInv'
  BY <1>1, <1>6, <1>7, <1>8 DEF IInv, WorkerInv, WorkersHoldTokens
<1>10. QED
  BY <1>5, <1>9 DEF ClaimLookupJob, IInv, LedgerInv

LEMMA SkipStep == ASSUME IInv, NEW w \in Workers, SkipNotConfigured(w) PROVE IInv'
<1> DEFINE j == wk[w].job
           row == Closed(j, "SKIPPED_NOT_CONFIGURED", "NOT_CONFIGURED")
<1>1. j \in Jobs
  BY DEF SkipNotConfigured, IInv, WorkerInv, WorkersHoldTokens
<1>2. "SKIPPED_NOT_CONFIGURED" \in Terminal /\ "NOT_CONFIGURED" \in Reasons
  BY DEF Terminal, Reasons
<1>3. JobInv'
  BY <1>1, <1>2, ClosedRow, CloseKeepsJobInv DEF SkipNotConfigured, IInv, JobInv
<1>4. WorkerInv'
  BY IdleKeepsWorkerInv DEF SkipNotConfigured, IInv
<1>5. QED
  BY <1>3, <1>4 DEF SkipNotConfigured, IInv, LedgerInv

LEMMA ReadReserveAtStep == ASSUME IInv, NEW w \in Workers, ReadReserveAt(w) PROVE IInv'
<1> DEFINE wrk == [wk[w] EXCEPT !.pc = "reserving", !.day = day]
<1>1. wrk \in Worker
  BY DEF IInv, WorkerInv, LedgerInv, Worker, Steps
<1>2. wk' \in [Workers -> Worker] /\ \A v \in Workers : wk'[v] = IF v = w THEN wrk ELSE wk[v]
  BY <1>1 DEF ReadReserveAt, IInv, WorkerInv
<1>3. WorkerInv'
  BY <1>2 DEF ReadReserveAt, IInv, WorkerInv, WorkersHoldTokens, Worker
<1>4. QED
  BY <1>3 DEF ReadReserveAt, IInv, LedgerInv, JobInv, LeaseNamesClaim, HoldsIffOpen, QueuedIsClaimable

LEMMA ReserveGrantedStep == ASSUME IInv, NEW w \in Workers, ReserveGranted(w) PROVE IInv'
<1> DEFINE j == wk[w].job
           k == <<j, wk[w].token>>
           row == [NoAttempt EXCEPT !.state = "RESERVED", !.usageDate = wk[w].day]
<1>1. j \in Jobs /\ k \in Jobs \X Nums /\ wk[w].pc # "idle"
  BY DEF ReserveGranted, IInv, WorkerInv, WorkersHoldTokens
<1>2. row \in Attempt
  <2>1. 0 \in 0..StaleTime /\ wk[w].day \in Days
    BY Zeros DEF IInv, WorkerInv, Worker
  <2>2. QED
    BY <2>1, Zenon DEF NoAttempt, Attempt, AttemptStates, Unfinished
<1>3. att' \in [Jobs \X Nums -> Attempt]
  BY <1>1, <1>2 DEF ReserveGranted, IInv, LedgerInv
<1>4. usage' \in [Buckets \X Days -> Nat]
  <2>1. BucketOf[j] \in Buckets /\ wk[w].day \in Days
    BY <1>1, ParamFacts DEF IInv, WorkerInv, Worker
  <2>2. QED
    BY <2>1 DEF ReserveGranted, IInv, LedgerInv
<1>5. WorkerInv'
  BY <1>1, GoToKeepsWorkerInv DEF ReserveGranted, IInv
<1>6. QED
  BY <1>3, <1>4, <1>5
     DEF ReserveGranted, IInv, LedgerInv, JobInv, LeaseNamesClaim, HoldsIffOpen, QueuedIsClaimable

LEMMA ReserveRefusedStep == ASSUME IInv, NEW w \in Workers, ReserveRefused(w) PROVE IInv'
<1>1. WorkerInv'
  BY GoToKeepsWorkerInv DEF ReserveRefused, IInv
<1>2. QED
  BY <1>1 DEF ReserveRefused, IInv, LedgerInv, JobInv, LeaseNamesClaim, HoldsIffOpen, QueuedIsClaimable

LEMMA RefuseStep == ASSUME IInv, NEW w \in Workers, RefuseClaimedJobForBudget(w) PROVE IInv'
<1> DEFINE j == wk[w].job
           closed == Closed(j, "SKIPPED_BUDGET", job[j].terminalReasonCode)
           row == [closed EXCEPT !.attemptCount = @ - 1]
<1>1. j \in Jobs /\ wk[w].token \in Nums
  BY DEF RefuseClaimedJobForBudget, IInv, WorkerInv, WorkersHoldTokens
<1>2. "SKIPPED_BUDGET" \in Terminal /\ job[j].terminalReasonCode \in Reasons /\ job[j] \in Job
  BY <1>1 DEF Terminal, IInv, JobInv, Job
<1>3. closed \in Job /\ closed.state = "SKIPPED_BUDGET" /\ closed.activeLookupKey = Null
      /\ closed.claimToken = 0 /\ closed.lease = 0 /\ closed.attemptCount = job[j].attemptCount
  BY <1>1, <1>2, ClosedRow
<1>4. CASE Owns(j, wk[w].token)
  <2>1. closed.attemptCount - 1 \in 0..MaxAttempts
    BY <1>1, <1>3, <1>4, ParamFacts DEF Owns, IInv, JobInv, LeaseNamesClaim, Nums, Job
  <2>2. row \in Job /\ row.state = "SKIPPED_BUDGET" /\ row.activeLookupKey = Null
        /\ row.claimToken = 0 /\ row.lease = 0
    BY <1>3, <2>1 DEF Job
  <2>3. QED
    <3>1. JobInv'
      BY <1>1, <1>2, <2>2, CloseKeepsJobInv DEF RefuseClaimedJobForBudget, IInv
    <3>2. WorkerInv'
      BY IdleKeepsWorkerInv DEF RefuseClaimedJobForBudget, IInv
    <3>3. QED
      BY <3>1, <3>2 DEF RefuseClaimedJobForBudget, IInv, LedgerInv
<1>5. CASE ~Owns(j, wk[w].token)
  <2>1. job' = job
    BY <1>5 DEF RefuseClaimedJobForBudget, UpdateIf
  <2>2. WorkerInv'
    BY IdleKeepsWorkerInv DEF RefuseClaimedJobForBudget, IInv
  <2>3. QED
    BY <2>1, <2>2 DEF RefuseClaimedJobForBudget, IInv, LedgerInv, JobInv, LeaseNamesClaim,
          HoldsIffOpen, QueuedIsClaimable
<1>6. QED
  BY <1>4, <1>5

LEMMA MarkStep == ASSUME IInv, NEW w \in Workers, MarkAttemptInFlight(w) PROVE IInv'
<1> DEFINE k == <<wk[w].job, wk[w].token>>
           row == [att[k] EXCEPT !.state = "IN_FLIGHT", !.contactedProvider = TRUE]
<1>1. k \in Jobs \X Nums /\ wk[w].pc # "idle"
  BY DEF MarkAttemptInFlight, IInv, WorkerInv, WorkersHoldTokens
<1>2. att[k] \in Attempt /\ "IN_FLIGHT" \in AttemptStates
  BY <1>1 DEF IInv, LedgerInv, AttemptStates, Unfinished
<1>3. row \in Attempt
  BY <1>2, Zenon DEF Attempt
<1>4. att' \in [Jobs \X Nums -> Attempt]
  <2>1. CASE att[k].state = "RESERVED"
    <3>1. att' = [att EXCEPT ![k] = row]
      BY <2>1 DEF MarkAttemptInFlight
    <3>2. QED
      BY <1>3, <3>1 DEF IInv, LedgerInv
  <2>2. CASE att[k].state # "RESERVED"
    BY <2>2 DEF MarkAttemptInFlight, IInv, LedgerInv
  <2>3. QED
    BY <2>1, <2>2
<1>5. WorkerInv'
  BY <1>1, GoToKeepsWorkerInv DEF MarkAttemptInFlight, IInv
<1>6. QED
  BY <1>4, <1>5
     DEF MarkAttemptInFlight, IInv, LedgerInv, JobInv, LeaseNamesClaim, HoldsIffOpen, QueuedIsClaimable

LEMMA StartStep == ASSUME IInv, NEW w \in Workers, StartLookup(w) PROVE IInv'
<1>1. wk[w].job \in Jobs /\ wk[w].token \in Nums /\ day \in Days
  BY DEF StartLookup, IInv, WorkerInv, WorkersHoldTokens, LedgerInv
<1>2. calls' \subseteq [job: Jobs, n: Nums, day: Days]
  BY <1>1 DEF StartLookup, IInv, LedgerInv
<1>3. WorkerInv'
  BY GoToKeepsWorkerInv DEF StartLookup, IInv
<1>4. QED
  BY <1>2, <1>3 DEF StartLookup, IInv, LedgerInv, JobInv, LeaseNamesClaim, HoldsIffOpen, QueuedIsClaimable

LEMMA ReturnStep == ASSUME IInv, NEW w \in Workers, LookupReturns(w) PROVE IInv'
<1>1. PICK s \in Statuses :
        wk' = [wk EXCEPT ![w].pc = "answered", ![w].seen = s, ![w].age = 0]
  BY DEF LookupReturns
<1> DEFINE wrk == [wk[w] EXCEPT !.pc = "answered", !.seen = s, !.age = 0]
<1>2. wrk \in Worker
  BY Zeros DEF IInv, WorkerInv, Worker, Steps
<1>3. wk' \in [Workers -> Worker] /\ \A v \in Workers : wk'[v] = IF v = w THEN wrk ELSE wk[v]
  BY <1>1, <1>2 DEF IInv, WorkerInv
<1>4. WorkerInv'
  BY <1>3 DEF LookupReturns, IInv, WorkerInv, WorkersHoldTokens, Worker
<1>5. QED
  BY <1>4 DEF LookupReturns, IInv, LedgerInv, JobInv, LeaseNamesClaim, HoldsIffOpen, QueuedIsClaimable

LEMMA ThrowStep == ASSUME IInv, NEW w \in Workers, LookupThrows(w) PROVE IInv'
<1> DEFINE wrk == [wk[w] EXCEPT !.pc = "failed", !.age = 0]
<1>1. wrk \in Worker
  BY Zeros DEF IInv, WorkerInv, Worker, Steps
<1>2. wk' \in [Workers -> Worker] /\ \A v \in Workers : wk'[v] = IF v = w THEN wrk ELSE wk[v]
  BY <1>1 DEF LookupThrows, IInv, WorkerInv
<1>3. WorkerInv'
  BY <1>2 DEF LookupThrows, IInv, WorkerInv, WorkersHoldTokens, Worker
<1>4. QED
  BY <1>3 DEF LookupThrows, IInv, LedgerInv, JobInv, LeaseNamesClaim, HoldsIffOpen, QueuedIsClaimable

LEMMA AnswerStep == ASSUME IInv, NEW w \in Workers, RecordAnswer(w) PROVE IInv'
<1> DEFINE j == wk[w].job
           k == <<j, wk[w].token>>
           s == wk[w].seen
           closed == Closed(j, StatusToJobState[s], job[j].terminalReasonCode)
           row == [closed EXCEPT !.queriedAt = "set"]
           owned == att[k].state \in Unfinished /\ Owns(j, wk[w].token)
<1>1. j \in Jobs /\ k \in Jobs \X Nums /\ s \in Statuses
  BY DEF RecordAnswer, IInv, WorkerInv, WorkersHoldTokens
<1>2. StatusToJobState[s] \in Terminal /\ job[j].terminalReasonCode \in Reasons /\ job[j] \in Job
  BY <1>1, ParamFacts DEF StatusToJobState, AllStatuses, Terminal, Answered, IInv, JobInv, Job
<1>3. closed \in Job /\ closed.state = StatusToJobState[s] /\ closed.activeLookupKey = Null
      /\ closed.claimToken = 0 /\ closed.lease = 0
  BY <1>1, <1>2, ClosedRow
<1>4. row \in Job /\ row.state = StatusToJobState[s] /\ row.activeLookupKey = Null
      /\ row.claimToken = 0 /\ row.lease = 0
  BY <1>3 DEF Job
<1>5. UpdateIf(owned, j, row)
  BY DEF RecordAnswer, UpdateIf
<1>6. JobInv'
  BY <1>1, <1>2, <1>4, <1>5, CloseKeepsJobInv DEF IInv
<1>7. att' \in [Jobs \X Nums -> Attempt]
  BY <1>1, FinalizedType DEF RecordAnswer, IInv, LedgerInv
<1>8. WorkerInv'
  BY IdleKeepsWorkerInv DEF RecordAnswer, IInv
<1>9. QED
  BY <1>6, <1>7, <1>8 DEF RecordAnswer, IInv, LedgerInv

LEMMA AmbiguousStep == ASSUME IInv, NEW w \in Workers, RecordAmbiguous(w) PROVE IInv'
<1> DEFINE j == wk[w].job
<1>1. j \in Jobs /\ <<j, wk[w].token>> \in Jobs \X Nums
  BY DEF RecordAmbiguous, IInv, WorkerInv, WorkersHoldTokens
<1>2. "DEAD_LETTER" \in Terminal /\ "AMBIGUOUS_AFTER_CONTACT" \in Reasons
  BY DEF Terminal, Reasons
<1>3. JobInv'
  BY <1>1, <1>2, ClosedRow, CloseKeepsJobInv DEF RecordAmbiguous, IInv, JobInv
<1>4. att' \in [Jobs \X Nums -> Attempt]
  BY <1>1, FinalizedType DEF RecordAmbiguous, IInv, LedgerInv
<1>5. WorkerInv'
  BY IdleKeepsWorkerInv DEF RecordAmbiguous, IInv
<1>6. QED
  BY <1>3, <1>4, <1>5 DEF RecordAmbiguous, IInv, LedgerInv

LEMMA RecoverReadStep ==
    ASSUME IInv, NEW w \in Workers, NEW j \in Jobs, RecoverRead(w, j) PROVE IInv'
<1> DEFINE decision == IF ContactedLatest(j, "FINISHED") THEN "bury"
                       ELSE IF job[j].attemptCount >= MaxAttempts THEN "exhaust"
                       ELSE "release"
           wrk == [Idle EXCEPT !.pc = "recovering", !.job = j,
                               !.token = job[j].claimToken, !.seen = decision]
<1>1. job[j].claimToken \in Nums /\ job[j].claimToken = job[j].attemptCount
  BY ParamFacts DEF RecoverRead, IInv, JobInv, LeaseNamesClaim, HoldsIffOpen, Job, Nums
<1>2. decision \in {"bury", "exhaust"} \/ (decision = "release" /\ job[j].claimToken < MaxAttempts)
  BY <1>1, ParamFacts DEF Nums
<1>3. wrk \in Worker /\ wrk.pc = "recovering" /\ wrk.job = j
      /\ wrk.token = job[j].claimToken /\ wrk.seen = decision
  <2>1. 0 \in 0..LookupMax /\ 0 \in Days /\ job[j].claimToken \in 0..MaxAttempts
    BY <1>1, Zeros, ParamFacts DEF Nums
  <2>2. QED
    BY <1>2, <2>1 DEF Idle, Worker, Steps
<1>4. wk' \in [Workers -> Worker] /\ \A v \in Workers : wk'[v] = IF v = w THEN wrk ELSE wk[v]
  BY <1>3 DEF RecoverRead, IInv, WorkerInv
<1>5. WorkerInv'
  BY <1>1, <1>2, <1>3, <1>4 DEF IInv, WorkerInv, WorkersHoldTokens
<1>6. QED
  BY <1>5 DEF RecoverRead, IInv, LedgerInv, JobInv, LeaseNamesClaim, HoldsIffOpen, QueuedIsClaimable

LEMMA RecoverWriteStep == ASSUME IInv, NEW w \in Workers, RecoverWrite(w) PROVE IInv'
<1> DEFINE j == wk[w].job
           freed == [job[j] EXCEPT !.state = "PENDING", !.claimToken = 0, !.lease = 0]
<1>1. j \in Jobs /\ job[j] \in Job /\ wk[w].token \in Nums
  BY DEF RecoverWrite, IInv, WorkerInv, WorkersHoldTokens, JobInv
<1>2. WorkerInv'
  BY IdleKeepsWorkerInv DEF RecoverWrite, IInv
<1>3. CASE wk[w].seen = "bury"
  <2>1. UpdateIf(Owns(j, wk[w].token), j, Closed(j, "DEAD_LETTER", "AMBIGUOUS_AFTER_CONTACT"))
    BY <1>3 DEF RecoverWrite
  <2>2. "DEAD_LETTER" \in Terminal /\ "AMBIGUOUS_AFTER_CONTACT" \in Reasons
    BY DEF Terminal, Reasons
  <2>3. JobInv'
    BY <1>1, <2>1, <2>2, ClosedRow, CloseKeepsJobInv DEF IInv
  <2>4. QED
    BY <1>2, <2>3 DEF RecoverWrite, IInv, LedgerInv
<1>4. CASE wk[w].seen = "exhaust"
  <2>1. UpdateIf(Owns(j, wk[w].token), j, Closed(j, "DEAD_LETTER", "MAX_ATTEMPTS_EXHAUSTED"))
    BY <1>4 DEF RecoverWrite
  <2>2. "DEAD_LETTER" \in Terminal /\ "MAX_ATTEMPTS_EXHAUSTED" \in Reasons
    BY DEF Terminal, Reasons
  <2>3. JobInv'
    BY <1>1, <2>1, <2>2, ClosedRow, CloseKeepsJobInv DEF IInv
  <2>4. QED
    BY <1>2, <2>3 DEF RecoverWrite, IInv, LedgerInv
<1>5. CASE wk[w].seen \notin {"bury", "exhaust"}
  <2>1. UpdateIf(Owns(j, wk[w].token), j, freed)
    BY <1>5 DEF RecoverWrite
  <2>2. CASE ~Owns(j, wk[w].token)
    BY <1>2, <2>1, <2>2 DEF UpdateIf, RecoverWrite, IInv, LedgerInv, JobInv, LeaseNamesClaim,
          HoldsIffOpen, QueuedIsClaimable
  <2>3. CASE Owns(j, wk[w].token)
    <3>1. job[j].attemptCount < MaxAttempts
      BY <1>1, <1>5, <2>3 DEF RecoverWrite, Owns, IInv, JobInv, LeaseNamesClaim, WorkerInv,
            WorkersHoldTokens
    <3>2. freed \in Job /\ freed.state = "PENDING" /\ freed.claimToken = 0 /\ freed.lease = 0
          /\ freed.activeLookupKey = job[j].activeLookupKey
          /\ freed.attemptCount = job[j].attemptCount
      BY <1>1, Zeros DEF Job, Open
    <3>3. job' \in [Jobs -> Job] /\ \A i \in Jobs : job'[i] = IF i = j THEN freed ELSE job[i]
      BY <2>1, <2>3, <3>2 DEF UpdateIf, IInv, JobInv
    <3>4. LeaseNamesClaim'
      BY <3>2, <3>3 DEF IInv, JobInv, LeaseNamesClaim
    <3>5. HoldsIffOpen'
      <4>1. job[j].activeLookupKey = SubjectOf[j] /\ "PENDING" \in Open
        BY <1>1, <2>3 DEF Owns, IInv, JobInv, HoldsIffOpen, Open
      <4> HIDE DEF freed, j
      <4>2. ASSUME NEW i \in Jobs
            PROVE  /\ job'[i].activeLookupKey = IF job'[i].state \in Open THEN SubjectOf[i] ELSE Null
                   /\ job'[i].claimToken # 0 <=> job'[i].state = "LEASED"
        BY <3>2, <3>3, <4>1 DEF IInv, JobInv, HoldsIffOpen
      <4>3. QED
        BY <4>2 DEF HoldsIffOpen
    <3>6. QueuedIsClaimable'
      BY <3>1, <3>2, <3>3 DEF IInv, JobInv, QueuedIsClaimable
    <3>7. QED
      BY <1>2, <3>3, <3>4, <3>5, <3>6 DEF RecoverWrite, IInv, JobInv, LedgerInv
  <2>4. QED
    BY <2>2, <2>3
<1>6. QED
  BY <1>3, <1>4, <1>5

LEMMA SweepReadStep ==
    ASSUME IInv, NEW w \in Workers, NEW j \in Jobs, NEW n \in Nums, SweepRead(w, j, n)
    PROVE  IInv'
<1> DEFINE reading == IF att[<<j, n>>].contactedProvider THEN "contacted" ELSE "uncontacted"
           wrk == [Idle EXCEPT !.pc = "sweeping", !.job = j, !.token = n, !.seen = reading]
<1>1. reading \in {"contacted", "uncontacted"} /\ 0 \in 0..LookupMax /\ 0 \in Days
      /\ n \in 0..MaxAttempts
  BY Zeros, ParamFacts DEF Nums
<1>2. wrk \in Worker /\ wrk.pc = "sweeping" /\ wrk.job = j /\ wrk.token = n
  BY <1>1 DEF Idle, Worker, Steps
<1>3. wk' \in [Workers -> Worker] /\ \A v \in Workers : wk'[v] = IF v = w THEN wrk ELSE wk[v]
  BY <1>2 DEF SweepRead, IInv, WorkerInv
<1>4. WorkerInv'
  BY <1>2, <1>3 DEF IInv, WorkerInv, WorkersHoldTokens
<1>5. QED
  BY <1>4 DEF SweepRead, IInv, LedgerInv, JobInv, LeaseNamesClaim, HoldsIffOpen, QueuedIsClaimable

LEMMA SweepWriteStep == ASSUME IInv, NEW w \in Workers, SweepWrite(w) PROVE IInv'
<1> DEFINE j == wk[w].job
<1>1. j \in Jobs /\ <<j, wk[w].token>> \in Jobs \X Nums
  BY DEF SweepWrite, IInv, WorkerInv, WorkersHoldTokens
<1>2. "DEAD_LETTER" \in Terminal /\ "AMBIGUOUS_AFTER_CONTACT" \in Reasons
  BY DEF Terminal, Reasons
<1> DEFINE row == Closed(j, "DEAD_LETTER", "AMBIGUOUS_AFTER_CONTACT")
           buried == /\ wk[w].seen = "contacted"
                     /\ att[<<j, wk[w].token>>].state \in Unfinished
                     /\ job[j].state = "LEASED"
<1>3. JobInv'
  <2>1. UpdateIf(buried, j, row)
    BY DEF SweepWrite
  <2>2. row \in Job /\ row.state \in Terminal /\ row.activeLookupKey = Null
        /\ row.claimToken = 0 /\ row.lease = 0
    BY <1>1, <1>2, ClosedRow DEF IInv, JobInv
  <2>3. JobInv
    BY DEF IInv
  <2> HIDE DEF row, buried, j
  <2>4. QED
    BY <1>1, <2>1, <2>2, <2>3, CloseKeepsJobInv
<1>4. att' \in [Jobs \X Nums -> Attempt]
  BY <1>1, FinalizedType DEF SweepWrite, IInv, LedgerInv
<1>5. WorkerInv'
  BY IdleKeepsWorkerInv DEF SweepWrite, IInv
<1>6. QED
  BY <1>3, <1>4, <1>5 DEF SweepWrite, IInv, LedgerInv

LEMMA CrashStep == ASSUME IInv, NEW w \in Workers, Crash(w) PROVE IInv'
<1>1. WorkerInv'
  BY IdleKeepsWorkerInv DEF Crash, IInv
<1>2. QED
  BY <1>1, ParamFacts DEF Crash, IInv, LedgerInv, JobInv, LeaseNamesClaim, HoldsIffOpen, QueuedIsClaimable

LEMMA TickStep == ASSUME IInv, Tick PROVE IInv'
<1>1. \A j \in Jobs :
        /\ job'[j] \in Job /\ job'[j].state = job[j].state
        /\ job'[j].activeLookupKey = job[j].activeLookupKey
        /\ job'[j].claimToken = job[j].claimToken
        /\ job'[j].attemptCount = job[j].attemptCount
        /\ job[j].lease = 0 => job'[j].lease = 0
  <2> SUFFICES ASSUME NEW j \in Jobs
               PROVE  /\ job'[j] \in Job /\ job'[j].state = job[j].state
                      /\ job'[j].activeLookupKey = job[j].activeLookupKey
                      /\ job'[j].claimToken = job[j].claimToken
                      /\ job'[j].attemptCount = job[j].attemptCount
                      /\ job[j].lease = 0 => job'[j].lease = 0
    OBVIOUS
  <2> DEFINE l == IF job[j].lease > 0 THEN job[j].lease - 1 ELSE 0
  <2>1. job[j] \in Job /\ job'[j] = [job[j] EXCEPT !.lease = l]
    BY DEF Tick, IInv, JobInv
  <2>2. l \in 0..LeaseTime /\ (job[j].lease = 0 => l = 0)
    BY <2>1, ParamFacts DEF Job
  <2> HIDE DEF l
  <2>3. QED
    BY <2>1, <2>2 DEF Job
<1>2. job' \in [Jobs -> Job]
  BY <1>1 DEF Tick
<1>3. JobInv'
  BY <1>1, <1>2 DEF IInv, JobInv, LeaseNamesClaim, HoldsIffOpen, QueuedIsClaimable
<1>4. att' \in [Jobs \X Nums -> Attempt]
  <2>1. ASSUME NEW k \in Jobs \X Nums PROVE att'[k] \in Attempt
    <3>1. att[k] \in Attempt
      BY DEF IInv, LedgerInv
    <3>2. Older(att[k].age, StaleTime) \in 0..StaleTime
      BY <3>1, ParamFacts DEF Older, Attempt
    <3>3. att'[k] = IF att[k].state \in Unfinished
                    THEN [att[k] EXCEPT !.age = Older(@, StaleTime)] ELSE att[k]
      BY DEF Tick
    <3>4. QED
      BY <3>1, <3>2, <3>3 DEF Attempt
  <2>2. QED
    BY <2>1 DEF Tick
<1>5. \A w \in Workers :
        /\ wk'[w] \in Worker /\ wk'[w].pc = wk[w].pc /\ wk'[w].job = wk[w].job
        /\ wk'[w].token = wk[w].token /\ wk'[w].seen = wk[w].seen
  <2> SUFFICES ASSUME NEW w \in Workers
               PROVE  /\ wk'[w] \in Worker /\ wk'[w].pc = wk[w].pc /\ wk'[w].job = wk[w].job
                      /\ wk'[w].token = wk[w].token /\ wk'[w].seen = wk[w].seen
    OBVIOUS
  <2>1. wk[w] \in Worker
    BY DEF IInv, WorkerInv
  <2>2. Older(wk[w].age, LookupMax) \in 0..LookupMax
    BY <2>1, ParamFacts DEF Older, Worker
  <2>3. wk'[w] = IF wk[w].pc = "calling" THEN [wk[w] EXCEPT !.age = Older(@, LookupMax)] ELSE wk[w]
    BY DEF Tick
  <2>4. QED
    BY <2>1, <2>2, <2>3 DEF Worker
<1>6. WorkerInv'
  BY <1>5 DEF Tick, IInv, WorkerInv, WorkersHoldTokens
<1>7. QED
  BY <1>3, <1>4, <1>6 DEF Tick, IInv, LedgerInv

LEMMA MidnightStep == ASSUME IInv, Midnight PROVE IInv'
BY ParamFacts DEF Midnight, IInv, LedgerInv, WorkerInv, WorkersHoldTokens, JobInv, LeaseNamesClaim,
      HoldsIffOpen, QueuedIsClaimable, Days

\* Every step keeps the invariant.
THEOREM Inductive == IInv /\ [Next]_vars => IInv'
<1> SUFFICES ASSUME IInv, [Next]_vars PROVE IInv'
  OBVIOUS
<1>1. CASE UNCHANGED vars
  BY <1>1 DEF vars, IInv, LedgerInv, WorkerInv, WorkersHoldTokens, JobInv, LeaseNamesClaim,
        HoldsIffOpen, QueuedIsClaimable
<1>2. ASSUME NEW j \in Jobs, CreateLookupJob(j) PROVE IInv'
  BY <1>2, CreateStep
<1>3. ASSUME NEW w \in Workers, Proceed(w) PROVE IInv'
  BY <1>3, SkipStep, ReadReserveAtStep, ReserveGrantedStep, ReserveRefusedStep, RefuseStep,
     MarkStep, StartStep, ReturnStep, ThrowStep, AnswerStep, AmbiguousStep, RecoverWriteStep, SweepWriteStep
     DEF Proceed
<1>4. ASSUME NEW w \in Workers, NEW j \in Jobs, Pick(w, j) PROVE IInv'
  BY <1>4, ClaimStep, RecoverReadStep, SweepReadStep DEF Pick
<1>5. ASSUME NEW w \in Workers, Crash(w) PROVE IInv'
  BY <1>5, CrashStep
<1>6. CASE Tick
  BY <1>6, TickStep
<1>7. CASE Midnight
  BY <1>7, MidnightStep
<1>8. QED
  BY <1>1, <1>2, <1>3, <1>4, <1>5, <1>6, <1>7 DEF Next

-----------------------------------------------------------------------------
(* What follows for every behaviour.                                       *)

\* The invariant holds for ever.
THEOREM AlwaysIInv == Spec => []IInv
<1>1. QED
  BY Initialized, Inductive, PTL DEF Spec

\* Every row of every table is well formed.
THEOREM TypeCorrect == Spec => []TypeOK
<1>1. IInv => TypeOK
  BY DEF IInv, JobInv, WorkerInv, LedgerInv, TypeOK
<1>2. QED
  BY <1>1, AlwaysIInv, PTL

\* A job holds its identity and its lease exactly as long as it should, whichever of
\* the statements closes or frees it and whoever else writes meanwhile.
THEOREM IdentityIsHeldWhileOpen == Spec => []HoldsIffOpen
<1>1. IInv => HoldsIffOpen
  BY DEF IInv, JobInv
<1>2. QED
  BY <1>1, AlwaysIInv, PTL

\* The queue never holds a job that no worker may claim, so the pass that retires
\* exhausted queued jobs has nothing to do.
THEOREM QueueNeverStarves == Spec => []QueuedIsClaimable
<1>1. IInv => QueuedIsClaimable
  BY DEF IInv, JobInv
<1>2. QED
  BY <1>1, AlwaysIInv, PTL

-----------------------------------------------------------------------------
(* However long a worker pauses: history and the budget.                   *)

\* The columns a terminal transition leaves alone.
LEMMA ClosedKeeps ==
    ASSUME NEW j \in Jobs, job[j] \in Job, NEW s, NEW r
    PROVE  /\ Closed(j, s, r).state = s /\ Closed(j, s, r).terminalReasonCode = r
           /\ Closed(j, s, r).attemptCount = job[j].attemptCount
           /\ Closed(j, s, r).queriedAt = job[j].queriedAt
BY DEF Closed, Job

\* What the clock writes.
LEMMA TickRows ==
    ASSUME IInv, Tick
    PROVE  /\ \A j \in Jobs :
                /\ job'[j].state = job[j].state /\ job'[j].claimToken = job[j].claimToken
                /\ job'[j].attemptCount = job[j].attemptCount
                /\ job'[j].queriedAt = job[j].queriedAt
                /\ job'[j].terminalReasonCode = job[j].terminalReasonCode
                /\ job'[j].lease = IF job[j].lease > 0 THEN job[j].lease - 1 ELSE 0
           /\ \A j \in Jobs, n \in Nums :
                /\ att'[<<j, n>>].state = att[<<j, n>>].state
                /\ att'[<<j, n>>].contactedProvider = att[<<j, n>>].contactedProvider
                /\ att'[<<j, n>>].usageDate = att[<<j, n>>].usageDate
                /\ att[<<j, n>>].state = "FINISHED" => att'[<<j, n>>] = att[<<j, n>>]
                /\ att'[<<j, n>>].age <= att[<<j, n>>].age + 1
           /\ \A w \in Workers :
                /\ wk'[w].pc = wk[w].pc /\ wk'[w].job = wk[w].job /\ wk'[w].token = wk[w].token
                /\ wk[w].pc = "calling" =>
                     wk'[w].age = IF wk[w].age < LookupMax THEN wk[w].age + 1 ELSE wk[w].age
           /\ UNCHANGED <<calls, day>>
<1>1. ASSUME NEW j \in Jobs
      PROVE  /\ job'[j].state = job[j].state /\ job'[j].claimToken = job[j].claimToken
             /\ job'[j].attemptCount = job[j].attemptCount
             /\ job'[j].queriedAt = job[j].queriedAt
             /\ job'[j].terminalReasonCode = job[j].terminalReasonCode
             /\ job'[j].lease = IF job[j].lease > 0 THEN job[j].lease - 1 ELSE 0
  <2>1. job'[j] = [job[j] EXCEPT !.lease = IF @ > 0 THEN @ - 1 ELSE 0] /\ job[j] \in Job
    BY DEF Tick, IInv, JobInv
  <2>2. QED
    BY <2>1 DEF Job
<1>2. ASSUME NEW j \in Jobs, NEW n \in Nums
      PROVE  /\ att'[<<j, n>>].state = att[<<j, n>>].state
             /\ att'[<<j, n>>].contactedProvider = att[<<j, n>>].contactedProvider
             /\ att'[<<j, n>>].usageDate = att[<<j, n>>].usageDate
             /\ att[<<j, n>>].state = "FINISHED" => att'[<<j, n>>] = att[<<j, n>>]
             /\ att'[<<j, n>>].age <= att[<<j, n>>].age + 1
  <2>1. /\ att'[<<j, n>>] = IF att[<<j, n>>].state \in Unfinished
                            THEN [att[<<j, n>>] EXCEPT !.age = Older(@, StaleTime)]
                            ELSE att[<<j, n>>]
        /\ att[<<j, n>>] \in Attempt
    BY DEF Tick, IInv, LedgerInv
  <2>2. "FINISHED" \notin Unfinished
    BY DEF Unfinished
  <2>3. att[<<j, n>>].age \in Nat
    BY <2>1, ParamFacts DEF Attempt
  <2>4. QED
    BY <2>1, <2>2, <2>3, ParamFacts DEF Attempt, Older
<1>3. ASSUME NEW w \in Workers
      PROVE  /\ wk'[w].pc = wk[w].pc /\ wk'[w].job = wk[w].job /\ wk'[w].token = wk[w].token
             /\ wk[w].pc = "calling" =>
                  wk'[w].age = IF wk[w].age < LookupMax THEN wk[w].age + 1 ELSE wk[w].age
  <2>1. /\ wk'[w] = IF wk[w].pc = "calling"
                    THEN [wk[w] EXCEPT !.age = Older(@, LookupMax)] ELSE wk[w]
        /\ wk[w] \in Worker
    BY DEF Tick, IInv, WorkerInv
  <2>2. QED
    BY <2>1 DEF Worker, Older
<1>4. QED
  BY <1>1, <1>2, <1>3 DEF Tick

\* Besides asking and queueing, a step changes one row, and that one only while it is open.
JobStep ==
    \E j \in Jobs :
       /\ \A i \in Jobs : i # j => job'[i] = job[i]
       /\ \/ job'[j] = job[j]
          \/ job[j].state = "LEASED" /\ job'[j].state \in Terminal \cup {"PENDING"}
          \/ job[j].state = "PENDING" /\ job'[j].state = "LEASED"

LEMMA UpdateOwned ==
    ASSUME IInv, NEW j \in Jobs, NEW n, NEW row, UpdateIf(Owns(j, n), j, row),
           row.state \in Terminal \cup {"PENDING"}
    PROVE  JobStep
<1>1. \A i \in Jobs : i # j => job'[i] = job[i]
  BY DEF UpdateIf, IInv, JobInv
<1>2. job'[j] = job[j] \/ (job[j].state = "LEASED" /\ job'[j] = row)
  BY DEF UpdateIf, Owns, IInv, JobInv
<1>3. QED
  BY <1>1, <1>2 DEF JobStep

LEMMA ClaimIsJobStep ==
    ASSUME IInv, NEW w \in Workers, NEW j \in Jobs, ClaimLookupJob(w, j) PROVE JobStep
<1> DEFINE n == job[j].attemptCount + 1
           row == [job[j] EXCEPT !.state = "LEASED", !.claimToken = n,
                                 !.lease = LeaseTime, !.attemptCount = n]
<1>1. row.state = "LEASED" /\ job[j].state = "PENDING" /\ job' = [job EXCEPT ![j] = row]
  BY DEF ClaimLookupJob, IInv, JobInv, Job
<1> HIDE DEF row
<1>2. QED
  BY <1>1 DEF JobStep, IInv, JobInv

LEMMA ProceedIsJobStep ==
    ASSUME IInv, NEW w \in Workers, Proceed(w), ~StartLookup(w)
    PROVE  JobStep /\ UNCHANGED calls
<1>1. UNCHANGED calls
  BY DEF Proceed, SkipNotConfigured, ReadReserveAt, ReserveGranted, ReserveRefused,
         RefuseClaimedJobForBudget, MarkAttemptInFlight, LookupReturns, LookupThrows, RecordAnswer, RecordAmbiguous,
         RecoverWrite, SweepWrite
<1>2. wk[w].pc # "idle" => wk[w].job \in Jobs
  BY DEF IInv, WorkerInv, WorkersHoldTokens
<1>3. PICK j \in Jobs : j = wk[w].job
  BY <1>2 DEF Proceed, SkipNotConfigured, ReadReserveAt, ReserveGranted, ReserveRefused,
         RefuseClaimedJobForBudget, MarkAttemptInFlight, LookupReturns, LookupThrows,
         RecordAnswer, RecordAmbiguous, RecoverWrite, SweepWrite, StartLookup
<1>4. job[j] \in Job /\ {"SKIPPED_NOT_CONFIGURED", "SKIPPED_BUDGET", "DEAD_LETTER"} \subseteq Terminal
  BY DEF IInv, JobInv, Terminal
<1>5. UNCHANGED job => JobStep
  BY DEF JobStep
<1>6. CASE SkipNotConfigured(w)
  <2> DEFINE row == Closed(j, "SKIPPED_NOT_CONFIGURED", "NOT_CONFIGURED")
  <2>1. row.state \in Terminal
    BY <1>4, ClosedKeeps
  <2>2. UpdateIf(Owns(j, wk[w].token), j, row)
    BY <1>3, <1>6 DEF SkipNotConfigured
  <2> HIDE DEF row
  <2>3. QED
    BY <1>1, <2>1, <2>2, UpdateOwned
<1>7. CASE RefuseClaimedJobForBudget(w)
  <2> DEFINE row == [Closed(j, "SKIPPED_BUDGET", job[j].terminalReasonCode)
                        EXCEPT !.attemptCount = @ - 1]
  <2>1. row.state \in Terminal
    BY <1>4 DEF Closed, Job
  <2>2. UpdateIf(Owns(j, wk[w].token), j, row)
    BY <1>3, <1>7 DEF RefuseClaimedJobForBudget
  <2> HIDE DEF row
  <2>3. QED
    BY <1>1, <2>1, <2>2, UpdateOwned
<1>8. CASE RecordAnswer(w)
  <2> DEFINE s == wk[w].seen
             row == [Closed(j, StatusToJobState[s], job[j].terminalReasonCode)
                        EXCEPT !.queriedAt = "set"]
  <2>1. StatusToJobState[s] \in Terminal
    <3>1. s \in AllStatuses
      BY <1>8, ParamFacts DEF RecordAnswer, IInv, WorkerInv, WorkersHoldTokens
    <3>2. QED
      BY <3>1 DEF StatusToJobState, Terminal, Answered, AllStatuses
  <2>2. row.state \in Terminal
    BY <1>4, <2>1 DEF Closed, Job
  <2>3. UNCHANGED job \/ UpdateIf(Owns(j, wk[w].token), j, row)
    BY <1>3, <1>8 DEF RecordAnswer, UpdateIf
  <2> HIDE DEF row
  <2>4. QED
    BY <1>1, <1>5, <2>2, <2>3, UpdateOwned
<1>9. CASE RecordAmbiguous(w)
  <2> DEFINE row == Closed(j, "DEAD_LETTER", "AMBIGUOUS_AFTER_CONTACT")
  <2>1. row.state \in Terminal
    BY <1>4, ClosedKeeps
  <2>2. UpdateIf(Owns(j, wk[w].token), j, row)
    BY <1>3, <1>9 DEF RecordAmbiguous
  <2> HIDE DEF row
  <2>3. QED
    BY <1>1, <2>1, <2>2, UpdateOwned
<1>10. CASE RecoverWrite(w)
  <2> DEFINE row == CASE wk[w].seen = "bury"    -> Closed(j, "DEAD_LETTER", "AMBIGUOUS_AFTER_CONTACT")
                      [] wk[w].seen = "exhaust" -> Closed(j, "DEAD_LETTER", "MAX_ATTEMPTS_EXHAUSTED")
                      [] OTHER -> [job[j] EXCEPT !.state = "PENDING", !.claimToken = 0, !.lease = 0]
  <2>1. row.state \in Terminal \cup {"PENDING"}
    <3>1. /\ Closed(j, "DEAD_LETTER", "AMBIGUOUS_AFTER_CONTACT").state \in Terminal
          /\ Closed(j, "DEAD_LETTER", "MAX_ATTEMPTS_EXHAUSTED").state \in Terminal
      BY <1>4, ClosedKeeps
    <3>2. [job[j] EXCEPT !.state = "PENDING", !.claimToken = 0, !.lease = 0].state = "PENDING"
      BY <1>4 DEF Job
    <3>3. QED
      BY <3>1, <3>2
  <2>2. UpdateIf(Owns(j, wk[w].token), j, row)
    BY <1>3, <1>10 DEF RecoverWrite
  <2> HIDE DEF row
  <2>3. QED
    BY <1>1, <2>1, <2>2, UpdateOwned
<1>11. CASE SweepWrite(w)
  <2> DEFINE row == Closed(j, "DEAD_LETTER", "AMBIGUOUS_AFTER_CONTACT")
  <2>1. row.state \in Terminal
    BY <1>4, ClosedKeeps
  <2>2. UNCHANGED job \/ (job[j].state = "LEASED" /\ job' = [job EXCEPT ![j] = row])
    BY <1>3, <1>11 DEF SweepWrite, UpdateIf
  <2> HIDE DEF row
  <2>3. QED
    BY <1>1, <1>5, <2>1, <2>2 DEF JobStep, IInv, JobInv
<1>12. CASE UNCHANGED job
  BY <1>1, <1>5, <1>12
<1>13. QED
  BY <1>6, <1>7, <1>8, <1>9, <1>10, <1>11, <1>12 DEF Proceed, ReadReserveAt, ReserveGranted,
     ReserveRefused, MarkAttemptInFlight, LookupReturns, LookupThrows

\* But for the reservation, no step adds a row to the ledger, moves one to another day, or
\* rewrites one that is finished.
RowsKept ==
    \A k \in Jobs \X Nums :
        /\ att'[k].state = "NONE" <=> att[k].state = "NONE"
        /\ att'[k].usageDate = att[k].usageDate
        /\ att[k].state = "FINISHED" => att'[k] = att[k]

LEMMA FinalizedKeepsRows ==
    ASSUME IInv, NEW k \in Jobs \X Nums, NEW o, att' = Finalized(k, o) PROVE RowsKept
<1>1. CASE att[k].state \notin Unfinished
  BY <1>1 DEF Finalized, RowsKept
<1>2. CASE att[k].state \in Unfinished
  <2> DEFINE row == [att[k] EXCEPT !.state = "FINISHED", !.outcome = o, !.age = 0]
  <2>1. att' = [att EXCEPT ![k] = row] /\ att \in [Jobs \X Nums -> Attempt]
    BY <1>2 DEF Finalized, IInv, LedgerInv
  <2>2. row.state = "FINISHED" /\ row.usageDate = att[k].usageDate
    BY <2>1 DEF Attempt
  <2> HIDE DEF row
  <2>3. \A l \in Jobs \X Nums : att'[l] = IF l = k THEN row ELSE att[l]
    BY <2>1
  <2>4. QED
    BY <1>2, <2>2, <2>3 DEF RowsKept, Unfinished
<1>3. QED
  BY <1>1, <1>2

LEMMA MarkKeepsRows == ASSUME IInv, NEW w \in Workers, MarkAttemptInFlight(w) PROVE RowsKept
<1>1. PICK k \in Jobs \X Nums : k = <<wk[w].job, wk[w].token>>
  BY DEF MarkAttemptInFlight, IInv, WorkerInv, WorkersHoldTokens
<1>2. CASE att[k].state # "RESERVED"
  BY <1>1, <1>2 DEF MarkAttemptInFlight, RowsKept
<1>3. CASE att[k].state = "RESERVED"
  <2> DEFINE row == [att[k] EXCEPT !.state = "IN_FLIGHT", !.contactedProvider = TRUE]
  <2>1. att' = [att EXCEPT ![k] = row] /\ att \in [Jobs \X Nums -> Attempt]
    BY <1>1, <1>3 DEF MarkAttemptInFlight, IInv, LedgerInv
  <2>2. row.state = "IN_FLIGHT" /\ row.usageDate = att[k].usageDate
    BY <2>1 DEF Attempt
  <2> HIDE DEF row
  <2>3. \A l \in Jobs \X Nums : att'[l] = IF l = k THEN row ELSE att[l]
    BY <2>1
  <2>4. QED
    BY <1>3, <2>2, <2>3 DEF RowsKept
<1>4. QED
  BY <1>2, <1>3

LEMMA ProceedKeepsRows ==
    ASSUME IInv, NEW w \in Workers, Proceed(w), ~ReserveGranted(w)
    PROVE  RowsKept /\ UNCHANGED usage
<1>1. UNCHANGED usage
  BY DEF Proceed, SkipNotConfigured, ReadReserveAt, ReserveRefused, RefuseClaimedJobForBudget,
         MarkAttemptInFlight, StartLookup, LookupReturns, LookupThrows, RecordAnswer,
         RecordAmbiguous, RecoverWrite, SweepWrite
<1>2. wk[w].pc # "idle" => <<wk[w].job, wk[w].token>> \in Jobs \X Nums
  BY DEF IInv, WorkerInv, WorkersHoldTokens
<1>3. CASE MarkAttemptInFlight(w)
  BY <1>1, <1>3, MarkKeepsRows
<1>4. CASE UNCHANGED att
  BY <1>1, <1>4 DEF RowsKept
<1>5. CASE wk[w].pc # "idle" /\ \E o : att' = Finalized(<<wk[w].job, wk[w].token>>, o)
  BY <1>1, <1>2, <1>5, FinalizedKeepsRows
<1>6. QED
  BY <1>3, <1>4, <1>5 DEF Proceed, SkipNotConfigured, ReadReserveAt, ReserveRefused,
     RefuseClaimedJobForBudget, StartLookup, LookupReturns, LookupThrows, RecordAnswer, RecordAmbiguous, RecoverWrite,
     SweepWrite

LEMMA TickKeepsRows == ASSUME IInv, Tick PROVE RowsKept
<1>1. ASSUME NEW k \in Jobs \X Nums
      PROVE  /\ att'[k].state = "NONE" <=> att[k].state = "NONE"
             /\ att'[k].usageDate = att[k].usageDate
             /\ att[k].state = "FINISHED" => att'[k] = att[k]
  <2>1. PICK j \in Jobs, n \in Nums : k = <<j, n>>
    OBVIOUS
  <2>2. QED
    BY <2>1, TickRows
<1>2. QED
  BY <1>1 DEF RowsKept

LEMMA OnlyReservationsAdd ==
    ASSUME IInv, [Next]_vars
    PROVE  (RowsKept /\ UNCHANGED usage) \/ \E w \in Workers : ReserveGranted(w)
<1>1. CASE UNCHANGED <<att, usage>>
  BY <1>1 DEF RowsKept
<1>2. CASE \E w \in Workers : Proceed(w)
  BY <1>2, ProceedKeepsRows
<1>3. CASE Tick
  BY <1>3, TickKeepsRows DEF Tick
<1>4. QED
  BY <1>1, <1>2, <1>3 DEF Next, CreateLookupJob, Crash, Pick, ClaimLookupJob, RecoverRead, SweepRead,
     Midnight, vars

LEMMA JobStepIsFinal ==
    ASSUME JobStep PROVE \A j \in Jobs : job[j].state \in Terminal => job'[j] = job[j]
BY DEF JobStep, Terminal, Answered

LEMMA TickIsFinal ==
    ASSUME IInv, Tick, NEW j \in Jobs, job[j].state \in Terminal PROVE job'[j] = job[j]
<1>1. job[j].lease = 0 /\ job[j] \in Job
  BY DEF IInv, JobInv, LeaseNamesClaim, Terminal, Answered
<1>2. job'[j] = [job[j] EXCEPT !.lease = IF @ > 0 THEN @ - 1 ELSE 0]
  BY DEF Tick
<1>3. job'[j] = [job[j] EXCEPT !.lease = 0]
  BY <1>1, <1>2
<1>4. QED
  BY <1>1, <1>3 DEF Job

LEMMA TerminalIsFinal ==
    ASSUME IInv, [Next]_vars
    PROVE  \A j \in Jobs : job[j].state \in Terminal => job'[j] = job[j]
<1>1. CASE UNCHANGED job
  BY <1>1
<1>2. CASE \E j \in Jobs : CreateLookupJob(j)
  <2>1. PICK j \in Jobs : CreateLookupJob(j)
    BY <1>2
  <2>2. job[j].state \notin Terminal /\ \A i \in Jobs : i # j => job'[i] = job[i]
    BY <2>1 DEF CreateLookupJob, Terminal, Answered, IInv, JobInv
  <2>3. QED
    BY <2>2
<1>3. ASSUME NEW w \in Workers, Proceed(w)
      PROVE  \A j \in Jobs : job[j].state \in Terminal => job'[j] = job[j]
  BY <1>1, <1>3, ProceedIsJobStep, JobStepIsFinal DEF StartLookup
<1>4. ASSUME NEW w \in Workers, NEW j \in Jobs, ClaimLookupJob(w, j)
      PROVE  \A i \in Jobs : job[i].state \in Terminal => job'[i] = job[i]
  BY <1>4, ClaimIsJobStep, JobStepIsFinal
<1>5. CASE Tick
  BY <1>5, TickIsFinal
<1>6. QED
  BY <1>1, <1>2, <1>3, <1>4, <1>5 DEF Next, Crash, Pick, RecoverRead, SweepRead, Midnight, vars

\* A terminal job and a finished attempt are never written again, however late the worker,
\* the recovery or the sweep that would write it.
THEOREM HistoryNeverChanges == Spec => HistoryIsFinal
<1>1. IInv /\ [Next]_vars =>
        [ /\ \A j \in Jobs : job[j].state \in Terminal => job'[j] = job[j]
          /\ \A k \in Jobs \X Nums : att[k].state = "FINISHED" => att'[k] = att[k] ]_vars
  <2> SUFFICES ASSUME IInv, [Next]_vars
               PROVE  /\ \A j \in Jobs : job[j].state \in Terminal => job'[j] = job[j]
                      /\ \A k \in Jobs \X Nums : att[k].state = "FINISHED" => att'[k] = att[k]
    OBVIOUS
  <2>1. CASE RowsKept
    BY <2>1, TerminalIsFinal DEF RowsKept
  <2>2. ASSUME NEW w \in Workers, ReserveGranted(w)
        PROVE  \A k \in Jobs \X Nums : att[k].state = "FINISHED" => att'[k] = att[k]
    BY <2>2 DEF ReserveGranted, IInv, LedgerInv
  <2>3. QED
    BY <2>1, <2>2, TerminalIsFinal, OnlyReservationsAdd
<1>2. QED
  BY <1>1, AlwaysIInv, PTL DEF Spec, HistoryIsFinal

LEMMA ChargedToIsFinite ==
    ASSUME NEW b, NEW d PROVE IsFiniteSet(ChargedTo(b, d))
<1>1. IsFiniteSet(Jobs) /\ IsFiniteSet(Nums)
  BY Params, ParamFacts, FS_Interval DEF ParamsAssumption, Nums
<1>2. IsFiniteSet(Jobs \X Nums)
  BY <1>1, FS_Product
<1>3. QED
  BY <1>2, FS_Subset DEF ChargedTo

LEMMA InitiallyBalanced == Init => LedgerMatchesUsage
<1> SUFFICES ASSUME Init, NEW b \in Buckets, NEW d \in Days
             PROVE  /\ usage[<<b, d>>] = Cardinality(ChargedTo(b, d))
                    /\ Limit[b] # Unlimited => usage[<<b, d>>] <= Limit[b]
  BY DEF LedgerMatchesUsage
<1>1. usage[<<b, d>>] = 0
  BY DEF Init
<1>2. ChargedTo(b, d) = {}
  BY DEF Init, ChargedTo, NoAttempt
<1>3. Limit[b] # Unlimited => 0 <= Limit[b]
  BY Params DEF ParamsAssumption
<1>4. QED
  BY <1>1, <1>2, <1>3, FS_EmptySet

LEMMA ReservationBalances ==
    ASSUME IInv, LedgerMatchesUsage, NEW w \in Workers, ReserveGranted(w)
    PROVE  LedgerMatchesUsage'
<1>1. PICK j \in Jobs, n \in Nums : j = wk[w].job /\ n = wk[w].token
  BY DEF ReserveGranted, IInv, WorkerInv, WorkersHoldTokens
<1>2. PICK e \in Buckets, u \in Days : e = BucketOf[j] /\ u = wk[w].day
  BY ParamFacts DEF IInv, WorkerInv, Worker
<1> DEFINE row == [NoAttempt EXCEPT !.state = "RESERVED", !.usageDate = u]
<1>3. /\ HasBudget(e, u) /\ att[<<j, n>>].state = "NONE"
      /\ \A k \in Jobs \X Nums : att'[k] = IF k = <<j, n>> THEN row ELSE att[k]
      /\ \A k \in Buckets \X Days : usage'[k] = IF k = <<e, u>> THEN usage[k] + 1 ELSE usage[k]
  BY <1>1, <1>2 DEF ReserveGranted, IInv, LedgerInv
<1>4. row.state = "RESERVED" /\ row.usageDate = u
  BY DEF NoAttempt
<1> HIDE DEF row
<1> SUFFICES ASSUME NEW b \in Buckets, NEW d \in Days
             PROVE  /\ usage'[<<b, d>>] = Cardinality(ChargedTo(b, d)')
                    /\ Limit[b] # Unlimited => usage'[<<b, d>>] <= Limit[b]
  BY DEF LedgerMatchesUsage
<1>5. /\ usage[<<b, d>>] = Cardinality(ChargedTo(b, d)) /\ usage[<<b, d>>] \in Nat
      /\ Limit[b] # Unlimited => usage[<<b, d>>] <= Limit[b]
  BY DEF LedgerMatchesUsage, IInv, LedgerInv
<1>6. CASE b = e /\ d = u
  <2>1. <<j, n>> \in Jobs \X Nums /\ <<j, n>> \notin ChargedTo(b, d)
    BY <1>3 DEF ChargedTo
  <2>2. ChargedTo(b, d)' = ChargedTo(b, d) \cup {<<j, n>>}
    BY <1>2, <1>3, <1>4, <1>6, <2>1 DEF ChargedTo
  <2>3. Cardinality(ChargedTo(b, d)') = Cardinality(ChargedTo(b, d)) + 1
    BY <2>1, <2>2, ChargedToIsFinite, FS_AddElement
  <2>4. usage'[<<b, d>>] = usage[<<b, d>>] + 1
    BY <1>3, <1>6
  <2>5. Limit[b] # Unlimited => Limit[b] \in Nat /\ usage[<<b, d>>] < Limit[b]
    BY <1>3, <1>6, Params DEF HasBudget, ParamsAssumption
  <2>6. QED
    BY <1>5, <2>3, <2>4, <2>5
<1>7. CASE ~(b = e /\ d = u)
  <2>1. usage'[<<b, d>>] = usage[<<b, d>>]
    BY <1>3, <1>7
  <2>2. ASSUME NEW k \in Jobs \X Nums
        PROVE  k \in ChargedTo(b, d)' <=> k \in ChargedTo(b, d)
    <3>1. CASE k = <<j, n>>
      BY <1>2, <1>3, <1>4, <1>7, <3>1 DEF ChargedTo
    <3>2. CASE k # <<j, n>>
      BY <1>3, <3>2 DEF ChargedTo
    <3>3. QED
      BY <3>1, <3>2
  <2>3. ChargedTo(b, d)' = ChargedTo(b, d)
    BY <2>2 DEF ChargedTo
  <2>4. QED
    BY <1>5, <2>1, <2>3
<1>8. QED
  BY <1>6, <1>7

\* The usage counter of a day is the number of its ledger rows, and never passes the budget,
\* whatever the workers interleave and wherever they crash.
THEOREM BudgetIsKept == Spec => []LedgerMatchesUsage
<1>1. Init => LedgerMatchesUsage
  BY InitiallyBalanced
<1>2. IInv /\ LedgerMatchesUsage /\ [Next]_vars => LedgerMatchesUsage'
  <2> SUFFICES ASSUME IInv, LedgerMatchesUsage, [Next]_vars PROVE LedgerMatchesUsage'
    OBVIOUS
  <2>1. CASE RowsKept /\ UNCHANGED usage
    <3>1. ASSUME NEW b \in Buckets, NEW d \in Days PROVE ChargedTo(b, d)' = ChargedTo(b, d)
      BY <2>1 DEF RowsKept, ChargedTo
    <3>2. QED
      BY <2>1, <3>1 DEF LedgerMatchesUsage
  <2>2. ASSUME NEW w \in Workers, ReserveGranted(w) PROVE LedgerMatchesUsage'
    BY <2>2, ReservationBalances
  <2>3. QED
    BY <2>1, <2>2, OnlyReservationsAdd
<1>3. QED
  BY <1>1, <1>2, AlwaysIInv, PTL DEF Spec

-----------------------------------------------------------------------------
(* While workers are prompt: the invariant.                                *)

\* The steps at which a worker works on a claim of its own.
Executing == {"claimed", "reserving", "refused", "reserved", "marked", "calling", "answered",
              "failed"}
\* Those between reading the day a reservation charges and the call.
Charging == {"reserving", "reserved", "marked"}
Asking == {"calling", "answered", "failed"}

\* What the lease has lost, and the attempt has aged, since the claim.
Spent(w) == IF wk[w].pc = "calling" THEN wk[w].age
            ELSE IF wk[w].pc \in {"answered", "failed"} THEN LookupMax ELSE 0

\* A claim that is worked on has its lease, and nobody else works on its job.
ClaimsAreLive ==
    \A w \in Workers : wk[w].pc \in Executing =>
        /\ Owns(wk[w].job, wk[w].token)
        /\ job[wk[w].job].lease + Spent(w) >= LeaseTime
OneExecutor ==
    \A v, w \in Workers :
        wk[v].pc \in Executing /\ wk[w].pc \in Executing /\ wk[v].job = wk[w].job => v = w

\* What the ledger says of a claim at each step of the work on it.
ExecutorFits(w) ==
    LET k == <<wk[w].job, wk[w].token>> IN
    /\ wk[w].pc \in {"claimed", "reserving", "refused"} => att[k].state = "NONE"
    /\ wk[w].pc \in Charging => wk[w].day \in {day, day - 1}
    /\ wk[w].pc = "reserved" => /\ att[k].state = "RESERVED" /\ ~att[k].contactedProvider
                                /\ att[k].usageDate = wk[w].day
    /\ wk[w].pc = "marked" => /\ att[k].usageDate = wk[w].day
                              /\ \A c \in calls : c.job = wk[w].job => c.n # wk[w].token
    /\ wk[w].pc \in {"marked"} \cup Asking => att[k].state = "IN_FLIGHT" /\ att[k].contactedProvider
    /\ wk[w].pc \in Asking => \E c \in calls : c.job = wk[w].job /\ c.n = wk[w].token
    /\ wk[w].pc \in {"reserved", "marked"} \cup Asking => att[k].age <= Spent(w)
ExecutorsFit == \A w \in Workers : ExecutorFits(w)

\* What a recovery has read stays so until it writes, or the claim is not that one any more;
\* a stale attempt is nobody's.
RecoveriesFit ==
    \A w \in Workers : wk[w].pc = "recovering" =>
        /\ wk[w].seen \in {"release", "exhaust"}
        /\ job[wk[w].job].state \in Terminal \/ wk[w].token <= job[wk[w].job].attemptCount
        /\ Owns(wk[w].job, wk[w].token) =>
              /\ job[wk[w].job].lease = 0
              /\ \A n \in Nums : ~att[<<wk[w].job, n>>].contactedProvider
SweepsFit ==
    \A w \in Workers : wk[w].pc = "sweeping" =>
        LET k == <<wk[w].job, wk[w].token>> IN
        /\ Stale(k) \/ att[k].state = "FINISHED"
        /\ wk[w].seen = "contacted" <=> att[k].contactedProvider

\* A row was reserved under a claim, and a contacted one is that of the last claim, the
\* only contacted one of its job, and finished with it.
ReservedWereClaimed ==
    \A j \in Jobs, n \in Nums :
        /\ att[<<j, n>>].state # "NONE" => n <= job[j].attemptCount
        /\ att[<<j, n>>].contactedProvider => att[<<j, n>>].state \in {"IN_FLIGHT", "FINISHED"}
ContactIsLast ==
    \A j \in Jobs, n \in Nums : att[<<j, n>>].contactedProvider =>
        /\ \A m \in Nums : att[<<j, m>>].contactedProvider => m = n
        /\ job[j].state \in Terminal \/ Owns(j, n)
        /\ att[<<j, n>>].state = "FINISHED" => job[j].state \in Terminal

\* Calls are marked, charged to their day or the one before, and one for each attempt.
CallsFit ==
    /\ \A c \in calls : /\ att[<<c.job, c.n>>].contactedProvider
                        /\ att[<<c.job, c.n>>].usageDate \in {c.day, c.day - 1}
    /\ \A c, d \in calls : c.job = d.job /\ c.n = d.n => c = d

\* What a job says of how it ended.
AnswerTells(j) ==
    /\ job[j].state \notin Terminal => job[j].terminalReasonCode = "none"
    /\ job[j].queriedAt # Null <=> job[j].state \in Answered
    /\ job[j].state \in Answered =>
          \E c \in calls : /\ c.job = j
                           /\ att[<<j, c.n>>].state = "FINISHED"
                           /\ att[<<j, c.n>>].outcome \in Statuses
                           /\ StatusToJobState[att[<<j, c.n>>].outcome] = job[j].state
EndTells(j) ==
    /\ job[j].state \in Answered \cup {"SKIPPED_NOT_CONFIGURED", "SKIPPED_BUDGET"} =>
          job[j].terminalReasonCode \in {"none", "NOT_CONFIGURED"}
    /\ job[j].state \in {"SKIPPED_NOT_CONFIGURED", "SKIPPED_BUDGET"} =>
          \A n \in Nums : ~att[<<j, n>>].contactedProvider
    /\ job[j].state = "DEAD_LETTER" =>
          \/ /\ job[j].terminalReasonCode = "MAX_ATTEMPTS_EXHAUSTED"
             /\ \A n \in Nums : ~att[<<j, n>>].contactedProvider
          \/ /\ job[j].terminalReasonCode = "AMBIGUOUS_AFTER_CONTACT"
             /\ \E n \in Nums : /\ att[<<j, n>>].contactedProvider
                                /\ att[<<j, n>>].state = "FINISHED"
                                /\ att[<<j, n>>].outcome = "ABANDONED"
JobsTell == \A j \in Jobs : AnswerTells(j) /\ EndTells(j)

PInv == /\ ClaimsAreLive /\ OneExecutor /\ ExecutorsFit /\ RecoveriesFit /\ SweepsFit
        /\ ReservedWereClaimed /\ ContactIsLast /\ CallsFit /\ JobsTell

LEMMA ExecutorFacts ==
    ASSUME IInv, PInv, NEW w \in Workers, wk[w].pc \in Executing
    PROVE  /\ wk[w].job \in Jobs /\ wk[w].token \in Nums
           /\ job[wk[w].job].state = "LEASED" /\ job[wk[w].job].claimToken = wk[w].token
           /\ job[wk[w].job].attemptCount = wk[w].token
           /\ job[wk[w].job].lease > 0
           /\ ~Stale(<<wk[w].job, wk[w].token>>)
           /\ att[<<wk[w].job, wk[w].token>>].state # "FINISHED"
<1>1. wk[w].job \in Jobs /\ wk[w].token \in Nums /\ wk[w] \in Worker
  BY DEF Executing, IInv, WorkerInv, WorkersHoldTokens
<1>2. Owns(wk[w].job, wk[w].token) /\ job[wk[w].job].lease + Spent(w) >= LeaseTime
  BY DEF PInv, ClaimsAreLive
<1>3. Spent(w) \in 0..LookupMax
  BY <1>1, ParamFacts DEF Spent, Worker
<1>4. job[wk[w].job] \in Job /\ job[wk[w].job].claimToken = job[wk[w].job].attemptCount
  BY <1>1, <1>2 DEF IInv, JobInv, LeaseNamesClaim, Owns
<1>5. job[wk[w].job].lease > 0
  BY <1>2, <1>3, <1>4, ParamFacts DEF Job
<1>6. ExecutorFits(w)
  BY DEF PInv, ExecutorsFit
<1>7. att[<<wk[w].job, wk[w].token>>] \in Attempt
  BY <1>1 DEF IInv, LedgerInv
<1>8. ~Stale(<<wk[w].job, wk[w].token>>)
  <2>1. CASE wk[w].pc \in {"claimed", "reserving", "refused"}
    BY <1>6, <2>1 DEF ExecutorFits, Stale, Unfinished
  <2>2. CASE wk[w].pc \in {"reserved", "marked"} \cup Asking
    BY <1>3, <1>6, <1>7, <2>2, ParamFacts DEF ExecutorFits, Attempt, Stale
  <2>3. QED
    BY <2>1, <2>2 DEF Executing, Asking
<1>9. att[<<wk[w].job, wk[w].token>>].state # "FINISHED"
  BY <1>6 DEF ExecutorFits, Executing, Asking
<1>10. QED
  BY <1>1, <1>2, <1>4, <1>5, <1>8, <1>9 DEF Owns

LEMMA InitiallyPrompt == Init => PInv
<1> SUFFICES ASSUME Init PROVE PInv
  OBVIOUS
<1>1. \A w \in Workers : wk[w].pc = "idle"
  BY DEF Init, Idle
<1>2. \A j \in Jobs : job[j] = NoRow
  BY DEF Init
<1>3. \A j \in Jobs, n \in Nums : att[<<j, n>>] = NoAttempt
  BY DEF Init
<1>4. calls = {}
  BY DEF Init
<1>5. ClaimsAreLive /\ OneExecutor /\ ExecutorsFit /\ RecoveriesFit /\ SweepsFit
  BY <1>1 DEF ClaimsAreLive, OneExecutor, ExecutorsFit, ExecutorFits, RecoveriesFit, SweepsFit,
              Executing, Asking, Charging
<1>6. ReservedWereClaimed /\ ContactIsLast
  BY <1>3 DEF ReservedWereClaimed, ContactIsLast, NoAttempt
<1>7. CallsFit
  BY <1>4 DEF CallsFit
<1>8. JobsTell
  BY <1>2 DEF JobsTell, AnswerTells, EndTells, NoRow, Terminal, Answered
<1>9. QED
  BY <1>5, <1>6, <1>7, <1>8 DEF PInv

\* Jobs that are open before and after, or as they were, tell what they told.
LEMMA TellingKept ==
    ASSUME PInv,
           \A i \in Jobs : /\ job'[i].queriedAt = job[i].queriedAt
                           /\ job'[i].terminalReasonCode = job[i].terminalReasonCode
                           /\ \/ job'[i].state = job[i].state
                              \/ job'[i].state \notin Terminal /\ job[i].state \notin Terminal,
           calls \subseteq calls',
           calls \subseteq [job: Jobs, n: Nums, day: Days],
           \A i \in Jobs, n \in Nums :
              /\ job[i].state \in Terminal =>
                   (att'[<<i, n>>].contactedProvider <=> att[<<i, n>>].contactedProvider)
              /\ att[<<i, n>>].state = "FINISHED" => att'[<<i, n>>] = att[<<i, n>>]
    PROVE  JobsTell'
<1>1. {"SKIPPED_NOT_CONFIGURED", "SKIPPED_BUDGET", "DEAD_LETTER"} \subseteq Terminal
      /\ Answered \subseteq Terminal
  BY DEF Terminal
<1>2. ASSUME NEW j \in Jobs, job'[j].state \in Answered
      PROVE  \E c \in calls' : /\ c.job = j
                               /\ att'[<<j, c.n>>].state = "FINISHED"
                               /\ att'[<<j, c.n>>].outcome \in Statuses
                               /\ StatusToJobState[att'[<<j, c.n>>].outcome] = job'[j].state
  <2>1. job[j].state = job'[j].state
    BY <1>1, <1>2
  <2>2. PICK c \in calls : /\ c.job = j
                           /\ att[<<j, c.n>>].state = "FINISHED"
                           /\ att[<<j, c.n>>].outcome \in Statuses
                           /\ StatusToJobState[att[<<j, c.n>>].outcome] = job[j].state
    BY <1>2, <2>1 DEF PInv, JobsTell, AnswerTells
  <2>3. c.n \in Nums /\ c \in calls'
    OBVIOUS
  <2>4. att'[<<j, c.n>>] = att[<<j, c.n>>]
    BY <2>2, <2>3
  <2>5. QED
    BY <2>1, <2>2, <2>3, <2>4
<1>3. ASSUME NEW j \in Jobs PROVE AnswerTells(j)'
  <2>1. /\ job'[j].state \notin Terminal => job'[j].terminalReasonCode = "none"
        /\ job'[j].queriedAt # Null <=> job'[j].state \in Answered
    BY <1>1 DEF PInv, JobsTell, AnswerTells
  <2>2. QED
    BY <1>2, <2>1 DEF AnswerTells
<1>4. ASSUME NEW j \in Jobs PROVE EndTells(j)'
  <2>1. EndTells(j)
    BY DEF PInv, JobsTell
  <2>2. CASE job'[j].state # job[j].state
    BY <1>1, <2>2 DEF EndTells
  <2>3. CASE job'[j].state = job[j].state /\ job[j].state \in Terminal
    <3>1. \A n \in Nums : att'[<<j, n>>].contactedProvider <=> att[<<j, n>>].contactedProvider
      BY <2>3
    <3>2. \A n \in Nums : att[<<j, n>>].state = "FINISHED" => att'[<<j, n>>] = att[<<j, n>>]
      OBVIOUS
    <3>3. job'[j].terminalReasonCode = job[j].terminalReasonCode
      OBVIOUS
    <3>4. QED
      BY <2>1, <2>3, <3>1, <3>2, <3>3 DEF EndTells
  <2>4. CASE job'[j].state = job[j].state /\ job[j].state \notin Terminal
    BY <1>1, <2>4 DEF EndTells
  <2>5. QED
    BY <2>2, <2>3, <2>4
<1>5. QED
  BY <1>3, <1>4 DEF JobsTell

\* So it is enough to know what the only job that changes tells.
LEMMA OthersTell ==
    ASSUME PInv, NEW j \in Jobs, calls' = calls,
           \A i \in Jobs : i # j => job'[i] = job[i],
           \A i \in Jobs, n \in Nums : i # j => att'[<<i, n>>] = att[<<i, n>>],
           calls \subseteq [job: Jobs, n: Nums, day: Days],
           AnswerTells(j)', EndTells(j)'
    PROVE  JobsTell'
<1>1. ASSUME NEW i \in Jobs, i # j PROVE AnswerTells(i)' /\ EndTells(i)'
  <2>1. AnswerTells(i) /\ EndTells(i)
    BY DEF PInv, JobsTell
  <2>2. AnswerTells(i)'
    BY <1>1, <2>1 DEF AnswerTells
  <2>3. EndTells(i)'
    BY <1>1, <2>1 DEF EndTells
  <2>4. QED
    BY <2>2, <2>3
<1>2. QED
  BY <1>1 DEF JobsTell

LEMMA CreateKeeps ==
    ASSUME IInv, PInv, NEW j \in Jobs, CreateLookupJob(j) PROVE PInv'
<1> DEFINE row == [job[j] EXCEPT !.state = "PENDING", !.activeLookupKey = SubjectOf[j]]
<1>1. /\ row.state = "PENDING" /\ row.claimToken = job[j].claimToken /\ row.lease = job[j].lease
      /\ row.attemptCount = job[j].attemptCount /\ row.queriedAt = job[j].queriedAt
      /\ row.terminalReasonCode = job[j].terminalReasonCode
  BY DEF IInv, JobInv, Job
<1>2. \A i \in Jobs : job'[i] = IF i = j THEN row ELSE job[i]
  BY DEF CreateLookupJob, IInv, JobInv
<1>3. UNCHANGED <<att, wk, calls, day>> /\ job[j].state = "ABSENT" /\ job[j].attemptCount = 0
  BY DEF CreateLookupJob, IInv, JobInv, LeaseNamesClaim
<1> HIDE DEF row
<1>4. \A n \in Nums : att[<<j, n>>].state = "NONE" /\ ~att[<<j, n>>].contactedProvider
  BY <1>3, ParamFacts DEF PInv, ReservedWereClaimed, Nums
<1>5. \A w \in Workers : wk[w].pc \in Executing => wk[w].job # j
  BY <1>3, ExecutorFacts
<1>6. \A i \in Jobs : \A n : Owns(i, n)' => Owns(i, n) /\ i # j
  BY <1>1, <1>2 DEF Owns
<1>7. ClaimsAreLive' /\ OneExecutor'
  BY <1>2, <1>3, <1>5, ExecutorFacts DEF PInv, ClaimsAreLive, OneExecutor, Owns, Spent
<1>8. ExecutorsFit' /\ SweepsFit' /\ CallsFit'
  BY <1>3 DEF PInv, ExecutorsFit, ExecutorFits, SweepsFit, Stale, CallsFit, Spent
<1>9. RecoveriesFit'
  <2>1. ASSUME NEW v \in Workers, wk[v].pc = "recovering" PROVE wk[v].job \in Jobs /\ wk[v].job # j
    <3>1. wk[v].job \in Jobs /\ wk[v].token \in Nums
      BY <2>1 DEF IInv, WorkerInv, WorkersHoldTokens
    <3>2. wk[v].job = j => wk[v].token <= 0
      BY <1>3, <2>1 DEF PInv, RecoveriesFit, Terminal, Answered
    <3>3. QED
      BY <3>1, <3>2 DEF Nums
  <2>2. QED
    BY <1>2, <1>3, <2>1 DEF PInv, RecoveriesFit, Owns
<1>10. ReservedWereClaimed'
  BY <1>1, <1>2, <1>3 DEF PInv, ReservedWereClaimed
<1>11. ContactIsLast'
  BY <1>2, <1>3, <1>4 DEF PInv, ContactIsLast, Owns
<1>12. JobsTell'
  <2>1. "ABSENT" \notin Terminal /\ "PENDING" \notin Terminal
    BY DEF Terminal, Answered
  <2>2. QED
    BY <1>1, <1>2, <1>3, <2>1, TellingKept DEF IInv, LedgerInv
<1>13. QED
  BY <1>7, <1>8, <1>9, <1>10, <1>11, <1>12 DEF PInv

LEMMA ClaimKeeps ==
    ASSUME IInv, PInv, NEW w \in Workers, NEW j \in Jobs, ClaimLookupJob(w, j) PROVE PInv'
<1> DEFINE n == job[j].attemptCount + 1
           row == [job[j] EXCEPT !.state = "LEASED", !.claimToken = n,
                                 !.lease = LeaseTime, !.attemptCount = n]
           wrk == [Idle EXCEPT !.pc = "claimed", !.job = j, !.token = n]
<1>1. /\ row.state = "LEASED" /\ row.claimToken = n /\ row.lease = LeaseTime
      /\ row.attemptCount = n /\ row.queriedAt = job[j].queriedAt
      /\ row.terminalReasonCode = job[j].terminalReasonCode
  BY DEF IInv, JobInv, Job
<1>2. \A i \in Jobs : job'[i] = IF i = j THEN row ELSE job[i]
  BY DEF ClaimLookupJob, IInv, JobInv
<1>3. /\ UNCHANGED <<att, calls, day>> /\ job[j].state = "PENDING" /\ wk[w].pc = "idle"
      /\ job[j].attemptCount \in Nat /\ n \in Nums
  BY ParamFacts DEF ClaimLookupJob, IInv, JobInv, Job, Nums
<1>4. \A v \in Workers : wk'[v] = IF v = w THEN wrk ELSE wk[v]
  BY DEF ClaimLookupJob, IInv, WorkerInv
<1>5. wrk.pc = "claimed" /\ wrk.job = j /\ wrk.token = n /\ wrk.age = 0
  BY DEF Idle
<1>6. att[<<j, n>>].state = "NONE" /\ \A m \in Nums : ~att[<<j, m>>].contactedProvider
  <2>1. att[<<j, n>>].state = "NONE"
    BY <1>3 DEF PInv, ReservedWereClaimed, Nums
  <2>2. ASSUME NEW m \in Nums, att[<<j, m>>].contactedProvider PROVE FALSE
    BY <1>3, <2>2 DEF PInv, ContactIsLast, Owns, Terminal, Answered
  <2>3. QED
    BY <2>1, <2>2
<1> HIDE DEF row, wrk, n
<1>7. \A v \in Workers : wk[v].pc \in Executing => wk[v].job # j /\ v # w
  BY <1>3, ExecutorFacts DEF Executing
<1>8. "claimed" \in Executing /\ "claimed" \notin Asking
  BY DEF Executing, Asking
<1>9. ClaimsAreLive'
  <2>1. ASSUME NEW v \in Workers, wk'[v].pc \in Executing
        PROVE  (Owns(wk[v].job, wk[v].token) /\ job[wk[v].job].lease + Spent(v) >= LeaseTime)'
    <3>1. CASE v = w
      <4>1. Spent(v)' = 0
        BY <1>4, <1>5, <3>1 DEF Spent
      <4>2. QED
        BY <1>1, <1>2, <1>4, <1>5, <3>1, <4>1, ParamFacts DEF Owns
    <3>2. CASE v # w
      <4>1. wk'[v] = wk[v] /\ wk[v].job # j /\ wk[v].job \in Jobs
        BY <1>4, <1>7, <2>1, <3>2, ExecutorFacts
      <4>2. job'[wk[v].job] = job[wk[v].job] /\ Spent(v)' = Spent(v)
        BY <1>2, <4>1 DEF Spent
      <4>3. QED
        BY <2>1, <4>1, <4>2 DEF PInv, ClaimsAreLive, Owns
    <3>3. QED
      BY <3>1, <3>2
  <2>2. QED
    BY <2>1 DEF ClaimsAreLive
<1>10. OneExecutor'
  BY <1>4, <1>5, <1>7 DEF PInv, OneExecutor
<1>11. ExecutorsFit'
  <2>1. ASSUME NEW v \in Workers PROVE ExecutorFits(v)'
    <3>1. CASE v = w
      BY <1>3, <1>4, <1>5, <1>6, <1>8, <3>1 DEF ExecutorFits, Asking, Charging
    <3>2. CASE v # w
      BY <1>3, <1>4, <3>2 DEF PInv, ExecutorsFit, ExecutorFits, Spent
    <3>3. QED
      BY <3>1, <3>2
  <2>2. QED
    BY <2>1 DEF ExecutorsFit
<1>12. RecoveriesFit'
  <2>1. ASSUME NEW v \in Workers, wk'[v].pc = "recovering"
        PROVE  /\ v # w /\ wk'[v] = wk[v] /\ wk[v].job \in Jobs /\ wk[v].token \in Nums
               /\ wk[v].job = j => wk[v].token <= job[j].attemptCount /\ ~Owns(j, wk[v].token)'
    <3>1. v # w /\ wk'[v] = wk[v] /\ wk[v].job \in Jobs /\ wk[v].token \in Nums
      BY <1>4, <1>5, <2>1 DEF IInv, WorkerInv, WorkersHoldTokens
    <3>2. wk[v].job = j => wk[v].token <= job[j].attemptCount
      BY <1>3, <2>1, <3>1 DEF PInv, RecoveriesFit, Terminal, Answered
    <3>3. wk[v].job = j => wk[v].token # n
      BY <1>3, <3>1, <3>2 DEF n, Nums
    <3>4. QED
      BY <1>1, <1>2, <3>1, <3>2, <3>3 DEF Owns
  <2>2. \A m \in Nums : m <= job[j].attemptCount => m <= n
    BY <1>3 DEF Nums, n
  <2>3. QED
    BY <1>1, <1>2, <1>3, <2>1, <2>2 DEF PInv, RecoveriesFit, Owns
<1>13. SweepsFit' /\ CallsFit'
  BY <1>3, <1>4, <1>5 DEF PInv, SweepsFit, CallsFit, Stale
<1>14. ReservedWereClaimed'
  <2>1. \A m \in Nums : m <= job[j].attemptCount => m <= n
    BY <1>3 DEF Nums, n
  <2>2. QED
    BY <1>1, <1>2, <1>3, <2>1 DEF PInv, ReservedWereClaimed
<1>15. ContactIsLast'
  BY <1>2, <1>3, <1>6 DEF PInv, ContactIsLast, Owns
<1>16. JobsTell'
  <2>1. "LEASED" \notin Terminal /\ "PENDING" \notin Terminal
    BY DEF Terminal, Answered
  <2>2. QED
    BY <1>1, <1>2, <1>3, <2>1, TellingKept DEF IInv, LedgerInv
<1>17. QED
  BY <1>9, <1>10, <1>11, <1>12, <1>13, <1>14, <1>15, <1>16 DEF PInv

\* A worker that moves on while the tables stay as they are.
LEMMA WorkerMoves ==
    ASSUME IInv, PInv, NEW w \in Workers, NEW wrk, UNCHANGED <<job, att, calls, day>>,
           \A v \in Workers : wk'[v] = IF v = w THEN wrk ELSE wk[v],
           wrk.pc \in Executing =>
              /\ wk[w].pc \in Executing /\ wrk.job = wk[w].job /\ wrk.token = wk[w].token
              /\ (job[wk[w].job].lease + Spent(w) >= LeaseTime)',
           ExecutorFits(w)',
           wrk.pc = "recovering" =>
              /\ wrk.seen \in {"release", "exhaust"}
              /\ job[wrk.job].state \in Terminal \/ wrk.token <= job[wrk.job].attemptCount
              /\ Owns(wrk.job, wrk.token) =>
                    /\ job[wrk.job].lease = 0
                    /\ \A n \in Nums : ~att[<<wrk.job, n>>].contactedProvider,
           wrk.pc = "sweeping" =>
              /\ Stale(<<wrk.job, wrk.token>>) \/ att[<<wrk.job, wrk.token>>].state = "FINISHED"
              /\ wrk.seen = "contacted" <=> att[<<wrk.job, wrk.token>>].contactedProvider
    PROVE  PInv'
<1>1. ClaimsAreLive'
  <2>1. ASSUME NEW v \in Workers, wk'[v].pc \in Executing
        PROVE  (Owns(wk[v].job, wk[v].token) /\ job[wk[v].job].lease + Spent(v) >= LeaseTime)'
    <3>1. CASE v = w
      BY <2>1, <3>1 DEF PInv, ClaimsAreLive, Owns
    <3>2. CASE v # w
      <4>1. wk'[v] = wk[v] /\ Spent(v)' = Spent(v)
        BY <3>2 DEF Spent
      <4>2. QED
        BY <2>1, <4>1 DEF PInv, ClaimsAreLive, Owns
    <3>3. QED
      BY <3>1, <3>2
  <2>2. QED
    BY <2>1 DEF ClaimsAreLive
<1>2. OneExecutor'
  BY DEF PInv, OneExecutor
<1>3. ExecutorsFit'
  <2>1. ASSUME NEW v \in Workers, v # w PROVE ExecutorFits(v)'
    BY <2>1 DEF PInv, ExecutorsFit, ExecutorFits, Spent
  <2>2. QED
    BY <2>1 DEF ExecutorsFit
<1>4. RecoveriesFit'
  BY DEF PInv, RecoveriesFit, Owns
<1>5. SweepsFit'
  BY DEF PInv, SweepsFit, Stale
<1>6. ReservedWereClaimed' /\ ContactIsLast' /\ CallsFit'
  BY DEF PInv, ReservedWereClaimed, ContactIsLast, CallsFit, Owns
<1>7. JobsTell'
  BY TellingKept DEF IInv, LedgerInv
<1>8. QED
  BY <1>1, <1>2, <1>3, <1>4, <1>5, <1>6, <1>7 DEF PInv

\* A worker that writes its last statement: it may close the job it holds, or give it
\* back if its provider was not asked, and may finish attempts of that job, but it touches nothing another worker works on.
LastStatement(w, j) ==
    /\ \A v \in Workers : wk'[v] = IF v = w THEN Idle ELSE wk[v]
    /\ \A i \in Jobs :
          \/ job'[i] = job[i]
          \/ /\ i = j /\ job[j].state = "LEASED"
             /\ \/ job'[j].state \in Terminal
                \/ /\ job'[j].state = "PENDING" /\ job'[j].attemptCount = job[j].attemptCount
                   /\ \A n \in Nums : ~att[<<j, n>>].contactedProvider
             /\ \A n \in Nums : att[<<j, n>>].state # "NONE" => n <= job'[j].attemptCount
    /\ \A i \in Jobs, n \in Nums :
          \/ att'[<<i, n>>] = att[<<i, n>>]
          \/ /\ i = j /\ att[<<j, n>>].state \in Unfinished /\ att'[<<j, n>>].state = "FINISHED"
             /\ att'[<<j, n>>].contactedProvider = att[<<j, n>>].contactedProvider
             /\ att'[<<j, n>>].usageDate = att[<<j, n>>].usageDate
             /\ att[<<j, n>>].contactedProvider => job'[j].state \in Terminal
    /\ \A v \in Workers : v # w /\ wk[v].pc \in Executing /\ wk[v].job = j =>
          job'[j] = job[j] /\ att'[<<j, wk[v].token>>] = att[<<j, wk[v].token>>]
    /\ UNCHANGED <<calls, day>>

LEMMA WorkerEnds ==
    ASSUME IInv, PInv, NEW w \in Workers, NEW j \in Jobs, LastStatement(w, j),
           JobsTell'
    PROVE  PInv'
<1>0. /\ "idle" \notin Executing /\ "LEASED" \notin Terminal
      /\ Executing = {"claimed", "reserving", "refused", "reserved", "marked"} \cup Asking
      /\ Charging \subseteq Executing
  BY DEF Executing, Asking, Charging, Terminal, Answered
<1>1. \A v \in Workers : wk'[v].pc # "idle" => v # w /\ wk'[v] = wk[v]
  BY DEF LastStatement, Idle
<1>2. \A i \in Jobs : job[i].state \in Terminal => job'[i] = job[i]
  BY <1>0 DEF LastStatement
<1>3. \A i \in Jobs : \/ job'[i] = job[i] \/ job'[i].state \in Terminal
                      \/ /\ job'[i].state = "PENDING" /\ job'[i].attemptCount = job[i].attemptCount
                         /\ \A n \in Nums : ~att[<<i, n>>].contactedProvider
  BY DEF LastStatement
<1>4. \A i \in Jobs, n \in Nums :
        /\ att'[<<i, n>>].contactedProvider = att[<<i, n>>].contactedProvider
        /\ att'[<<i, n>>].usageDate = att[<<i, n>>].usageDate
        /\ att[<<i, n>>].state = "NONE" <=> att'[<<i, n>>].state = "NONE"
        /\ att[<<i, n>>].state = "FINISHED" => att'[<<i, n>>] = att[<<i, n>>]
        /\ att'[<<i, n>>] = att[<<i, n>>] \/ att'[<<i, n>>].state = "FINISHED"
  BY DEF LastStatement, Unfinished
<1>5. ASSUME NEW v \in Workers, wk'[v].pc \in Executing
      PROVE  /\ v # w /\ wk'[v] = wk[v] /\ wk[v].pc \in Executing
             /\ wk[v].job \in Jobs /\ wk[v].token \in Nums
             /\ job'[wk[v].job] = job[wk[v].job]
             /\ att'[<<wk[v].job, wk[v].token>>] = att[<<wk[v].job, wk[v].token>>]
             /\ Spent(v)' = Spent(v)
  <2>1. v # w /\ wk'[v] = wk[v] /\ wk[v].pc \in Executing
    BY <1>0, <1>1, <1>5
  <2>2. wk[v].job \in Jobs /\ wk[v].token \in Nums
    BY <2>1, ExecutorFacts
  <2>3. Spent(v)' = Spent(v)
    BY <2>1 DEF Spent
  <2>4. QED
    BY <2>1, <2>2, <2>3 DEF LastStatement
<1>6. UNCHANGED <<calls, day>>
  BY DEF LastStatement
<1>7. ClaimsAreLive'
  <2>1. ASSUME NEW v \in Workers, wk'[v].pc \in Executing
        PROVE  (Owns(wk[v].job, wk[v].token) /\ job[wk[v].job].lease + Spent(v) >= LeaseTime)'
    <3>1. Owns(wk[v].job, wk[v].token) /\ job[wk[v].job].lease + Spent(v) >= LeaseTime
      BY <1>5, <2>1 DEF PInv, ClaimsAreLive
    <3>2. QED
      BY <1>5, <2>1, <3>1 DEF Owns
  <2>2. QED
    BY <2>1 DEF ClaimsAreLive
<1>8. OneExecutor'
  BY <1>5 DEF PInv, OneExecutor
<1>9. ExecutorsFit'
  <2>1. ASSUME NEW v \in Workers PROVE ExecutorFits(v)'
    <3>1. CASE wk'[v].pc \in Executing
      <4>1. ExecutorFits(v)
        BY DEF PInv, ExecutorsFit
      <4>2. QED
        BY <1>5, <1>6, <3>1, <4>1 DEF ExecutorFits
    <3>2. CASE wk'[v].pc \notin Executing
      BY <1>0, <3>2 DEF ExecutorFits
    <3>3. QED
      BY <3>1, <3>2
  <2>2. QED
    BY <2>1 DEF ExecutorsFit
<1>10. RecoveriesFit'
  <2>1. ASSUME NEW v \in Workers, wk'[v].pc = "recovering"
        PROVE  /\ wk[v].pc = "recovering" /\ wk'[v] = wk[v]
               /\ wk[v].job \in Jobs /\ wk[v].token \in Nums
    BY <1>1, <2>1 DEF IInv, WorkerInv, WorkersHoldTokens
  <2>2. \A i \in Jobs, n \in Nums : Owns(i, n)' => job'[i] = job[i]
    BY <1>0, <1>3 DEF Owns
  <2>3. QED
    BY <1>2, <1>3, <1>4, <2>1, <2>2 DEF PInv, RecoveriesFit, Owns
<1>11. SweepsFit'
  <2>1. ASSUME NEW v \in Workers, wk'[v].pc = "sweeping"
        PROVE  LET k == <<wk[v].job, wk[v].token>> IN
               /\ (Stale(k) \/ att[k].state = "FINISHED")'
               /\ (wk[v].seen = "contacted" <=> att[k].contactedProvider)'
    <3>1. wk[v].pc = "sweeping" /\ wk'[v] = wk[v] /\ wk[v].job \in Jobs /\ wk[v].token \in Nums
      BY <1>1, <2>1 DEF IInv, WorkerInv, WorkersHoldTokens
    <3>2. LET k == <<wk[v].job, wk[v].token>> IN
          /\ Stale(k) \/ att[k].state = "FINISHED"
          /\ wk[v].seen = "contacted" <=> att[k].contactedProvider
      BY <3>1 DEF PInv, SweepsFit
    <3>3. QED
      BY <1>4, <3>1, <3>2 DEF Stale
  <2>2. QED
    BY <2>1 DEF SweepsFit
<1>12. ReservedWereClaimed'
  <2>1. ASSUME NEW i \in Jobs, NEW n \in Nums
        PROVE  /\ att'[<<i, n>>].state # "NONE" => n <= job'[i].attemptCount
               /\ att'[<<i, n>>].contactedProvider => att'[<<i, n>>].state \in {"IN_FLIGHT", "FINISHED"}
    <3>1. /\ att[<<i, n>>].state # "NONE" => n <= job[i].attemptCount
          /\ att[<<i, n>>].contactedProvider => att[<<i, n>>].state \in {"IN_FLIGHT", "FINISHED"}
      BY DEF PInv, ReservedWereClaimed
    <3>2. att[<<i, n>>].state # "NONE" => n <= job'[i].attemptCount
      BY <3>1 DEF LastStatement
    <3>3. QED
      BY <1>4, <3>1, <3>2
  <2>2. QED
    BY <2>1 DEF ReservedWereClaimed
<1>13. ContactIsLast'
  <2>1. ASSUME NEW i \in Jobs, NEW n \in Nums, att'[<<i, n>>].contactedProvider
        PROVE  /\ \A m \in Nums : att'[<<i, m>>].contactedProvider => m = n
               /\ job'[i].state \in Terminal \/ Owns(i, n)'
               /\ att'[<<i, n>>].state = "FINISHED" => job'[i].state \in Terminal
    <3>1. att[<<i, n>>].contactedProvider
      BY <1>4, <2>1
    <3>2. /\ \A m \in Nums : att[<<i, m>>].contactedProvider => m = n
          /\ job[i].state \in Terminal \/ Owns(i, n)
          /\ att[<<i, n>>].state = "FINISHED" => job[i].state \in Terminal
      BY <3>1 DEF PInv, ContactIsLast
    <3>3. \A m \in Nums : att'[<<i, m>>].contactedProvider => m = n
      BY <1>4, <3>2
    <3>4. job'[i].state \in Terminal \/ Owns(i, n)'
      BY <1>3, <3>1, <3>2 DEF Owns
    <3>5. att'[<<i, n>>].state = "FINISHED" => job'[i].state \in Terminal
      BY <1>2, <3>1, <3>2 DEF LastStatement
    <3>6. QED
      BY <3>3, <3>4, <3>5
  <2>2. QED
    BY <2>1 DEF ContactIsLast
<1>14. CallsFit'
  BY <1>4, <1>6 DEF PInv, CallsFit, IInv, LedgerInv
<1>15. QED
  BY <1>7, <1>8, <1>9, <1>10, <1>11, <1>12, <1>13, <1>14 DEF PInv

LEMMA SettingIdle ==
    ASSUME IInv, NEW w \in Workers, GoIdle(w)
    PROVE  \A v \in Workers : wk'[v] = IF v = w THEN Idle ELSE wk[v]
BY DEF GoIdle, IInv, WorkerInv

LEMMA CrashKeeps == ASSUME IInv, PInv, NEW w \in Workers, Crash(w) PROVE PInv'
<1>1. \A v \in Workers : wk'[v] = IF v = w THEN Idle ELSE wk[v]
  BY SettingIdle DEF Crash
<1>2. UNCHANGED <<job, att, calls, day>> /\ Idle.pc = "idle"
  BY DEF Crash, Idle
<1>3. "idle" \notin Executing /\ ExecutorFits(w)'
  BY <1>1, <1>2 DEF Executing, Asking, Charging, ExecutorFits
<1>4. QED
  BY <1>1, <1>2, <1>3, WorkerMoves

LEMMA RefusedKeeps == ASSUME IInv, PInv, NEW w \in Workers, ReserveRefused(w) PROVE PInv'
<1> DEFINE wrk == [wk[w] EXCEPT !.pc = "refused"]
<1>1. wrk.pc = "refused" /\ wrk.job = wk[w].job /\ wrk.token = wk[w].token /\ wk[w].pc = "reserving"
  BY DEF ReserveRefused, IInv, WorkerInv, Worker
<1>2. \A v \in Workers : wk'[v] = IF v = w THEN wrk ELSE wk[v]
  BY DEF ReserveRefused, GoTo, IInv, WorkerInv
<1>3. UNCHANGED <<job, att, calls, day>>
  BY DEF ReserveRefused
<1> HIDE DEF wrk
<1>4. Spent(w)' = Spent(w) /\ "reserving" \in Executing
  BY <1>1, <1>2 DEF Spent, Executing
<1>5. ExecutorFits(w)'
  BY <1>1, <1>2, <1>3 DEF PInv, ExecutorsFit, ExecutorFits, Asking, Charging
<1>6. (job[wk[w].job].lease + Spent(w) >= LeaseTime)'
  BY <1>1, <1>2, <1>3, <1>4 DEF PInv, ClaimsAreLive
<1>7. QED
  BY <1>1, <1>2, <1>3, <1>4, <1>5, <1>6, WorkerMoves

LEMMA ReadReserveAtKeeps == ASSUME IInv, PInv, NEW w \in Workers, ReadReserveAt(w) PROVE PInv'
<1> DEFINE wrk == [wk[w] EXCEPT !.pc = "reserving", !.day = day]
<1>1. /\ wrk.pc = "reserving" /\ wrk.job = wk[w].job /\ wrk.token = wk[w].token
      /\ wrk.day = day /\ wk[w].pc = "claimed"
  BY DEF ReadReserveAt, IInv, WorkerInv, Worker
<1>2. \A v \in Workers : wk'[v] = IF v = w THEN wrk ELSE wk[v]
  BY DEF ReadReserveAt, IInv, WorkerInv
<1>3. UNCHANGED <<job, att, calls, day>>
  BY DEF ReadReserveAt
<1> HIDE DEF wrk
<1>4. Spent(w)' = Spent(w) /\ "claimed" \in Executing
  BY <1>1, <1>2 DEF Spent, Executing
<1>5. ExecutorFits(w)'
  BY <1>1, <1>2, <1>3 DEF PInv, ExecutorsFit, ExecutorFits, Asking, Charging
<1>6. (job[wk[w].job].lease + Spent(w) >= LeaseTime)'
  BY <1>1, <1>2, <1>3, <1>4 DEF PInv, ClaimsAreLive
<1>7. QED
  BY <1>1, <1>2, <1>3, <1>4, <1>5, <1>6, WorkerMoves

\* The age of a claim does not shrink when its call ends.
LEMMA CallEnds ==
    ASSUME IInv, PInv, NEW w \in Workers, NEW wrk, UNCHANGED <<job, att, calls, day>>,
           wk[w].pc = "calling", wrk.pc \in {"answered", "failed"},
           wrk.job = wk[w].job, wrk.token = wk[w].token,
           \A v \in Workers : wk'[v] = IF v = w THEN wrk ELSE wk[v]
    PROVE  PInv'
<1>1. Spent(w) \in 0..LookupMax /\ Spent(w)' = LookupMax
  BY DEF Spent, IInv, WorkerInv, Worker
<1>2. "calling" \in Executing /\ wrk.pc \in Asking /\ "calling" \in Asking
  BY DEF Executing, Asking
<1>3. wk[w].job \in Jobs /\ wk[w].token \in Nums
  BY <1>2, ExecutorFacts
<1>4. (job[wk[w].job].lease + Spent(w) >= LeaseTime)'
  <2>1. job[wk[w].job].lease + Spent(w) >= LeaseTime /\ job[wk[w].job].lease \in Nat
    BY <1>2, <1>3, ParamFacts DEF PInv, ClaimsAreLive, IInv, JobInv, Job
  <2>2. QED
    BY <1>1, <2>1, ParamFacts
<1>5. ExecutorFits(w)'
  <2>1. att[<<wk[w].job, wk[w].token>>].age <= Spent(w)
        /\ att[<<wk[w].job, wk[w].token>>].age \in Nat
    <3>1. att[<<wk[w].job, wk[w].token>>] \in Attempt
      BY <1>3 DEF IInv, LedgerInv
    <3>2. ExecutorFits(w)
      BY DEF PInv, ExecutorsFit
    <3>3. QED
      BY <1>2, <3>1, <3>2, ParamFacts DEF ExecutorFits, Attempt
  <2>2. att[<<wk[w].job, wk[w].token>>].age <= Spent(w)'
    BY <1>1, <2>1, ParamFacts
  <2>3. QED
    BY <1>2, <2>2 DEF PInv, ExecutorsFit, ExecutorFits, Asking, Charging
<1>6. wk[w].pc \in Executing /\ wrk.pc # "recovering" /\ wrk.pc # "sweeping"
  BY <1>2
<1>7. QED
  BY <1>4, <1>5, <1>6, WorkerMoves

LEMMA ReturnKeeps == ASSUME IInv, PInv, NEW w \in Workers, LookupReturns(w) PROVE PInv'
<1>1. PICK s \in Statuses : wk' = [wk EXCEPT ![w].pc = "answered", ![w].seen = s, ![w].age = 0]
  BY DEF LookupReturns
<1> DEFINE wrk == [wk[w] EXCEPT !.pc = "answered", !.seen = s, !.age = 0]
<1>2. wrk.pc = "answered" /\ wrk.job = wk[w].job /\ wrk.token = wk[w].token
  BY DEF IInv, WorkerInv, Worker
<1>3. \A v \in Workers : wk'[v] = IF v = w THEN wrk ELSE wk[v]
  BY <1>1 DEF IInv, WorkerInv
<1>4. UNCHANGED <<job, att, calls, day>> /\ wk[w].pc = "calling"
  BY DEF LookupReturns
<1> HIDE DEF wrk
<1>5. QED
  BY <1>2, <1>3, <1>4, CallEnds

LEMMA ThrowKeeps == ASSUME IInv, PInv, NEW w \in Workers, LookupThrows(w) PROVE PInv'
<1> DEFINE wrk == [wk[w] EXCEPT !.pc = "failed", !.age = 0]
<1>1. wrk.pc = "failed" /\ wrk.job = wk[w].job /\ wrk.token = wk[w].token
  BY DEF IInv, WorkerInv, Worker
<1>2. \A v \in Workers : wk'[v] = IF v = w THEN wrk ELSE wk[v]
  BY DEF LookupThrows, IInv, WorkerInv
<1>3. UNCHANGED <<job, att, calls, day>> /\ wk[w].pc = "calling"
  BY DEF LookupThrows
<1> HIDE DEF wrk
<1>4. QED
  BY <1>1, <1>2, <1>3, CallEnds

LEMMA RecoverReadKeeps ==
    ASSUME IInv, PInv, NEW w \in Workers, NEW j \in Jobs, RecoverRead(w, j) PROVE PInv'
<1> DEFINE decision == IF ContactedLatest(j, "FINISHED") THEN "bury"
                       ELSE IF job[j].attemptCount >= MaxAttempts THEN "exhaust"
                       ELSE "release"
           wrk == [Idle EXCEPT !.pc = "recovering", !.job = j,
                               !.token = job[j].claimToken, !.seen = decision]
<1>1. wrk.pc = "recovering" /\ wrk.job = j /\ wrk.token = job[j].claimToken /\ wrk.seen = decision
  BY DEF Idle
<1>2. \A v \in Workers : wk'[v] = IF v = w THEN wrk ELSE wk[v]
  BY DEF RecoverRead, IInv, WorkerInv
<1>3. /\ UNCHANGED <<job, att, calls, day>> /\ ~ContactedLatest(j, "IN_FLIGHT")
      /\ job[j].state = "LEASED" /\ job[j].lease = 0 /\ job[j].claimToken = job[j].attemptCount
      /\ job[j].attemptCount \in Nat
  BY ParamFacts DEF RecoverRead, IInv, JobInv, LeaseNamesClaim, Job
<1>4. "LEASED" \notin Terminal
  BY DEF Terminal, Answered
<1>5. ASSUME NEW n \in Nums, att[<<j, n>>].contactedProvider PROVE FALSE
  <2>1. n = job[j].claimToken /\ att[<<j, n>>].state # "FINISHED" /\ att[<<j, n>>].state = "IN_FLIGHT"
    BY <1>3, <1>4, <1>5 DEF PInv, ContactIsLast, ReservedWereClaimed, Owns
  <2>2. LatestIs(j, n)
    BY <1>3, <2>1 DEF LatestIs, Reserved, PInv, ReservedWereClaimed
  <2>3. QED
    BY <1>3, <1>5, <2>1, <2>2 DEF ContactedLatest
<1>6. decision \in {"release", "exhaust"}
  BY <1>5 DEF ContactedLatest, LatestIs
<1>7. "recovering" \notin Executing /\ ExecutorFits(w)'
  BY <1>1, <1>2 DEF Executing, Asking, Charging, ExecutorFits
<1> HIDE DEF wrk, decision
<1>8. /\ wrk.seen \in {"release", "exhaust"} /\ wrk.token <= job[wrk.job].attemptCount
      /\ job[wrk.job].lease = 0 /\ \A n \in Nums : ~att[<<wrk.job, n>>].contactedProvider
      /\ wrk.pc # "sweeping" /\ wrk.pc \notin Executing
  BY <1>1, <1>3, <1>5, <1>6, <1>7
<1>9. QED
  BY <1>2, <1>3, <1>7, <1>8, WorkerMoves

LEMMA SweepReadKeeps ==
    ASSUME IInv, PInv, NEW w \in Workers, NEW j \in Jobs, NEW n \in Nums, SweepRead(w, j, n)
    PROVE  PInv'
<1> DEFINE reading == IF att[<<j, n>>].contactedProvider THEN "contacted" ELSE "uncontacted"
           wrk == [Idle EXCEPT !.pc = "sweeping", !.job = j, !.token = n, !.seen = reading]
<1>1. wrk.pc = "sweeping" /\ wrk.job = j /\ wrk.token = n /\ wrk.seen = reading
  BY DEF Idle
<1>2. \A v \in Workers : wk'[v] = IF v = w THEN wrk ELSE wk[v]
  BY DEF SweepRead, IInv, WorkerInv
<1>3. UNCHANGED <<job, att, calls, day>> /\ Stale(<<j, n>>)
  BY DEF SweepRead
<1>4. "sweeping" \notin Executing /\ ExecutorFits(w)'
  BY <1>1, <1>2 DEF Executing, Asking, Charging, ExecutorFits
<1>5. reading = "contacted" <=> att[<<j, n>>].contactedProvider
  OBVIOUS
<1> HIDE DEF wrk, reading
<1>6. QED
  BY <1>1, <1>2, <1>3, <1>4, <1>5, WorkerMoves

\* A claim being worked on is the worker's alone, and only its attempt may be contacted.
LEMMA SoleClaim ==
    ASSUME IInv, PInv, NEW w \in Workers, wk[w].pc \in Executing
    PROVE  /\ Owns(wk[w].job, wk[w].token)
           /\ \A v \in Workers : v # w /\ wk[v].pc \in Executing => wk[v].job # wk[w].job
           /\ \A n \in Nums : att[<<wk[w].job, n>>].contactedProvider => n = wk[w].token
           /\ \A n \in Nums : att[<<wk[w].job, n>>].state # "NONE" => n <= wk[w].token
           /\ job[wk[w].job].queriedAt = Null /\ job[wk[w].job].terminalReasonCode = "none"
           /\ job[wk[w].job] \in Job /\ job[wk[w].job].state \notin Terminal
<1>1. wk[w].job \in Jobs /\ wk[w].token \in Nums /\ job[wk[w].job].attemptCount = wk[w].token
      /\ job[wk[w].job].state = "LEASED" /\ job[wk[w].job].claimToken = wk[w].token
  BY ExecutorFacts
<1>2. "LEASED" \notin Terminal /\ "LEASED" \notin Answered
  BY DEF Terminal, Answered
<1>3. \A n \in Nums : att[<<wk[w].job, n>>].contactedProvider => n = wk[w].token
  BY <1>1, <1>2 DEF PInv, ContactIsLast, Owns
<1>4. \A n \in Nums : att[<<wk[w].job, n>>].state # "NONE" => n <= wk[w].token
  BY <1>1 DEF PInv, ReservedWereClaimed
<1>5. AnswerTells(wk[w].job)
  BY <1>1 DEF PInv, JobsTell
<1>6. job[wk[w].job].queriedAt = Null /\ job[wk[w].job].terminalReasonCode = "none"
  BY <1>1, <1>2, <1>5 DEF AnswerTells
<1>7. \A v \in Workers : v # w /\ wk[v].pc \in Executing => wk[v].job # wk[w].job
  BY DEF PInv, OneExecutor
<1>8. QED
  BY <1>1, <1>2, <1>3, <1>4, <1>6, <1>7 DEF Owns, IInv, JobInv

LEMMA SkipKeeps == ASSUME IInv, PInv, NEW w \in Workers, SkipNotConfigured(w) PROVE PInv'
<1>1. wk[w].pc = "claimed" /\ wk[w].pc \in Executing
  BY DEF SkipNotConfigured, Executing
<1>2. PICK j \in Jobs : j = wk[w].job
  BY <1>1, ExecutorFacts
<1> DEFINE row == Closed(j, "SKIPPED_NOT_CONFIGURED", "NOT_CONFIGURED")
<1>3. Owns(j, wk[w].token) /\ job[j] \in Job
  BY <1>1, <1>2, SoleClaim
<1>4. /\ \A i \in Jobs : job'[i] = IF i = j THEN row ELSE job[i]
      /\ UNCHANGED <<att, calls, day>>
  BY <1>2, <1>3 DEF SkipNotConfigured, UpdateIf, IInv, JobInv
<1>5. /\ row.state = "SKIPPED_NOT_CONFIGURED" /\ row.terminalReasonCode = "NOT_CONFIGURED"
      /\ row.attemptCount = job[j].attemptCount /\ row.queriedAt = Null
  BY <1>1, <1>2, <1>3, SoleClaim, ClosedKeeps
<1> HIDE DEF row
<1>6. row.state \in Terminal /\ row.state \notin Answered /\ row.state # "DEAD_LETTER"
  BY <1>5 DEF Terminal, Answered
<1>7. \A n \in Nums : ~att[<<j, n>>].contactedProvider
  BY <1>1, <1>2, SoleClaim DEF PInv, ExecutorsFit, ExecutorFits, ReservedWereClaimed
<1>8. AnswerTells(j)' /\ EndTells(j)'
  BY <1>4, <1>5, <1>6, <1>7 DEF AnswerTells, EndTells
<1>9. JobsTell'
  BY <1>4, <1>8, OthersTell DEF IInv, LedgerInv
<1>10. LastStatement(w, j)
  <2>1. \A v \in Workers : wk'[v] = IF v = w THEN Idle ELSE wk[v]
    BY SettingIdle DEF SkipNotConfigured
  <2>2. \A v \in Workers : ~(v # w /\ wk[v].pc \in Executing /\ wk[v].job = j)
    BY <1>1, <1>2, SoleClaim
  <2>3. \A n \in Nums : att[<<j, n>>].state # "NONE" => n <= row.attemptCount
    BY <1>5 DEF PInv, ReservedWereClaimed
  <2>4. QED
    BY <1>3, <1>4, <1>6, <2>1, <2>2, <2>3 DEF LastStatement, Owns
<1>11. QED
  BY <1>9, <1>10, WorkerEnds

LEMMA RefuseKeeps == ASSUME IInv, PInv, NEW w \in Workers, RefuseClaimedJobForBudget(w) PROVE PInv'
<1>1. wk[w].pc = "refused" /\ wk[w].pc \in Executing
  BY DEF RefuseClaimedJobForBudget, Executing
<1>2. PICK j \in Jobs : j = wk[w].job
  BY <1>1, ExecutorFacts
<1> DEFINE closed == Closed(j, "SKIPPED_BUDGET", job[j].terminalReasonCode)
           row == [closed EXCEPT !.attemptCount = @ - 1]
<1>3. Owns(j, wk[w].token) /\ job[j] \in Job /\ job[j].terminalReasonCode = "none"
  BY <1>1, <1>2, SoleClaim
<1>4. /\ \A i \in Jobs : job'[i] = IF i = j THEN row ELSE job[i]
      /\ UNCHANGED <<att, calls, day>>
  BY <1>2, <1>3 DEF RefuseClaimedJobForBudget, UpdateIf, IInv, JobInv
<1>5. /\ row.state = "SKIPPED_BUDGET" /\ row.terminalReasonCode = "none"
      /\ row.attemptCount = job[j].attemptCount - 1 /\ row.queriedAt = Null
  <2>1. job[j].queriedAt = Null
    BY <1>1, <1>2, SoleClaim
  <2>2. QED
    BY <1>3, <2>1 DEF Closed, Job
<1> HIDE DEF row, closed
<1>6. row.state \in Terminal /\ row.state \notin Answered /\ row.state # "DEAD_LETTER"
  BY <1>5 DEF Terminal, Answered
<1>7. /\ \A n \in Nums : ~att[<<j, n>>].contactedProvider
      /\ att[<<j, wk[w].token>>].state = "NONE"
  BY <1>1, <1>2, SoleClaim DEF PInv, ExecutorsFit, ExecutorFits, ReservedWereClaimed
<1>8. AnswerTells(j)' /\ EndTells(j)'
  BY <1>4, <1>5, <1>6, <1>7 DEF AnswerTells, EndTells
<1>9. JobsTell'
  BY <1>4, <1>8, OthersTell DEF IInv, LedgerInv
<1>10. LastStatement(w, j)
  <2>1. \A v \in Workers : wk'[v] = IF v = w THEN Idle ELSE wk[v]
    BY SettingIdle DEF RefuseClaimedJobForBudget
  <2>2. \A v \in Workers : ~(v # w /\ wk[v].pc \in Executing /\ wk[v].job = j)
    BY <1>1, <1>2, SoleClaim
  <2>3. wk[w].token \in Nums /\ job[j].attemptCount = wk[w].token
    BY <1>1, <1>2, ExecutorFacts
  <2>4. ASSUME NEW n \in Nums, att[<<j, n>>].state # "NONE" PROVE n <= row.attemptCount
    <3>1. n <= wk[w].token /\ n # wk[w].token
      BY <1>1, <1>2, <1>7, <2>4, SoleClaim
    <3>2. QED
      BY <1>5, <2>3, <3>1, ParamFacts DEF Nums
  <2>5. QED
    BY <1>3, <1>4, <1>6, <2>1, <2>2, <2>4 DEF LastStatement, Owns
<1>11. QED
  BY <1>9, <1>10, WorkerEnds

\* What finishing an attempt writes.
LEMMA FinalizedRow ==
    ASSUME IInv, NEW j \in Jobs, NEW n \in Nums, NEW o, att' = Finalized(<<j, n>>, o)
    PROVE  \A i \in Jobs, m \in Nums :
              IF i = j /\ m = n /\ att[<<j, n>>].state \in Unfinished
              THEN /\ att'[<<i, m>>].state = "FINISHED" /\ att'[<<i, m>>].outcome = o
                   /\ att'[<<i, m>>].contactedProvider = att[<<i, m>>].contactedProvider
                   /\ att'[<<i, m>>].usageDate = att[<<i, m>>].usageDate
              ELSE att'[<<i, m>>] = att[<<i, m>>]
<1>1. att \in [Jobs \X Nums -> Attempt] /\ <<j, n>> \in Jobs \X Nums
  BY DEF IInv, LedgerInv
<1>2. CASE att[<<j, n>>].state \notin Unfinished
  BY <1>2 DEF Finalized
<1>3. CASE att[<<j, n>>].state \in Unfinished
  <2> DEFINE row == [att[<<j, n>>] EXCEPT !.state = "FINISHED", !.outcome = o, !.age = 0]
  <2>1. att' = [att EXCEPT ![<<j, n>>] = row]
    BY <1>3 DEF Finalized
  <2>2. /\ row.state = "FINISHED" /\ row.outcome = o
        /\ row.contactedProvider = att[<<j, n>>].contactedProvider
        /\ row.usageDate = att[<<j, n>>].usageDate
    BY <1>1 DEF Attempt
  <2> HIDE DEF row
  <2>3. \A i \in Jobs, m \in Nums : att'[<<i, m>>] = IF i = j /\ m = n THEN row ELSE att[<<i, m>>]
    BY <1>1, <2>1
  <2>4. QED
    BY <1>3, <2>2, <2>3
<1>4. QED
  BY <1>2, <1>3

LEMMA FinalizedChanges ==
    ASSUME IInv, NEW j \in Jobs, NEW n \in Nums, NEW o, att' = Finalized(<<j, n>>, o)
    PROVE  \A i \in Jobs, m \in Nums :
              \/ att'[<<i, m>>] = att[<<i, m>>]
              \/ /\ i = j /\ m = n /\ att[<<j, m>>].state \in Unfinished
                 /\ att'[<<j, m>>].state = "FINISHED"
                 /\ att'[<<j, m>>].contactedProvider = att[<<j, m>>].contactedProvider
                 /\ att'[<<j, m>>].usageDate = att[<<j, m>>].usageDate
<1> SUFFICES ASSUME NEW i \in Jobs, NEW m \in Nums, att'[<<i, m>>] # att[<<i, m>>]
             PROVE  /\ i = j /\ m = n /\ att[<<j, m>>].state \in Unfinished
                    /\ att'[<<j, m>>].state = "FINISHED"
                    /\ att'[<<j, m>>].contactedProvider = att[<<j, m>>].contactedProvider
                    /\ att'[<<j, m>>].usageDate = att[<<j, m>>].usageDate
  OBVIOUS
<1>1. i = j /\ m = n /\ att[<<j, n>>].state \in Unfinished
  BY FinalizedRow
<1>2. QED
  BY <1>1, FinalizedRow

LEMMA AnswerKeeps == ASSUME IInv, PInv, NEW w \in Workers, RecordAnswer(w) PROVE PInv'
<1>1. wk[w].pc = "answered" /\ wk[w].pc \in Executing
  BY DEF RecordAnswer, Executing
<1>2. PICK j \in Jobs : j = wk[w].job
  BY <1>1, ExecutorFacts
<1>3. PICK n \in Nums : n = wk[w].token
  BY <1>1, ExecutorFacts
<1> DEFINE s == wk[w].seen
           closed == Closed(j, StatusToJobState[s], job[j].terminalReasonCode)
           row == [closed EXCEPT !.queriedAt = "set"]
<1>4. Owns(j, n) /\ job[j] \in Job /\ job[j].terminalReasonCode = "none"
  BY <1>1, <1>2, <1>3, SoleClaim
<1>5. /\ att[<<j, n>>].state \in Unfinished /\ att[<<j, n>>].contactedProvider
      /\ \E c \in calls : c.job = j /\ c.n = n
  BY <1>1, <1>2, <1>3 DEF PInv, ExecutorsFit, ExecutorFits, Asking, Charging, Unfinished
<1>6. s \in Statuses /\ StatusToJobState[s] \in Answered
  <2>1. s \in Statuses
    BY <1>1 DEF IInv, WorkerInv, WorkersHoldTokens
  <2>2. s \in AllStatuses
    BY <2>1, ParamFacts
  <2>3. QED
    BY <2>1, <2>2 DEF StatusToJobState, Answered, AllStatuses
<1>7. /\ \A i \in Jobs : job'[i] = IF i = j THEN row ELSE job[i]
      /\ att' = Finalized(<<j, n>>, s)
      /\ UNCHANGED <<calls, day>>
  BY <1>2, <1>3, <1>4, <1>5 DEF RecordAnswer, IInv, JobInv
<1>8. /\ row.state = StatusToJobState[s] /\ row.terminalReasonCode = "none"
      /\ row.attemptCount = job[j].attemptCount /\ row.queriedAt = "set"
  BY <1>4 DEF Closed, Job
<1>9. /\ att'[<<j, n>>].state = "FINISHED" /\ att'[<<j, n>>].outcome = s
      /\ \A i \in Jobs, m \in Nums : i # j => att'[<<i, m>>] = att[<<i, m>>]
  BY <1>5, <1>7, FinalizedRow
<1> HIDE DEF row, closed, s
<1>10. row.state \in Terminal /\ row.state \in Answered /\ row.state # "DEAD_LETTER"
       /\ row.state \notin {"SKIPPED_NOT_CONFIGURED", "SKIPPED_BUDGET"}
  BY <1>6, <1>8 DEF Terminal, Answered
<1>11. AnswerTells(j)' /\ EndTells(j)'
  <2>1. AnswerTells(j)'
    <3>1. PICK c \in calls : c.job = j /\ c.n = n
      BY <1>5
    <3>2. /\ c \in calls' /\ att'[<<j, c.n>>].state = "FINISHED" /\ att'[<<j, c.n>>].outcome \in Statuses
          /\ StatusToJobState[att'[<<j, c.n>>].outcome] = job'[j].state
      BY <1>6, <1>7, <1>8, <1>9, <3>1
    <3>3. job'[j].queriedAt # Null /\ job'[j].state \in Answered /\ job'[j].state \in Terminal
      BY <1>7, <1>8, <1>10 DEF Null
    <3>4. QED
      BY <3>1, <3>2, <3>3 DEF AnswerTells
  <2>2. EndTells(j)'
    BY <1>7, <1>8, <1>10 DEF EndTells
  <2>3. QED
    BY <2>1, <2>2
<1>12. JobsTell'
  BY <1>7, <1>9, <1>11, OthersTell DEF IInv, LedgerInv
<1>13. LastStatement(w, j)
  <2>1. \A v \in Workers : wk'[v] = IF v = w THEN Idle ELSE wk[v]
    BY SettingIdle DEF RecordAnswer
  <2>2. \A v \in Workers : ~(v # w /\ wk[v].pc \in Executing /\ wk[v].job = j)
    BY <1>1, <1>2, SoleClaim
  <2>3. \A m \in Nums : att[<<j, m>>].state # "NONE" => m <= row.attemptCount
    BY <1>8 DEF PInv, ReservedWereClaimed
  <2>4. \A i \in Jobs, m \in Nums :
          \/ att'[<<i, m>>] = att[<<i, m>>]
          \/ /\ i = j /\ m = n /\ att[<<j, m>>].state \in Unfinished
             /\ att'[<<j, m>>].state = "FINISHED"
             /\ att'[<<j, m>>].contactedProvider = att[<<j, m>>].contactedProvider
             /\ att'[<<j, m>>].usageDate = att[<<j, m>>].usageDate
    BY <1>7, FinalizedChanges
  <2>5. \A i \in Jobs : \/ job'[i] = job[i]
                        \/ /\ i = j /\ job[j].state = "LEASED" /\ job'[j].state \in Terminal
                           /\ \A m \in Nums : att[<<j, m>>].state # "NONE" => m <= job'[j].attemptCount
    BY <1>4, <1>7, <1>10, <2>3 DEF Owns
  <2>6. job'[j].state \in Terminal
    BY <1>7, <1>10
  <2>7. QED
    BY <1>7, <2>1, <2>2, <2>4, <2>5, <2>6 DEF LastStatement
<1>14. QED
  BY <1>12, <1>13, WorkerEnds

\* A contacted attempt that is abandoned with its leased job buries that job.
LEMMA BuryingTells ==
    ASSUME IInv, PInv, NEW j \in Jobs, NEW n \in Nums,
           att[<<j, n>>].state \in Unfinished, att[<<j, n>>].contactedProvider,
           job[j].state = "LEASED",
           \A i \in Jobs : job'[i] = IF i = j
                                     THEN Closed(j, "DEAD_LETTER", "AMBIGUOUS_AFTER_CONTACT")
                                     ELSE job[i],
           att' = Finalized(<<j, n>>, "ABANDONED"),
           UNCHANGED calls
    PROVE  JobsTell' /\ job'[j].state \in Terminal /\ job'[j].attemptCount = job[j].attemptCount
<1>1. job[j] \in Job /\ job[j].queriedAt = Null
  <2>1. "LEASED" \notin Answered
    BY DEF Answered
  <2>2. AnswerTells(j)
    BY DEF PInv, JobsTell
  <2>3. QED
    BY <2>1, <2>2 DEF AnswerTells, IInv, JobInv
<1>2. /\ job'[j].state = "DEAD_LETTER" /\ job'[j].terminalReasonCode = "AMBIGUOUS_AFTER_CONTACT"
      /\ job'[j].attemptCount = job[j].attemptCount /\ job'[j].queriedAt = Null
  BY <1>1, ClosedKeeps
<1>3. /\ att'[<<j, n>>].state = "FINISHED" /\ att'[<<j, n>>].outcome = "ABANDONED"
      /\ att'[<<j, n>>].contactedProvider
      /\ \A i \in Jobs, m \in Nums : i # j => att'[<<i, m>>] = att[<<i, m>>]
  BY FinalizedRow
<1>4. "DEAD_LETTER" \in Terminal /\ "DEAD_LETTER" \notin Answered
  BY DEF Terminal, Answered
<1>5. AnswerTells(j)'
  BY <1>2, <1>4 DEF AnswerTells
<1>6. EndTells(j)'
  BY <1>2, <1>3, <1>4 DEF EndTells
<1>7. JobsTell'
  BY <1>3, <1>5, <1>6, OthersTell DEF IInv, LedgerInv
<1>8. QED
  BY <1>2, <1>4, <1>7

LEMMA AmbiguousKeeps == ASSUME IInv, PInv, NEW w \in Workers, RecordAmbiguous(w) PROVE PInv'
<1>1. wk[w].pc = "failed" /\ wk[w].pc \in Executing
  BY DEF RecordAmbiguous, Executing
<1>2. PICK j \in Jobs : j = wk[w].job
  BY <1>1, ExecutorFacts
<1>3. PICK n \in Nums : n = wk[w].token
  BY <1>1, ExecutorFacts
<1>4. Owns(j, n)
  BY <1>1, <1>2, <1>3, SoleClaim
<1>5. att[<<j, n>>].state \in Unfinished /\ att[<<j, n>>].contactedProvider
  BY <1>1, <1>2, <1>3 DEF PInv, ExecutorsFit, ExecutorFits, Asking, Charging, Unfinished
<1>6. /\ \A i \in Jobs : job'[i] = IF i = j
                                   THEN Closed(j, "DEAD_LETTER", "AMBIGUOUS_AFTER_CONTACT")
                                   ELSE job[i]
      /\ att' = Finalized(<<j, n>>, "ABANDONED")
      /\ UNCHANGED <<calls, day>>
  BY <1>2, <1>3, <1>4 DEF RecordAmbiguous, UpdateIf, IInv, JobInv
<1>7. JobsTell' /\ job'[j].state \in Terminal /\ job'[j].attemptCount = job[j].attemptCount
  BY <1>4, <1>5, <1>6, BuryingTells DEF Owns
<1>8. LastStatement(w, j)
  <2>1. \A v \in Workers : wk'[v] = IF v = w THEN Idle ELSE wk[v]
    BY SettingIdle DEF RecordAmbiguous
  <2>2. \A v \in Workers : ~(v # w /\ wk[v].pc \in Executing /\ wk[v].job = j)
    BY <1>1, <1>2, SoleClaim
  <2>3. \A m \in Nums : att[<<j, m>>].state # "NONE" => m <= job'[j].attemptCount
    BY <1>7 DEF PInv, ReservedWereClaimed
  <2>4. \A i \in Jobs, m \in Nums :
          \/ att'[<<i, m>>] = att[<<i, m>>]
          \/ /\ i = j /\ m = n /\ att[<<j, m>>].state \in Unfinished
             /\ att'[<<j, m>>].state = "FINISHED"
             /\ att'[<<j, m>>].contactedProvider = att[<<j, m>>].contactedProvider
             /\ att'[<<j, m>>].usageDate = att[<<j, m>>].usageDate
    BY <1>6, FinalizedChanges
  <2>5. \A i \in Jobs : \/ job'[i] = job[i] \/ (i = j /\ job[j].state = "LEASED")
    BY <1>4, <1>6 DEF Owns
  <2>6. QED
    BY <1>6, <1>7, <2>1, <2>2, <2>3, <2>4, <2>5 DEF LastStatement
<1>9. QED
  BY <1>7, <1>8, WorkerEnds

\* A recovery that finds its claim still there retires a job that nobody asked about, or
\* gives it back.
LEMMA RecoverWriteKeeps == ASSUME IInv, PInv, NEW w \in Workers, RecoverWrite(w) PROVE PInv'
<1>1. wk[w].pc = "recovering" /\ wk[w].job \in Jobs /\ wk[w].token \in Nums
  BY DEF RecoverWrite, IInv, WorkerInv, WorkersHoldTokens
<1>2. PICK j \in Jobs : j = wk[w].job
  BY <1>1
<1>3. \A v \in Workers : wk'[v] = IF v = w THEN Idle ELSE wk[v]
  BY SettingIdle DEF RecoverWrite
<1>4. UNCHANGED <<att, calls, day>>
  BY DEF RecoverWrite
<1>5. CASE ~Owns(j, wk[w].token)
  <2>1. UNCHANGED job
    BY <1>2, <1>5 DEF RecoverWrite, UpdateIf
  <2>2. JobsTell'
    BY <1>4, <2>1, TellingKept DEF IInv, LedgerInv
  <2>3. LastStatement(w, j)
    BY <1>3, <1>4, <2>1 DEF LastStatement
  <2>4. QED
    BY <2>2, <2>3, WorkerEnds
<1>6. CASE Owns(j, wk[w].token)
  <2>1. /\ wk[w].seen \in {"release", "exhaust"}
        /\ job[j].lease = 0 /\ \A n \in Nums : ~att[<<j, n>>].contactedProvider
    BY <1>1, <1>2, <1>6 DEF PInv, RecoveriesFit
  <2>2. \A v \in Workers : ~(v # w /\ wk[v].pc \in Executing /\ wk[v].job = j)
    <3>1. ASSUME NEW v \in Workers, wk[v].pc \in Executing, wk[v].job = j PROVE FALSE
      <4>1. job[j].lease > 0
        BY <3>1, ExecutorFacts
      <4>2. QED
        BY <2>1, <4>1
    <3>2. QED
      BY <3>1
  <2>3. /\ job[j] \in Job /\ job[j].state = "LEASED" /\ job[j].queriedAt = Null
        /\ job[j].terminalReasonCode = "none"
        /\ "LEASED" \notin Terminal /\ "PENDING" \notin Terminal /\ "PENDING" \notin Answered
    <3>1. "LEASED" \notin Terminal /\ "LEASED" \notin Answered
          /\ "PENDING" \notin Terminal /\ "PENDING" \notin Answered
      BY DEF Terminal, Answered
    <3>2. job[j].state = "LEASED" /\ job[j] \in Job
      BY <1>6 DEF Owns, IInv, JobInv
    <3>3. AnswerTells(j)
      BY DEF PInv, JobsTell
    <3>4. QED
      BY <3>1, <3>2, <3>3 DEF AnswerTells
  <2>4. CASE wk[w].seen = "exhaust"
    <3> DEFINE row == Closed(j, "DEAD_LETTER", "MAX_ATTEMPTS_EXHAUSTED")
    <3>1. \A i \in Jobs : job'[i] = IF i = j THEN row ELSE job[i]
      BY <1>2, <1>6, <2>4 DEF RecoverWrite, UpdateIf, IInv, JobInv
    <3>2. /\ row.state = "DEAD_LETTER" /\ row.terminalReasonCode = "MAX_ATTEMPTS_EXHAUSTED"
          /\ row.attemptCount = job[j].attemptCount /\ row.queriedAt = Null
      BY <2>3, ClosedKeeps
    <3> HIDE DEF row
    <3>3. row.state \in Terminal /\ row.state \notin Answered
      BY <3>2 DEF Terminal, Answered
    <3>4. AnswerTells(j)' /\ EndTells(j)'
      BY <1>4, <2>1, <3>1, <3>2, <3>3 DEF AnswerTells, EndTells
    <3>5. JobsTell'
      BY <1>4, <3>1, <3>4, OthersTell DEF IInv, LedgerInv
    <3>6. \A n \in Nums : att[<<j, n>>].state # "NONE" => n <= row.attemptCount
      BY <3>2 DEF PInv, ReservedWereClaimed
    <3>7. LastStatement(w, j)
      BY <1>3, <1>4, <2>2, <2>3, <3>1, <3>3, <3>6 DEF LastStatement
    <3>8. QED
      BY <3>5, <3>7, WorkerEnds
  <2>5. CASE wk[w].seen = "release"
    <3> DEFINE row == [job[j] EXCEPT !.state = "PENDING", !.claimToken = 0, !.lease = 0]
    <3>1. \A i \in Jobs : job'[i] = IF i = j THEN row ELSE job[i]
      BY <1>2, <1>6, <2>5 DEF RecoverWrite, UpdateIf, IInv, JobInv
    <3>2. /\ row.state = "PENDING" /\ row.terminalReasonCode = "none"
          /\ row.attemptCount = job[j].attemptCount /\ row.queriedAt = Null
      BY <2>3 DEF Job
    <3> HIDE DEF row
    <3>3. JobsTell'
      BY <1>4, <2>3, <3>1, <3>2, TellingKept DEF IInv, LedgerInv
    <3>4. \A n \in Nums : att[<<j, n>>].state # "NONE" => n <= row.attemptCount
      BY <3>2 DEF PInv, ReservedWereClaimed
    <3>5. LastStatement(w, j)
      BY <1>3, <1>4, <2>1, <2>2, <2>3, <3>1, <3>2, <3>4 DEF LastStatement
    <3>6. QED
      BY <3>3, <3>5, WorkerEnds
  <2>6. QED
    BY <2>1, <2>4, <2>5
<1>7. QED
  BY <1>5, <1>6

\* A sweep never meets a worker at the attempt it read: an attempt is stale only after its
\* claim was given up.
LEMMA SweepWriteKeeps == ASSUME IInv, PInv, NEW w \in Workers, SweepWrite(w) PROVE PInv'
<1>1. wk[w].pc = "sweeping" /\ wk[w].job \in Jobs /\ wk[w].token \in Nums
  BY DEF SweepWrite, IInv, WorkerInv, WorkersHoldTokens
<1>2. PICK j \in Jobs : j = wk[w].job
  BY <1>1
<1>3. PICK n \in Nums : n = wk[w].token
  BY <1>1
<1>4. \A v \in Workers : wk'[v] = IF v = w THEN Idle ELSE wk[v]
  BY SettingIdle DEF SweepWrite
<1>5. att' = Finalized(<<j, n>>, "ABANDONED") /\ UNCHANGED <<calls, day>>
  BY <1>2, <1>3 DEF SweepWrite
<1>6. /\ Stale(<<j, n>>) \/ att[<<j, n>>].state = "FINISHED"
      /\ wk[w].seen = "contacted" <=> att[<<j, n>>].contactedProvider
  BY <1>1, <1>2, <1>3 DEF PInv, SweepsFit
<1>7. \A v \in Workers : v # w /\ wk[v].pc \in Executing /\ wk[v].job = j => wk[v].token # n
  BY <1>2, <1>6, ExecutorFacts
<1>8. \A i \in Jobs, m \in Nums :
         \/ att'[<<i, m>>] = att[<<i, m>>]
         \/ /\ i = j /\ m = n /\ att[<<j, m>>].state \in Unfinished
            /\ att'[<<j, m>>].state = "FINISHED"
            /\ att'[<<j, m>>].contactedProvider = att[<<j, m>>].contactedProvider
            /\ att'[<<j, m>>].usageDate = att[<<j, m>>].usageDate
  BY <1>5, FinalizedChanges
<1>9. \A m \in Nums : att[<<j, m>>].state # "NONE" => m <= job[j].attemptCount
  BY DEF PInv, ReservedWereClaimed
<1>10. CASE att[<<j, n>>].contactedProvider /\ att[<<j, n>>].state \in Unfinished
            /\ job[j].state = "LEASED"
  <2>1. \A i \in Jobs : job'[i] = IF i = j
                                  THEN Closed(j, "DEAD_LETTER", "AMBIGUOUS_AFTER_CONTACT")
                                  ELSE job[i]
    BY <1>2, <1>3, <1>6, <1>10 DEF SweepWrite, UpdateIf, IInv, JobInv
  <2>2. JobsTell' /\ job'[j].state \in Terminal /\ job'[j].attemptCount = job[j].attemptCount
    BY <1>5, <1>10, <2>1, BuryingTells
  <2>3. Owns(j, n)
    BY <1>10 DEF PInv, ContactIsLast, Terminal, Answered
  <2>4. \A v \in Workers : ~(v # w /\ wk[v].pc \in Executing /\ wk[v].job = j)
    BY <1>7, <2>3, ExecutorFacts DEF Owns
  <2>5. LastStatement(w, j)
    BY <1>4, <1>5, <1>8, <1>9, <1>10, <2>1, <2>2, <2>4 DEF LastStatement
  <2>6. QED
    BY <2>2, <2>5, WorkerEnds
<1>11. CASE ~(att[<<j, n>>].contactedProvider /\ att[<<j, n>>].state \in Unfinished
              /\ job[j].state = "LEASED")
  <2>1. UNCHANGED job
    BY <1>2, <1>3, <1>6, <1>11 DEF SweepWrite, UpdateIf
  <2>2. att[<<j, n>>].contactedProvider /\ att[<<j, n>>].state \in Unfinished =>
          job[j].state \in Terminal
    BY <1>11 DEF PInv, ContactIsLast, Owns
  <2>3. JobsTell'
    <3>1. \A i \in Jobs, m \in Nums :
            /\ att'[<<i, m>>].contactedProvider <=> att[<<i, m>>].contactedProvider
            /\ att[<<i, m>>].state = "FINISHED" => att'[<<i, m>>] = att[<<i, m>>]
      BY <1>8 DEF Unfinished
    <3>2. QED
      BY <1>5, <2>1, <3>1, TellingKept DEF IInv, LedgerInv
  <2>4. \A v \in Workers : v # w /\ wk[v].pc \in Executing /\ wk[v].job = j =>
          job'[j] = job[j] /\ att'[<<j, wk[v].token>>] = att[<<j, wk[v].token>>]
    BY <1>7, <1>8, <2>1, ExecutorFacts
  <2>5. LastStatement(w, j)
    BY <1>4, <1>5, <1>8, <2>1, <2>2, <2>4 DEF LastStatement
  <2>6. QED
    BY <2>3, <2>5, WorkerEnds
<1>12. QED
  BY <1>10, <1>11

LEMMA ReserveKeeps == ASSUME IInv, PInv, NEW w \in Workers, ReserveGranted(w) PROVE PInv'
<1>1. wk[w].pc = "reserving" /\ wk[w].pc \in Executing
  BY DEF ReserveGranted, Executing
<1>2. PICK j \in Jobs : j = wk[w].job
  BY <1>1, ExecutorFacts
<1>3. PICK n \in Nums : n = wk[w].token
  BY <1>1, ExecutorFacts
<1> DEFINE row == [NoAttempt EXCEPT !.state = "RESERVED", !.usageDate = wk[w].day]
           wrk == [wk[w] EXCEPT !.pc = "reserved"]
<1>4. /\ row.state = "RESERVED" /\ row.contactedProvider = FALSE /\ row.age = 0
      /\ row.usageDate = wk[w].day
  BY DEF NoAttempt
<1>5. \A i \in Jobs, m \in Nums : att'[<<i, m>>] = IF i = j /\ m = n THEN row ELSE att[<<i, m>>]
  BY <1>2, <1>3 DEF ReserveGranted, IInv, LedgerInv
<1>6. wrk.pc = "reserved" /\ wrk.job = j /\ wrk.token = n /\ wrk.day = wk[w].day
  BY <1>2, <1>3 DEF IInv, WorkerInv, Worker
<1>7. \A v \in Workers : wk'[v] = IF v = w THEN wrk ELSE wk[v]
  BY DEF ReserveGranted, GoTo, IInv, WorkerInv
<1>8. UNCHANGED <<job, calls, day>> /\ att[<<j, n>>].state = "NONE"
  BY <1>2, <1>3 DEF ReserveGranted
<1>9. ~att[<<j, n>>].contactedProvider
  BY <1>8 DEF PInv, ReservedWereClaimed
<1>10. /\ "reserved" \in Executing /\ "reserved" \notin Asking
       /\ Executing = {"claimed", "reserving", "refused", "reserved", "marked"} \cup Asking
       /\ Charging \subseteq Executing
  BY DEF Executing, Asking, Charging
<1> HIDE DEF row, wrk
<1>11. \A i \in Jobs, m \in Nums :
         /\ att'[<<i, m>>].contactedProvider <=> att[<<i, m>>].contactedProvider
         /\ att[<<i, m>>].state # "NONE" => att'[<<i, m>>] = att[<<i, m>>]
  BY <1>4, <1>5, <1>8, <1>9
<1>12. ClaimsAreLive'
  <2>1. ASSUME NEW v \in Workers, wk'[v].pc \in Executing
        PROVE  (Owns(wk[v].job, wk[v].token) /\ job[wk[v].job].lease + Spent(v) >= LeaseTime)'
    <3>1. Spent(v)' = Spent(v) /\ wk[v].pc \in Executing
          /\ wk'[v].job = wk[v].job /\ wk'[v].token = wk[v].token
      BY <1>1, <1>2, <1>3, <1>6, <1>7, <2>1 DEF Spent
    <3>2. QED
      BY <1>8, <3>1 DEF PInv, ClaimsAreLive, Owns
  <2>2. QED
    BY <2>1 DEF ClaimsAreLive
<1>13. OneExecutor'
  BY <1>1, <1>2, <1>6, <1>7 DEF PInv, OneExecutor
<1>14. ExecutorsFit'
  <2>1. ExecutorFits(w)'
    <3>1. Spent(w)' = 0
      BY <1>6, <1>7 DEF Spent
    <3>2. wk[w].day \in {day, day - 1}
      BY <1>1 DEF PInv, ExecutorsFit, ExecutorFits, Charging
    <3>3. QED
      BY <1>4, <1>5, <1>6, <1>7, <1>8, <1>10, <3>1, <3>2 DEF ExecutorFits
  <2>2. ASSUME NEW v \in Workers, v # w PROVE ExecutorFits(v)'
    <3>1. wk'[v] = wk[v] /\ Spent(v)' = Spent(v)
      BY <1>7, <2>2 DEF Spent
    <3>2. CASE wk[v].pc \in Executing
      <4>1. wk[v].job # j /\ wk[v].job \in Jobs /\ wk[v].token \in Nums
        BY <1>1, <1>2, <2>2, <3>2, SoleClaim, ExecutorFacts
      <4>2. att'[<<wk[v].job, wk[v].token>>] = att[<<wk[v].job, wk[v].token>>]
        BY <1>5, <4>1
      <4>3. ExecutorFits(v)
        BY DEF PInv, ExecutorsFit
      <4>4. QED
        BY <1>8, <3>1, <4>2, <4>3 DEF ExecutorFits
    <3>3. CASE wk[v].pc \notin Executing
      BY <1>10, <3>1, <3>3 DEF ExecutorFits
    <3>4. QED
      BY <3>2, <3>3
  <2>3. QED
    BY <2>1, <2>2 DEF ExecutorsFit
<1>15. RecoveriesFit'
  <2>1. ASSUME NEW v \in Workers, wk'[v].pc = "recovering"
        PROVE  wk'[v] = wk[v] /\ wk[v].job \in Jobs /\ wk[v].token \in Nums
    BY <1>6, <1>7, <2>1 DEF IInv, WorkerInv, WorkersHoldTokens
  <2>2. QED
    BY <1>8, <1>11, <2>1 DEF PInv, RecoveriesFit, Owns
<1>16. SweepsFit'
  <2>1. ASSUME NEW v \in Workers, wk'[v].pc = "sweeping"
        PROVE  LET k == <<wk[v].job, wk[v].token>> IN
               /\ (Stale(k) \/ att[k].state = "FINISHED")'
               /\ (wk[v].seen = "contacted" <=> att[k].contactedProvider)'
    <3>1. wk'[v] = wk[v] /\ wk[v].job \in Jobs /\ wk[v].token \in Nums
      BY <1>6, <1>7, <2>1 DEF IInv, WorkerInv, WorkersHoldTokens
    <3>2. LET k == <<wk[v].job, wk[v].token>> IN
          /\ Stale(k) \/ att[k].state = "FINISHED"
          /\ wk[v].seen = "contacted" <=> att[k].contactedProvider
      BY <2>1, <3>1 DEF PInv, SweepsFit
    <3>3. att[<<wk[v].job, wk[v].token>>].state # "NONE"
      BY <3>2 DEF Stale, Unfinished
    <3>4. QED
      BY <1>11, <3>1, <3>2, <3>3 DEF Stale
  <2>2. QED
    BY <2>1 DEF SweepsFit
<1>17. ReservedWereClaimed'
  <2>1. job[j].attemptCount = n /\ n <= n
    <3>1. job[j].attemptCount = n
      BY <1>1, <1>2, <1>3, ExecutorFacts
    <3>2. n <= n
      BY DEF Nums
    <3>3. QED
      BY <3>1, <3>2
  <2>2. ASSUME NEW i \in Jobs, NEW m \in Nums
        PROVE  /\ att'[<<i, m>>].state # "NONE" => m <= job[i].attemptCount
               /\ att'[<<i, m>>].contactedProvider => att'[<<i, m>>].state \in {"IN_FLIGHT", "FINISHED"}
    <3>1. /\ att[<<i, m>>].state # "NONE" => m <= job[i].attemptCount
          /\ att[<<i, m>>].contactedProvider => att[<<i, m>>].state \in {"IN_FLIGHT", "FINISHED"}
      BY DEF PInv, ReservedWereClaimed
    <3>2. CASE i = j /\ m = n
      BY <1>4, <1>5, <2>1, <3>2
    <3>3. CASE ~(i = j /\ m = n)
      BY <1>5, <3>1, <3>3
    <3>4. QED
      BY <3>2, <3>3
  <2>3. QED
    BY <1>8, <2>2 DEF ReservedWereClaimed
<1>18. ContactIsLast'
  <2>1. ASSUME NEW i \in Jobs, NEW m \in Nums, att'[<<i, m>>].contactedProvider
        PROVE  /\ \A l \in Nums : att'[<<i, l>>].contactedProvider => l = m
               /\ job[i].state \in Terminal \/ Owns(i, m)
               /\ att'[<<i, m>>].state = "FINISHED" => job[i].state \in Terminal
    <3>1. att[<<i, m>>].contactedProvider /\ att[<<i, m>>].state # "NONE"
      BY <1>11, <2>1 DEF PInv, ReservedWereClaimed
    <3>2. QED
      BY <1>11, <3>1 DEF PInv, ContactIsLast
  <2>2. QED
    BY <1>8, <2>1 DEF ContactIsLast, Owns
<1>19. CallsFit'
  <2>1. ASSUME NEW c \in calls PROVE att'[<<c.job, c.n>>] = att[<<c.job, c.n>>]
    <3>1. att[<<c.job, c.n>>].contactedProvider /\ c.job \in Jobs /\ c.n \in Nums
      BY DEF PInv, CallsFit, IInv, LedgerInv
    <3>2. att[<<c.job, c.n>>].state # "NONE"
      BY <3>1 DEF PInv, ReservedWereClaimed
    <3>3. QED
      BY <1>11, <3>1, <3>2
  <2>2. QED
    BY <1>8, <2>1 DEF PInv, CallsFit
<1>20. JobsTell'
  BY <1>8, <1>11, TellingKept DEF IInv, LedgerInv
<1>21. QED
  BY <1>12, <1>13, <1>14, <1>15, <1>16, <1>17, <1>18, <1>19, <1>20 DEF PInv

LEMMA MarkKeeps == ASSUME IInv, PInv, NEW w \in Workers, MarkAttemptInFlight(w) PROVE PInv'
<1>1. wk[w].pc = "reserved" /\ wk[w].pc \in Executing
  BY DEF MarkAttemptInFlight, Executing
<1>2. PICK j \in Jobs : j = wk[w].job
  BY <1>1, ExecutorFacts
<1>3. PICK n \in Nums : n = wk[w].token
  BY <1>1, ExecutorFacts
<1> DEFINE row == [att[<<j, n>>] EXCEPT !.state = "IN_FLIGHT", !.contactedProvider = TRUE]
           wrk == [wk[w] EXCEPT !.pc = "marked"]
<1>4. /\ att[<<j, n>>].state = "RESERVED" /\ ~att[<<j, n>>].contactedProvider
      /\ att[<<j, n>>].usageDate = wk[w].day /\ att[<<j, n>>].age <= 0
      /\ wk[w].day \in {day, day - 1}
  BY <1>1, <1>2, <1>3 DEF PInv, ExecutorsFit, ExecutorFits, Spent, Charging
<1>5. /\ row.state = "IN_FLIGHT" /\ row.contactedProvider = TRUE
      /\ row.usageDate = wk[w].day /\ row.age <= 0
  BY <1>4 DEF IInv, LedgerInv, Attempt
<1>6. \A i \in Jobs, m \in Nums : att'[<<i, m>>] = IF i = j /\ m = n THEN row ELSE att[<<i, m>>]
  BY <1>2, <1>3, <1>4 DEF MarkAttemptInFlight, IInv, LedgerInv
<1>7. wrk.pc = "marked" /\ wrk.job = j /\ wrk.token = n /\ wrk.day = wk[w].day
  BY <1>2, <1>3 DEF IInv, WorkerInv, Worker
<1>8. \A v \in Workers : wk'[v] = IF v = w THEN wrk ELSE wk[v]
  BY DEF MarkAttemptInFlight, GoTo, IInv, WorkerInv
<1>9. UNCHANGED <<job, calls, day>>
  BY DEF MarkAttemptInFlight
<1>10. /\ "marked" \notin Asking
       /\ Executing = {"claimed", "reserving", "refused", "reserved", "marked"} \cup Asking
       /\ Charging \subseteq Executing
  BY DEF Executing, Asking, Charging
<1>11. /\ Owns(j, n) /\ job[j].state \notin Terminal /\ job[j].lease > 0 /\ ~Stale(<<j, n>>)
       /\ \A m \in Nums : att[<<j, m>>].contactedProvider => m = n
  BY <1>1, <1>2, <1>3, SoleClaim, ExecutorFacts
<1> HIDE DEF row, wrk
<1>12. ClaimsAreLive'
  <2>1. ASSUME NEW v \in Workers, wk'[v].pc \in Executing
        PROVE  (Owns(wk[v].job, wk[v].token) /\ job[wk[v].job].lease + Spent(v) >= LeaseTime)'
    <3>1. Spent(v)' = Spent(v) /\ wk[v].pc \in Executing
          /\ wk'[v].job = wk[v].job /\ wk'[v].token = wk[v].token
      BY <1>1, <1>2, <1>3, <1>7, <1>8, <2>1 DEF Spent
    <3>2. QED
      BY <1>9, <3>1 DEF PInv, ClaimsAreLive, Owns
  <2>2. QED
    BY <2>1 DEF ClaimsAreLive
<1>13. OneExecutor'
  BY <1>1, <1>2, <1>7, <1>8 DEF PInv, OneExecutor
<1>14. ExecutorsFit'
  <2>1. ExecutorFits(w)'
    <3>1. Spent(w)' = 0
      BY <1>7, <1>8 DEF Spent
    <3>2. ASSUME NEW c \in calls, c.job = j, c.n = n PROVE FALSE
      BY <1>4, <3>2 DEF PInv, CallsFit
    <3>3. QED
      BY <1>4, <1>5, <1>6, <1>7, <1>8, <1>9, <1>10, <3>1, <3>2 DEF ExecutorFits
  <2>2. ASSUME NEW v \in Workers, v # w PROVE ExecutorFits(v)'
    <3>1. wk'[v] = wk[v] /\ Spent(v)' = Spent(v)
      BY <1>8, <2>2 DEF Spent
    <3>2. CASE wk[v].pc \in Executing
      <4>1. wk[v].job # j /\ wk[v].job \in Jobs /\ wk[v].token \in Nums
        BY <1>1, <1>2, <2>2, <3>2, SoleClaim, ExecutorFacts
      <4>2. att'[<<wk[v].job, wk[v].token>>] = att[<<wk[v].job, wk[v].token>>]
        BY <1>6, <4>1
      <4>3. ExecutorFits(v)
        BY DEF PInv, ExecutorsFit
      <4>4. QED
        BY <1>9, <3>1, <4>2, <4>3 DEF ExecutorFits
    <3>3. CASE wk[v].pc \notin Executing
      BY <1>10, <3>1, <3>3 DEF ExecutorFits
    <3>4. QED
      BY <3>2, <3>3
  <2>3. QED
    BY <2>1, <2>2 DEF ExecutorsFit
<1>15. RecoveriesFit'
  <2>1. ASSUME NEW v \in Workers, wk'[v].pc = "recovering"
        PROVE  /\ wk[v].pc = "recovering" /\ wk'[v] = wk[v]
               /\ wk[v].job \in Jobs /\ wk[v].token \in Nums
    BY <1>7, <1>8, <2>1 DEF IInv, WorkerInv, WorkersHoldTokens
  <2>2. ASSUME NEW v \in Workers, wk'[v].pc = "recovering", Owns(wk[v].job, wk[v].token)
        PROVE  wk[v].job # j
    <3>1. job[wk[v].job].lease = 0
      BY <2>1, <2>2 DEF PInv, RecoveriesFit
    <3>2. QED
      BY <1>11, <3>1
  <2>3. \A i \in Jobs, m \in Nums : i # j => att'[<<i, m>>] = att[<<i, m>>]
    BY <1>6
  <2>4. QED
    BY <1>9, <2>1, <2>2, <2>3 DEF PInv, RecoveriesFit, Owns
<1>16. SweepsFit'
  <2>1. ASSUME NEW v \in Workers, wk'[v].pc = "sweeping"
        PROVE  LET k == <<wk[v].job, wk[v].token>> IN
               /\ (Stale(k) \/ att[k].state = "FINISHED")'
               /\ (wk[v].seen = "contacted" <=> att[k].contactedProvider)'
    <3>1. wk'[v] = wk[v] /\ wk[v].job \in Jobs /\ wk[v].token \in Nums
      BY <1>7, <1>8, <2>1 DEF IInv, WorkerInv, WorkersHoldTokens
    <3>2. LET k == <<wk[v].job, wk[v].token>> IN
          /\ Stale(k) \/ att[k].state = "FINISHED"
          /\ wk[v].seen = "contacted" <=> att[k].contactedProvider
      BY <2>1, <3>1 DEF PInv, SweepsFit
    <3>3. ~(wk[v].job = j /\ wk[v].token = n)
      BY <1>4, <1>11, <3>2
    <3>4. att'[<<wk[v].job, wk[v].token>>] = att[<<wk[v].job, wk[v].token>>]
      BY <1>6, <3>1, <3>3
    <3>5. QED
      BY <3>1, <3>2, <3>4 DEF Stale
  <2>2. QED
    BY <2>1 DEF SweepsFit
<1>17. ReservedWereClaimed'
  <2>1. ASSUME NEW i \in Jobs, NEW m \in Nums
        PROVE  /\ att'[<<i, m>>].state # "NONE" => m <= job[i].attemptCount
               /\ att'[<<i, m>>].contactedProvider => att'[<<i, m>>].state \in {"IN_FLIGHT", "FINISHED"}
    <3>1. /\ att[<<i, m>>].state # "NONE" => m <= job[i].attemptCount
          /\ att[<<i, m>>].contactedProvider => att[<<i, m>>].state \in {"IN_FLIGHT", "FINISHED"}
      BY DEF PInv, ReservedWereClaimed
    <3>2. CASE i = j /\ m = n
      BY <1>4, <1>5, <1>6, <3>1, <3>2
    <3>3. CASE ~(i = j /\ m = n)
      BY <1>6, <3>1, <3>3
    <3>4. QED
      BY <3>2, <3>3
  <2>2. QED
    BY <1>9, <2>1 DEF ReservedWereClaimed
<1>18. ContactIsLast'
  <2>1. ASSUME NEW i \in Jobs, NEW m \in Nums, att'[<<i, m>>].contactedProvider
        PROVE  /\ \A l \in Nums : att'[<<i, l>>].contactedProvider => l = m
               /\ job[i].state \in Terminal \/ Owns(i, m)
               /\ att'[<<i, m>>].state = "FINISHED" => job[i].state \in Terminal
    <3>1. CASE i = j
      <4>1. \A l \in Nums : att'[<<j, l>>].contactedProvider => l = n
        BY <1>6, <1>11
      <4>2. m = n /\ att'[<<i, m>>] = row
        BY <1>6, <2>1, <3>1, <4>1
      <4>3. QED
        BY <1>5, <1>11, <3>1, <4>1, <4>2
    <3>2. CASE i # j
      <4>1. \A l \in Nums : att'[<<i, l>>] = att[<<i, l>>]
        BY <1>6, <3>2
      <4>2. QED
        BY <2>1, <4>1 DEF PInv, ContactIsLast
    <3>3. QED
      BY <3>1, <3>2
  <2>2. QED
    BY <1>9, <2>1 DEF ContactIsLast, Owns
<1>19. CallsFit'
  <2>1. ASSUME NEW c \in calls PROVE att'[<<c.job, c.n>>] = att[<<c.job, c.n>>]
    <3>1. att[<<c.job, c.n>>].contactedProvider /\ c.job \in Jobs /\ c.n \in Nums
      BY DEF PInv, CallsFit, IInv, LedgerInv
    <3>2. QED
      BY <1>4, <1>6, <3>1
  <2>2. QED
    BY <1>9, <2>1 DEF PInv, CallsFit
<1>20. JobsTell'
  <2>1. \A i \in Jobs, m \in Nums :
          /\ job[i].state \in Terminal =>
               (att'[<<i, m>>].contactedProvider <=> att[<<i, m>>].contactedProvider)
          /\ att[<<i, m>>].state = "FINISHED" => att'[<<i, m>>] = att[<<i, m>>]
    BY <1>4, <1>6, <1>11
  <2>2. QED
    BY <1>9, <2>1, TellingKept DEF IInv, LedgerInv
<1>21. QED
  BY <1>12, <1>13, <1>14, <1>15, <1>16, <1>17, <1>18, <1>19, <1>20 DEF PInv

LEMMA StartKeeps == ASSUME IInv, PInv, NEW w \in Workers, StartLookup(w) PROVE PInv'
<1>1. wk[w].pc = "marked" /\ wk[w].pc \in Executing
  BY DEF StartLookup, Executing
<1>2. PICK j \in Jobs : j = wk[w].job
  BY <1>1, ExecutorFacts
<1>3. PICK n \in Nums : n = wk[w].token
  BY <1>1, ExecutorFacts
<1> DEFINE call == [job |-> j, n |-> n, day |-> day]
           wrk == [wk[w] EXCEPT !.pc = "calling"]
<1>4. call.job = j /\ call.n = n /\ call.day = day
  OBVIOUS
<1>5. calls' = calls \cup {call} /\ UNCHANGED <<job, att, day>>
  BY <1>2, <1>3 DEF StartLookup
<1>6. wrk.pc = "calling" /\ wrk.job = j /\ wrk.token = n /\ wrk.age = wk[w].age /\ wrk.age \in Nat
  BY <1>2, <1>3, ParamFacts DEF IInv, WorkerInv, Worker
<1>7. \A v \in Workers : wk'[v] = IF v = w THEN wrk ELSE wk[v]
  BY DEF StartLookup, GoTo, IInv, WorkerInv
<1>8. /\ att[<<j, n>>].usageDate \in {day, day - 1} /\ \A c \in calls : c.job = j => c.n # n
      /\ att[<<j, n>>].state = "IN_FLIGHT" /\ att[<<j, n>>].contactedProvider
      /\ att[<<j, n>>].age <= 0
  BY <1>1, <1>2, <1>3 DEF PInv, ExecutorsFit, ExecutorFits, Spent, Charging
<1>9. att[<<j, n>>].age \in Nat /\ job[j].lease \in Nat /\ Owns(j, n) /\ job[j].lease >= LeaseTime
  <2>1. att[<<j, n>>] \in Attempt /\ job[j] \in Job
    BY DEF IInv, LedgerInv, JobInv
  <2>2. Owns(j, n) /\ job[j].lease + Spent(w) >= LeaseTime /\ Spent(w) = 0
    BY <1>1, <1>2, <1>3 DEF PInv, ClaimsAreLive, Spent
  <2>3. QED
    BY <2>1, <2>2, ParamFacts DEF Attempt, Job
<1>10. /\ "calling" \in Asking /\ "marked" \notin Asking /\ "calling" \notin Charging
       /\ Executing = {"claimed", "reserving", "refused", "reserved", "marked"} \cup Asking
       /\ Charging \subseteq Executing
  BY DEF Executing, Asking, Charging
<1> HIDE DEF call, wrk
<1>11. Spent(w)' = wk[w].age
  BY <1>6, <1>7 DEF Spent
<1>12. ClaimsAreLive'
  <2>1. ASSUME NEW v \in Workers, wk'[v].pc \in Executing
        PROVE  (Owns(wk[v].job, wk[v].token) /\ job[wk[v].job].lease + Spent(v) >= LeaseTime)'
    <3>1. CASE v = w
      <4>1. job[j].lease + wk[w].age >= LeaseTime
        BY <1>6, <1>9, ParamFacts
      <4>2. QED
        BY <1>5, <1>6, <1>7, <1>9, <1>11, <3>1, <4>1 DEF Owns
    <3>2. CASE v # w
      <4>1. wk'[v] = wk[v] /\ Spent(v)' = Spent(v)
        BY <1>7, <3>2 DEF Spent
      <4>2. QED
        BY <1>5, <2>1, <4>1 DEF PInv, ClaimsAreLive, Owns
    <3>3. QED
      BY <3>1, <3>2
  <2>2. QED
    BY <2>1 DEF ClaimsAreLive
<1>13. OneExecutor'
  BY <1>1, <1>2, <1>6, <1>7 DEF PInv, OneExecutor
<1>14. ExecutorsFit'
  <2>1. ExecutorFits(w)'
    <3>1. att[<<j, n>>].age <= wk[w].age
      BY <1>6, <1>8, <1>9
    <3>2. \E c \in calls' : c.job = j /\ c.n = n
      BY <1>4, <1>5
    <3>3. QED
      BY <1>5, <1>6, <1>7, <1>8, <1>10, <1>11, <3>1, <3>2 DEF ExecutorFits
  <2>2. ASSUME NEW v \in Workers, v # w PROVE ExecutorFits(v)'
    <3>1. wk'[v] = wk[v] /\ Spent(v)' = Spent(v)
      BY <1>7, <2>2 DEF Spent
    <3>2. CASE wk[v].pc \in Executing
      <4>1. wk[v].job # j
        BY <1>1, <1>2, <2>2, <3>2, SoleClaim
      <4>2. ExecutorFits(v)
        BY DEF PInv, ExecutorsFit
      <4>3. QED
        BY <1>4, <1>5, <3>1, <4>1, <4>2 DEF ExecutorFits
    <3>3. CASE wk[v].pc \notin Executing
      BY <1>10, <3>1, <3>3 DEF ExecutorFits
    <3>4. QED
      BY <3>2, <3>3
  <2>3. QED
    BY <2>1, <2>2 DEF ExecutorsFit
<1>15. RecoveriesFit' /\ SweepsFit'
  <2>1. ASSUME NEW v \in Workers, wk'[v].pc \in {"recovering", "sweeping"} PROVE wk'[v] = wk[v]
    BY <1>6, <1>7, <2>1
  <2>2. RecoveriesFit'
    BY <1>5, <2>1 DEF PInv, RecoveriesFit, Owns
  <2>3. SweepsFit'
    BY <1>5, <2>1 DEF PInv, SweepsFit, Stale
  <2>4. QED
    BY <2>2, <2>3
<1>16. ReservedWereClaimed' /\ ContactIsLast'
  BY <1>5 DEF PInv, ReservedWereClaimed, ContactIsLast, Owns
<1>17. CallsFit'
  BY <1>4, <1>5, <1>8 DEF PInv, CallsFit
<1>18. JobsTell'
  BY <1>5, TellingKept DEF IInv, LedgerInv
<1>19. QED
  BY <1>12, <1>13, <1>14, <1>15, <1>16, <1>17, <1>18 DEF PInv

LEMMA TickKeeps == ASSUME IInv, PInv, Prompt, Tick PROVE PInv'
<1>1. ASSUME NEW w \in Workers, wk'[w].pc # "idle"
      PROVE  /\ wk[w].pc = "calling" /\ wk'[w].pc = "calling" /\ wk[w].pc \in Executing
             /\ wk[w].age < LookupMax /\ wk'[w].age = wk[w].age + 1 /\ wk[w].age \in Nat
             /\ wk'[w].job = wk[w].job /\ wk'[w].token = wk[w].token
             /\ wk[w].job \in Jobs /\ wk[w].token \in Nums
             /\ Spent(w) = wk[w].age /\ Spent(w)' = wk[w].age + 1
  <2>1. wk'[w].pc = wk[w].pc /\ wk'[w].job = wk[w].job /\ wk'[w].token = wk[w].token
    BY TickRows
  <2>2. wk[w].pc = "calling" /\ wk[w].age < LookupMax
    BY <1>1, <2>1 DEF Tick
  <2>3. wk'[w].age = wk[w].age + 1
    BY <2>2, TickRows
  <2>4. wk[w].pc \in Executing /\ wk[w].age \in Nat
    BY <2>2, ParamFacts DEF Executing, IInv, WorkerInv, Worker
  <2>5. QED
    BY <2>1, <2>2, <2>3, <2>4, ExecutorFacts DEF Spent
<1>2. /\ "idle" \notin Executing /\ "calling" \in Asking /\ "calling" \notin Charging
      /\ Executing = {"claimed", "reserving", "refused", "reserved", "marked"} \cup Asking
      /\ Charging \subseteq Executing
  BY DEF Executing, Asking, Charging
<1>3. ClaimsAreLive'
  <2>1. ASSUME NEW v \in Workers, wk'[v].pc \in Executing
        PROVE  (Owns(wk[v].job, wk[v].token) /\ job[wk[v].job].lease + Spent(v) >= LeaseTime)'
    <3>1. /\ Owns(wk[v].job, wk[v].token) /\ job[wk[v].job].lease + Spent(v) >= LeaseTime
          /\ job[wk[v].job].lease > 0
      BY <1>1, <1>2, <2>1, ExecutorFacts DEF PInv, ClaimsAreLive
    <3>2. job[wk[v].job].lease \in Nat /\ job'[wk[v].job].lease = job[wk[v].job].lease - 1
      BY <1>1, <1>2, <2>1, <3>1, TickRows, ParamFacts DEF IInv, JobInv, Job
    <3>3. Owns(wk[v].job, wk[v].token)'
      BY <1>1, <1>2, <2>1, <3>1, TickRows DEF Owns
    <3>4. job'[wk[v].job].lease + (wk[v].age + 1) >= LeaseTime
      BY <1>1, <1>2, <2>1, <3>1, <3>2, ParamFacts
    <3>5. QED
      BY <1>1, <1>2, <2>1, <3>3, <3>4
  <2>2. QED
    BY <2>1 DEF ClaimsAreLive
<1>4. OneExecutor'
  BY <1>1, <1>2 DEF PInv, OneExecutor
<1>5. ExecutorsFit'
  <2>1. ASSUME NEW v \in Workers, wk'[v].pc \in Executing PROVE ExecutorFits(v)'
    <3>1. /\ att[<<wk[v].job, wk[v].token>>].state = "IN_FLIGHT"
          /\ att[<<wk[v].job, wk[v].token>>].contactedProvider
          /\ \E c \in calls : c.job = wk[v].job /\ c.n = wk[v].token
          /\ att[<<wk[v].job, wk[v].token>>].age <= wk[v].age
      BY <1>1, <1>2, <2>1 DEF PInv, ExecutorsFit, ExecutorFits
    <3>2. att[<<wk[v].job, wk[v].token>>].age \in Nat
      BY <1>1, <1>2, <2>1, ParamFacts DEF IInv, LedgerInv, Attempt
    <3>3. /\ att'[<<wk[v].job, wk[v].token>>].state = "IN_FLIGHT"
          /\ att'[<<wk[v].job, wk[v].token>>].contactedProvider
          /\ att'[<<wk[v].job, wk[v].token>>].age <= att[<<wk[v].job, wk[v].token>>].age + 1
      BY <1>1, <1>2, <2>1, <3>1, TickRows
    <3>4. att'[<<wk[v].job, wk[v].token>>].age \in Nat
      BY <1>1, <1>2, <2>1, TickStep, ParamFacts DEF IInv, LedgerInv, Attempt
    <3>5. att'[<<wk[v].job, wk[v].token>>].age <= wk[v].age + 1
      BY <1>1, <1>2, <2>1, <3>1, <3>2, <3>3, <3>4
    <3>6. UNCHANGED calls
      BY TickRows
    <3>7. QED
      BY <1>1, <1>2, <2>1, <3>1, <3>3, <3>5, <3>6 DEF ExecutorFits
  <2>2. ASSUME NEW v \in Workers, wk'[v].pc \notin Executing PROVE ExecutorFits(v)'
    BY <1>2, <2>2 DEF ExecutorFits
  <2>3. QED
    BY <2>1, <2>2 DEF ExecutorsFit
<1>6. RecoveriesFit' /\ SweepsFit'
  BY <1>1 DEF RecoveriesFit, SweepsFit
<1>7. ReservedWereClaimed' /\ ContactIsLast'
  BY TickRows DEF PInv, ReservedWereClaimed, ContactIsLast, Owns
<1>8. CallsFit'
  BY TickRows DEF PInv, CallsFit, IInv, LedgerInv
<1>9. JobsTell'
  BY TickRows, TellingKept DEF IInv, LedgerInv
<1>10. QED
  BY <1>3, <1>4, <1>5, <1>6, <1>7, <1>8, <1>9 DEF PInv

LEMMA MidnightKeeps == ASSUME IInv, PInv, Prompt, Midnight PROVE PInv'
<1>1. /\ UNCHANGED <<job, att, wk, calls>> /\ day' = day + 1 /\ day \in Nat
      /\ \A w \in Workers : wk[w].pc \in Charging => wk[w].day = day
  BY ParamFacts DEF Midnight, Charging, IInv, LedgerInv, Days
<1>2. ASSUME NEW w \in Workers PROVE ExecutorFits(w)'
  <2>1. ExecutorFits(w) /\ Spent(w)' = Spent(w)
    BY <1>1 DEF PInv, ExecutorsFit, Spent
  <2>2. wk[w].pc \in Charging => wk[w].day = day' - 1
    BY <1>1
  <2>3. QED
    BY <1>1, <2>1, <2>2 DEF ExecutorFits
<1>3. ClaimsAreLive' /\ OneExecutor' /\ ExecutorsFit'
  BY <1>1, <1>2 DEF PInv, ClaimsAreLive, OneExecutor, ExecutorsFit, Owns, Spent
<1>4. RecoveriesFit' /\ SweepsFit'
  BY <1>1 DEF PInv, RecoveriesFit, SweepsFit, Owns, Stale
<1>5. ReservedWereClaimed' /\ ContactIsLast' /\ CallsFit'
  BY <1>1 DEF PInv, ReservedWereClaimed, ContactIsLast, CallsFit, Owns
<1>6. JobsTell'
  BY <1>1, TellingKept DEF IInv, LedgerInv
<1>7. QED
  BY <1>3, <1>4, <1>5, <1>6 DEF PInv

\* Every step of a prompt system keeps the invariant of prompt workers.
THEOREM PromptInductive == IInv /\ PInv /\ Prompt /\ [Next]_vars => PInv'
<1> SUFFICES ASSUME IInv, PInv, Prompt, [Next]_vars PROVE PInv'
  OBVIOUS
<1>1. CASE UNCHANGED vars
  <2>1. UNCHANGED <<job, att, wk, calls, day>>
    BY <1>1 DEF vars
  <2>2. ClaimsAreLive' /\ OneExecutor' /\ ExecutorsFit'
    BY <2>1 DEF PInv, ClaimsAreLive, OneExecutor, ExecutorsFit, ExecutorFits, Owns, Spent
  <2>3. RecoveriesFit' /\ SweepsFit' /\ ReservedWereClaimed' /\ ContactIsLast'
    BY <2>1 DEF PInv, RecoveriesFit, SweepsFit, ReservedWereClaimed, ContactIsLast, Owns, Stale
  <2>4. CallsFit' /\ JobsTell'
    BY <2>1 DEF PInv, CallsFit, JobsTell, AnswerTells, EndTells
  <2>5. QED
    BY <2>2, <2>3, <2>4 DEF PInv
<1>2. CASE \E j \in Jobs : CreateLookupJob(j)
  BY <1>2, CreateKeeps
<1>3. CASE \E w \in Workers : Proceed(w)
  BY <1>3, SkipKeeps, ReadReserveAtKeeps, ReserveKeeps, RefusedKeeps, RefuseKeeps, MarkKeeps, StartKeeps, ReturnKeeps,
     ThrowKeeps, AnswerKeeps, AmbiguousKeeps, RecoverWriteKeeps, SweepWriteKeeps DEF Proceed
<1>4. CASE \E w \in Workers : Crash(w)
  BY <1>4, CrashKeeps
<1>5. CASE \E w \in Workers : \E j \in Jobs : Pick(w, j)
  BY <1>5, ClaimKeeps, RecoverReadKeeps, SweepReadKeeps DEF Pick
<1>6. CASE Tick
  BY <1>6, TickKeeps
<1>7. CASE Midnight
  BY <1>7, MidnightKeeps
<1>8. QED
  BY <1>1, <1>2, <1>3, <1>4, <1>5, <1>6, <1>7 DEF Next

\* The invariants of prompt workers, together with those that need no promptness.
THEOREM AlwaysPInv == ASSUME Prompt PROVE Spec => [](IInv /\ PInv)
<1>1. Init => IInv /\ PInv
  BY Initialized, InitiallyPrompt
<1>2. IInv /\ PInv /\ [Next]_vars => (IInv /\ PInv)'
  BY Inductive, PromptInductive
<1>3. QED
  BY <1>1, <1>2, PTL DEF Spec

\* A question that was put to its provider shows in the ledger.
LEMMA AskedIsContacted ==
    ASSUME IInv, PInv, NEW c \in calls
    PROVE  c.job \in Jobs /\ c.n \in Nums /\ att[<<c.job, c.n>>].contactedProvider
BY DEF IInv, LedgerInv, PInv, CallsFit

LEMMA CallsAreOne == IInv /\ PInv => AtMostOneCall
<1> SUFFICES ASSUME IInv, PInv, NEW j \in Jobs PROVE Cardinality(CallsFor(j)) <= 1
  BY DEF AtMostOneCall
<1>1. ASSUME NEW c \in CallsFor(j), NEW d \in CallsFor(j) PROVE c = d
  <2>1. c \in calls /\ d \in calls /\ c.job = j /\ d.job = j
    BY DEF CallsFor
  <2>2. c.n = d.n
    BY <2>1, AskedIsContacted DEF PInv, ContactIsLast
  <2>3. QED
    BY <2>1, <2>2 DEF PInv, CallsFit
<1>2. CASE CallsFor(j) = {}
  BY <1>2, FS_EmptySet
<1>3. CASE CallsFor(j) # {}
  <2>1. PICK c : c \in CallsFor(j)
    BY <1>3
  <2>2. CallsFor(j) = {c}
    BY <1>1, <2>1
  <2>3. QED
    BY <2>2, FS_Singleton
<1>4. QED
  BY <1>2, <1>3

\* The promise of the contract, whatever crashes, expires or is swept: a question is put to
\* its provider at most once, since a contacted attempt is its job's last.
THEOREM ProviderIsAskedOnce == ASSUME Prompt PROVE Spec => []AtMostOneCall
<1>1. Spec => [](IInv /\ PInv)
  BY AlwaysPInv
<1>2. QED
  BY <1>1, CallsAreOne, PTL

LEMMA BooksFit == PInv => CallsAreAccountedFor
<1> SUFFICES ASSUME PInv PROVE CallsAreAccountedFor
  OBVIOUS
<1>1. ASSUME NEW j \in Jobs PROVE AnswerTells(j)
  BY DEF PInv, JobsTell
<1>2. QED
  BY <1>1 DEF PInv, CallsFit, CallsAreAccountedFor, AnswerTells

\* Every call has its own ledger row, contacted and charged to its day or, across a midnight,
\* to the day of its reservation, and every answer a job reports has the row and the call it
\* came from.
THEOREM BooksAreHonest == ASSUME Prompt PROVE Spec => []CallsAreAccountedFor
<1>1. Spec => [](IInv /\ PInv)
  BY AlwaysPInv
<1>2. QED
  BY <1>1, BooksFit, PTL

LEMMA ContactSettles == PInv => ContactSettlesJob
<1>1. "PENDING" \notin Terminal
  BY DEF Terminal, Answered
<1>2. QED
  BY <1>1 DEF PInv, ContactIsLast, ContactSettlesJob, Owns

\* A job whose provider may have been asked never returns to the queue, and is finished with
\* the attempt that asked.
THEOREM ContactIsNeverRetried == ASSUME Prompt PROVE Spec => []ContactSettlesJob
<1>1. Spec => [](IInv /\ PInv)
  BY AlwaysPInv
<1>2. QED
  BY <1>1, ContactSettles, PTL

LEMMA ReasonsFit == IInv /\ PInv => DeadLetterReasonIsTrue
<1> SUFFICES ASSUME IInv, PInv, NEW j \in Jobs, job[j].state = "DEAD_LETTER"
             PROVE  /\ job[j].terminalReasonCode = "MAX_ATTEMPTS_EXHAUSTED" => CallsFor(j) = {}
                    /\ job[j].terminalReasonCode = "AMBIGUOUS_AFTER_CONTACT" =>
                         \E n \in Nums : att[<<j, n>>].contactedProvider
                                         /\ att[<<j, n>>].outcome = "ABANDONED"
  BY DEF DeadLetterReasonIsTrue
<1>1. EndTells(j)
  BY DEF PInv, JobsTell
<1>2. (\A n \in Nums : ~att[<<j, n>>].contactedProvider) => CallsFor(j) = {}
  BY AskedIsContacted DEF CallsFor
<1>3. QED
  BY <1>1, <1>2 DEF EndTells

\* A dead letter says exhausted only if no call was ever made, and ambiguous only if one may
\* have been.
THEOREM DeadLettersTellTheTruth == ASSUME Prompt PROVE Spec => []DeadLetterReasonIsTrue
<1>1. Spec => [](IInv /\ PInv)
  BY AlwaysPInv
<1>2. QED
  BY <1>1, ReasonsFit, PTL

-----------------------------------------------------------------------------
(* The promise, step by step.                                              *)

\* The refinement mapping, as functions.
Phase == [j \in Jobs |-> PhaseOf(j)]
Asked == [j \in Jobs |-> CallsFor(j) # {}]

LEMMA PhaseIs ==
    ASSUME NEW j \in Jobs
    PROVE  /\ job[j].state = "ABSENT" => PhaseOf(j) = "absent"
           /\ job[j].state \in Open <=> PhaseOf(j) = "queued"
           /\ job[j].state \in Answered => PhaseOf(j) = "answered"
           /\ job[j].state \in Terminal \ Answered =>
                PhaseOf(j) = IF job[j].terminalReasonCode = "AMBIGUOUS_AFTER_CONTACT"
                             THEN "unknown" ELSE "not_asked"
<1>1. /\ "ABSENT" \notin Open /\ Open \cap Answered = {} /\ "ABSENT" \notin Answered
      /\ "ABSENT" \notin Terminal /\ Open \cap Terminal = {}
  BY DEF Open, Answered, Terminal
<1>2. CASE job[j].state = "ABSENT"
  BY <1>1, <1>2 DEF PhaseOf
<1>3. CASE job[j].state \in Open
  BY <1>1, <1>3 DEF PhaseOf
<1>4. CASE job[j].state \in Answered
  BY <1>1, <1>4 DEF PhaseOf
<1>5. CASE job[j].state \notin {"ABSENT"} \cup Open \cup Answered
  BY <1>1, <1>5 DEF PhaseOf
<1>6. QED
  BY <1>1, <1>2, <1>3, <1>4, <1>5

LEMMA PromiseStarts == Init => Promise!Init
<1> SUFFICES ASSUME Init PROVE Promise!Init
  OBVIOUS
<1>1. ASSUME NEW j \in Jobs PROVE PhaseOf(j) = "absent" /\ CallsFor(j) = {}
  BY PhaseIs DEF Init, NoRow, CallsFor
<1>2. QED
  BY <1>1 DEF Promise!Init

\* A step that leaves every phase and every call as it is says nothing new.
LEMMA PromiseStutters ==
    ASSUME \A j \in Jobs : PhaseOf(j)' = PhaseOf(j) /\ CallsFor(j)' = CallsFor(j)
    PROVE  UNCHANGED <<Phase, Asked>>
BY DEF Phase, Asked

\* A step that closes an open job settles its question as the ledger says.
LEMMA ClosingSettles ==
    ASSUME IInv', PInv', NEW j \in Jobs, job[j].state \in Open, job'[j].state \in Terminal,
           \A i \in Jobs : i # j => job'[i] = job[i],
           UNCHANGED calls
    PROVE  Promise!Settle(j)
<1>1. \A i \in Jobs : i # j => PhaseOf(i)' = PhaseOf(i)
  BY DEF PhaseOf
<1>2. \A i \in Jobs : CallsFor(i)' = CallsFor(i)
  BY DEF CallsFor
<1>3. PhaseOf(j) = "queued"
  BY PhaseIs
<1>4. AnswerTells(j)' /\ EndTells(j)'
  BY DEF PInv, JobsTell
<1>5. /\ job'[j].state \in Answered => PhaseOf(j)' = "answered"
      /\ job'[j].state \in Terminal \ Answered =>
           PhaseOf(j)' = IF job'[j].terminalReasonCode = "AMBIGUOUS_AFTER_CONTACT"
                         THEN "unknown" ELSE "not_asked"
  <2>1. /\ (job[j].state \in Answered => PhaseOf(j) = "answered")'
        /\ (job[j].state \in Terminal \ Answered =>
             PhaseOf(j) = IF job[j].terminalReasonCode = "AMBIGUOUS_AFTER_CONTACT"
                          THEN "unknown" ELSE "not_asked")'
    <3>1. "ABSENT" \notin Terminal /\ Open \cap Terminal = {} /\ Answered \subseteq Terminal
      BY DEF Open, Answered, Terminal
    <3>2. QED
      BY <3>1 DEF PhaseOf
  <2>2. QED
    BY <2>1
<1>6. (\A n \in Nums : ~att'[<<j, n>>].contactedProvider) => CallsFor(j)' = {}
  BY DEF CallsFor, IInv, LedgerInv, PInv, CallsFit
<1>7. PhaseOf(j)' \in (IF CallsFor(j) # {} THEN {"answered", "unknown"} ELSE {"not_asked", "unknown"})
  <2>1. CASE job'[j].state \in Answered
    <3>1. CallsFor(j)' # {}
      BY <1>4, <2>1 DEF AnswerTells, CallsFor
    <3>2. QED
      BY <1>2, <1>5, <2>1, <3>1
  <2>2. CASE job'[j].state \in {"SKIPPED_NOT_CONFIGURED", "SKIPPED_BUDGET"}
    <3>1. CallsFor(j)' = {} /\ job'[j].terminalReasonCode # "AMBIGUOUS_AFTER_CONTACT"
      BY <1>4, <1>6, <2>2 DEF EndTells
    <3>2. job'[j].state \notin Answered
      BY <2>2 DEF Answered
    <3>3. QED
      BY <1>2, <1>5, <3>1, <3>2
  <2>3. CASE job'[j].state = "DEAD_LETTER"
    <3>1. \/ job'[j].terminalReasonCode = "MAX_ATTEMPTS_EXHAUSTED" /\ CallsFor(j)' = {}
          \/ job'[j].terminalReasonCode = "AMBIGUOUS_AFTER_CONTACT"
      BY <1>4, <1>6, <2>3 DEF EndTells
    <3>2. job'[j].state \notin Answered
      BY <2>3 DEF Answered
    <3>3. QED
      BY <1>2, <1>5, <3>1, <3>2
  <2>4. QED
    BY <2>1, <2>2, <2>3 DEF Terminal
<1>8. Phase' = [Phase EXCEPT ![j] = PhaseOf(j)'] /\ Asked' = Asked
  BY <1>1, <1>2 DEF Phase, Asked
<1>9. Phase[j] = "queued" /\ Asked[j] = (CallsFor(j) # {})
  BY <1>3 DEF Phase, Asked
<1>10. QED
  BY <1>7, <1>8, <1>9 DEF Promise!Settle, Phase, Asked

\* The identity an open job holds keeps its subject from being queued twice.
LEMMA CreateQueues ==
    ASSUME IInv, NEW j \in Jobs, CreateLookupJob(j) PROVE Promise!Queue(j)
<1> DEFINE row == [job[j] EXCEPT !.state = "PENDING", !.activeLookupKey = SubjectOf[j]]
<1>1. job[j].state = "ABSENT" /\ row.state = "PENDING" /\ UNCHANGED calls
  BY DEF CreateLookupJob, IInv, JobInv, Job
<1>2. \A i \in Jobs : job'[i] = IF i = j THEN row ELSE job[i]
  BY DEF CreateLookupJob, IInv, JobInv
<1> HIDE DEF row
<1>3. \A i \in Jobs : i # j => PhaseOf(i)' = PhaseOf(i)
  BY <1>2 DEF PhaseOf
<1>4. PhaseOf(j) = "absent" /\ PhaseOf(j)' = "queued"
  <2>1. job'[j].state = "PENDING"
    BY <1>1, <1>2
  <2>2. QED
    BY <1>1, <2>1 DEF PhaseOf, Open, Answered
<1>5. ASSUME NEW i \in Jobs, PhaseOf(i) = "queued" PROVE SubjectOf[i] # SubjectOf[j]
  <2>1. job[i].activeLookupKey = SubjectOf[i]
    BY <1>5, PhaseIs DEF IInv, JobInv, HoldsIffOpen
  <2>2. QED
    BY <2>1 DEF CreateLookupJob
<1>6. Phase' = [Phase EXCEPT ![j] = "queued"] /\ Asked' = Asked
  BY <1>1, <1>3, <1>4 DEF Phase, Asked, CallsFor
<1>7. Phase[j] = "absent" /\ ~ \E i \in Jobs : Phase[i] = "queued" /\ SubjectOf[i] = SubjectOf[j]
  BY <1>4, <1>5 DEF Phase
<1>8. QED
  BY <1>6, <1>7 DEF Promise!Queue, Phase, Asked

\* The only step that asks is the first call for its job.
LEMMA StartAsks ==
    ASSUME IInv, PInv, NEW w \in Workers, StartLookup(w)
    PROVE  \E j \in Jobs : Promise!Ask(j)
<1>1. wk[w].pc = "marked" /\ wk[w].pc \in Executing
  BY DEF StartLookup, Executing
<1>2. PICK j \in Jobs : j = wk[w].job
  BY <1>1, ExecutorFacts
<1>3. CallsFor(j) = {}
  <2>1. ASSUME NEW c \in calls, c.job = j PROVE FALSE
    <3>1. c.n = wk[w].token
      BY <1>1, <1>2, <2>1, AskedIsContacted, SoleClaim
    <3>2. QED
      BY <1>1, <1>2, <2>1, <3>1 DEF PInv, ExecutorsFit, ExecutorFits
  <2>2. QED
    BY <2>1 DEF CallsFor
<1>4. PICK call : call.job = j /\ calls' = calls \cup {call}
  BY <1>2 DEF StartLookup
<1>5. \A i \in Jobs : (CallsFor(i) # {})' <=> (CallsFor(i) # {} \/ i = j)
  BY <1>4 DEF CallsFor
<1>6. UNCHANGED job /\ job[j].state = "LEASED"
  BY <1>1, <1>2, ExecutorFacts DEF StartLookup
<1>7. Asked' = [Asked EXCEPT ![j] = TRUE] /\ Phase' = Phase
  <2>1. ASSUME NEW i \in Jobs PROVE (CallsFor(i) # {})' = IF i = j THEN TRUE ELSE CallsFor(i) # {}
    BY <1>5
  <2>2. Asked' = [Asked EXCEPT ![j] = TRUE]
    BY <2>1 DEF Asked
  <2>3. Phase' = Phase
    BY <1>6 DEF Phase, PhaseOf
  <2>4. QED
    BY <2>2, <2>3
<1>8. Phase[j] = "queued" /\ ~Asked[j]
  BY <1>3, <1>6, PhaseIs DEF Phase, Asked, Open
<1>9. Promise!Ask(j)
  BY <1>7, <1>8 DEF Promise!Ask, Phase, Asked
<1>10. QED
  BY <1>9

LEMMA JobStepKeepsPromise ==
    ASSUME IInv', PInv', JobStep, UNCHANGED calls
    PROVE  Promise!Next \/ UNCHANGED <<Phase, Asked>>
<1>1. PICK j \in Jobs :
         /\ \A i \in Jobs : i # j => job'[i] = job[i]
         /\ \/ job'[j] = job[j]
            \/ job[j].state = "LEASED" /\ job'[j].state \in Terminal \cup {"PENDING"}
            \/ job[j].state = "PENDING" /\ job'[j].state = "LEASED"
  BY DEF JobStep
<1>2. \A i \in Jobs : CallsFor(i)' = CallsFor(i)
  BY DEF CallsFor
<1>3. \A i \in Jobs : i # j => PhaseOf(i)' = PhaseOf(i)
  BY <1>1 DEF PhaseOf
<1>4. CASE job[j].state \in Open /\ job'[j].state \in Terminal
  <2>1. Promise!Settle(j)
    BY <1>1, <1>4, ClosingSettles
  <2>2. QED
    BY <2>1 DEF Promise!Next
<1>5. CASE job'[j] = job[j]
  <2>1. PhaseOf(j)' = PhaseOf(j)
    BY <1>5 DEF PhaseOf
  <2>2. QED
    BY <1>2, <1>3, <2>1, PromiseStutters
<1>6. CASE job[j].state \in Open /\ job'[j].state \in Open
  <2>1. PhaseOf(j) = "queued" /\ PhaseOf(j)' = "queued"
    BY <1>6 DEF PhaseOf, Open, Answered
  <2>2. QED
    BY <1>2, <1>3, <2>1, PromiseStutters
<1>7. QED
  BY <1>1, <1>4, <1>5, <1>6 DEF Open

\* Every step of the workers, of the clock and of a crash is a step of the promise, or says
\* nothing of it.
THEOREM StepKeepsPromise ==
    ASSUME IInv, PInv, IInv', PInv', [Next]_vars
    PROVE  [Promise!Next]_<<Phase, Asked>>
<1>2. CASE UNCHANGED <<job, calls>>
  <2>1. \A j \in Jobs : PhaseOf(j)' = PhaseOf(j) /\ CallsFor(j)' = CallsFor(j)
    BY <1>2 DEF PhaseOf, CallsFor
  <2>2. QED
    BY <2>1, PromiseStutters
<1>3. CASE \E j \in Jobs : CreateLookupJob(j)
  BY <1>3, CreateQueues DEF Promise!Next
<1>4. ASSUME NEW w \in Workers, Proceed(w) PROVE [Promise!Next]_<<Phase, Asked>>
  <2>1. CASE StartLookup(w)
    BY <2>1, StartAsks DEF Promise!Next
  <2>2. CASE ~StartLookup(w)
    BY <1>4, <2>2, ProceedIsJobStep, JobStepKeepsPromise
  <2>3. QED
    BY <2>1, <2>2
<1>5. ASSUME NEW w \in Workers, NEW j \in Jobs, Pick(w, j) PROVE [Promise!Next]_<<Phase, Asked>>
  <2>1. CASE ClaimLookupJob(w, j)
    BY <2>1, ClaimIsJobStep, JobStepKeepsPromise DEF ClaimLookupJob
  <2>2. CASE UNCHANGED <<job, calls>>
    BY <1>2, <2>2
  <2>3. QED
    BY <1>5, <2>1, <2>2 DEF Pick, RecoverRead, SweepRead
<1>6. CASE Tick
  <2>1. \A j \in Jobs : PhaseOf(j)' = PhaseOf(j) /\ CallsFor(j)' = CallsFor(j)
    BY <1>6, TickRows DEF PhaseOf, CallsFor
  <2>2. QED
    BY <2>1, PromiseStutters
<1>7. QED
  BY <1>2, <1>3, <1>4, <1>5, <1>6 DEF Next, Midnight, Crash, vars

\* While workers are prompt, leases, attempts, recovery and the sweep together keep the
\* promise of LookupPromise.
THEOREM PromiseIsKept == ASSUME Prompt PROVE Spec => KeepsPromise
<1>1. Init => Promise!Init
  BY PromiseStarts
<1>2. IInv /\ PInv /\ (IInv /\ PInv)' /\ [Next]_vars => [Promise!Next]_<<Phase, Asked>>
  BY StepKeepsPromise
<1>3. Spec => [](IInv /\ PInv)
  BY AlwaysPInv
<1>4. QED
  BY <1>1, <1>2, <1>3, PTL DEF Spec, KeepsPromise, Promise!Spec, Phase, Asked
=============================================================================
