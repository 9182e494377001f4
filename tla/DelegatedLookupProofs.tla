------------------------ MODULE DelegatedLookupProofs ------------------------
(***************************************************************************)
(* Theorems about DelegatedLookup that hold for every number of workers,   *)
(* batches, rows, jobs, claims and crashes, and however long a lease is.   *)
(***************************************************************************)
EXTENDS DelegatedLookup, TLAPS

-----------------------------------------------------------------------------
(* The inductive invariant.                                                *)

\* A row's token is that of its last claim, and a claim spends an attempt.
RowFit(r) ==
    /\ row[r].token = 0 \/ row[r].token = row[r].claims
    /\ row[r].token # 0 => row[r].attemptCount > 0
    /\ row[r].status # "PENDING" => row[r].token = 0

RowsFit == \A r \in Rows : RowFit(r)

\* What a contact with claim t leaves behind, until the row is settled: no claim is made of it.
Held(r, t) ==
    /\ t = row[r].claims
    /\ \/ Settled(r)
       \/ row[r].status = "PENDING" /\ row[r].token = t /\ row[r].nextAttemptAt = Forever

\* A worker gives up the claim t, and with it a hold whose contact it did not hear of.
Dropping(r, t) ==
    /\ Owns(r, t)
    /\ \E w \in Workers : wk[w].pc = "releasing" /\ wk[w].row = r /\ wk[w].token = t

\* The claim t has not been used for a contact.
Unheld(r, t) == row[r].token = t => row[r].nextAttemptAt # Forever

\* What is known of a process by the point it is at.
Owning == {"claimed", "reserved", "releasing", "contacted", "calling", "answered", "failed"}

WorkerFit(x) ==
    /\ IF x.pc = "idle" THEN x.row = 0
       ELSE x.row \in Rows /\ x.job \in Jobs /\ job[x.job].state # "ABSENT"
    /\ x.pc \notin {"idle", "listed"} => x.n \in Nums
    /\ x.row \in Rows => x.token <= row[x.row].claims
    /\ x.row = 0 => x.token = 0
    /\ x.pc \in Owning => x.token > 0
    /\ x.pc \in {"claimed", "reserved"} => Unheld(x.row, x.token)
    /\ x.pc \in {"contacted", "calling", "answered", "failed"} => Held(x.row, x.token)
    /\ x.pc = "releasing" => x.seen \in Refusals \cup {"lost"}
    /\ x.pc = "settling" => x.seen \in Refusals \cup {"DEAD_LETTER"}
    /\ x.pc = "answered" => x.seen \in Statuses

BatchFit(x) ==
    /\ IF x.pc = "idle" THEN x.row = 0 ELSE x.row \in Rows
    /\ x.row \in Rows => x.token <= row[x.row].claims
    /\ x.row = 0 => x.token = 0
    /\ x.pc \in {"claimed", "calling", "answered"} => x.token > 0 /\ Unheld(x.row, x.token)
    /\ x.pc = "answered" => x.seen \in Statuses

ProcessesFit ==
    /\ \A w \in Workers : WorkerFit(wk[w])
    /\ \A b \in Batches : BatchFit(bt[b])

\* No two processes hold one claim.
Apart(x, y) == x.row = y.row /\ x.token = y.token => x.token = 0

ClaimsDiffer ==
    /\ \A v, w \in Workers : v # w => Apart(wk[v], wk[w])
    /\ \A a, b \in Batches : a # b => Apart(bt[a], bt[b])
    /\ \A w \in Workers, b \in Batches : Apart(wk[w], bt[b])

CallFit(c) ==
    /\ c.claim <= row[c.row].claims
    /\ c.by = "targeted" => Held(c.row, c.claim)

CallsFit == \A c \in calls : CallFit(c)

LedgersFit ==
    /\ \A j \in Jobs : job[j].state # "ABSENT" => job[j].iocEnrichmentId \in Rows
    /\ \A j \in Jobs, n \in Nums : att[<<j, n>>].state # "NONE" => job[j].state # "ABSENT"

\* No targeted call has been made with a claim whose worker has yet to make its contact,
\* or gives it back: what it then gives back was not used.
Uncalled ==
    \A w \in Workers, c \in calls :
        wk[w].pc \in {"claimed", "reserved", "releasing"} /\ c.by = "targeted"
            => ~(c.row = wk[w].row /\ c.claim = wk[w].token)

\* What holds of the tables and the processes, claim by claim.
Fits ==
    /\ TypeOK
    /\ RowsFit
    /\ ProcessesFit
    /\ ClaimsDiffer
    /\ CallsFit
    /\ LedgersFit

IInv == Fits /\ Uncalled

-----------------------------------------------------------------------------
(* Values.                                                                 *)

LEMMA Bounds ==
    ASSUME Params
    PROVE  /\ MaxRows \in Nat /\ MaxJobs \in Nat /\ MaxTime \in Nat /\ MaxClaims \in Nat
           /\ MaxAttempts \in Nat /\ MaxAttempts > 0 /\ MaxCrashes \in Nat
           /\ LeaseTime \in Nat /\ StaleTime \in Nat /\ Delay \in Nat
           /\ 0 \in Claims /\ 0 \in Times /\ 0 \in 0..MaxRows /\ 0 \in 0..MaxTime
           /\ \A t \in 0..MaxTime : /\ t + LeaseTime \in Times /\ t + Delay \in Times
                                    /\ t < Forever
           /\ \A t \in Times : t # Forever
           /\ Forever \in Nat
  BY Params DEF ParamsAssumption, Claims, Times, Forever

LEMMA Fresh ==
    ASSUME Params
    PROVE  NoRow \in Row /\ NoJob \in Job /\ NoAttempt \in Attempt /\ Idle \in Process
<1>1. NoRow \in Row
  BY Bounds DEF NoRow, Row, RowStates
<1>2. NoJob \in Job
  BY Bounds DEF NoJob, Job, JobStates
<1>3. NoAttempt \in Attempt
  BY Bounds DEF NoAttempt, Attempt
<1>4. Idle \in Process
  BY Bounds DEF Idle, Process
<1>5. QED
  BY <1>1, <1>2, <1>3, <1>4

LEMMA IdleIsFit ==
    ASSUME Params
    PROVE  WorkerFit(Idle) /\ BatchFit(Idle) /\ WorkerFit(Idle)' /\ BatchFit(Idle)'
  BY Bounds DEF Idle, WorkerFit, BatchFit, Owning, Rows

LEMMA InitHolds ==
    ASSUME Init, Params
    PROVE  IInv
<1>1. TypeOK
  BY Fresh, Bounds DEF Init, TypeOK
<1>2. RowsFit
  BY DEF Init, RowsFit, RowFit, NoRow
<1>3. ProcessesFit
  BY IdleIsFit DEF Init, ProcessesFit
<1>4. ClaimsDiffer
  BY DEF Init, ClaimsDiffer, Apart, Idle
<1>5. CallsFit /\ LedgersFit
  BY DEF Init, CallsFit, LedgersFit, NoJob, NoAttempt
<1>6. Uncalled
  BY DEF Init, Uncalled
<1>7. QED
  BY <1>1, <1>2, <1>3, <1>4, <1>5, <1>6 DEF IInv, Fits

-----------------------------------------------------------------------------
(* What the statements do to the rows.                                     *)

RowsKeep ==
    /\ row' \in [Rows -> Row]
    /\ RowsFit'
    /\ \A r \in Rows : row[r].claims <= row'[r].claims
    /\ \A r \in Rows, t \in Claims : Held(r, t) /\ ~Dropping(r, t) => Held(r, t)'

\* Of claim t0 of row r0 a contact may have been made.
OthersUnheld(r0, t0) ==
    \A r \in Rows, t \in Claims : t > 0 /\ Unheld(r, t) /\ ~(r = r0 /\ t = t0) => Unheld(r, t)'

LEMMA RowsUnchanged ==
    ASSUME IInv, row' = row, NEW r0, NEW t0
    PROVE  RowsKeep /\ OthersUnheld(r0, t0)
<1>1. \A r \in Rows : row[r].claims <= row'[r].claims
  BY DEF IInv, Fits, TypeOK, Row, Claims
<1>2. RowsFit' /\ row' \in [Rows -> Row]
  BY DEF IInv, Fits, TypeOK, RowsFit, RowFit
<1>3. QED
  BY <1>1, <1>2 DEF RowsKeep, OthersUnheld, Held, Unheld, Settled

\* One row becomes another: what must be shown of it.
LEMMA RowBecomes ==
    ASSUME IInv, NEW r \in Rows, NEW new \in Row, row' = [row EXCEPT ![r] = new],
           RowFit(r)', row[r].claims <= new.claims,
           \A t \in Claims : Held(r, t) /\ ~Dropping(r, t) => Held(r, t)',
           NEW r0, NEW t0,
           \A t \in Claims : t > 0 /\ Unheld(r, t) /\ ~(r = r0 /\ t = t0) => Unheld(r, t)'
    PROVE  RowsKeep /\ OthersUnheld(r0, t0)
<1>1. row' \in [Rows -> Row] /\ row'[r] = new /\ \A s \in Rows : s # r => row'[s] = row[s]
  BY DEF IInv, Fits, TypeOK
<1>2. \A s \in Rows : row[s].claims <= row'[s].claims
  BY <1>1 DEF IInv, Fits, TypeOK, Row, Claims
<1>3. RowsFit'
  <2> SUFFICES ASSUME NEW s \in Rows
               PROVE  RowFit(s)'
    BY DEF RowsFit
  <2>1. CASE s = r
    BY <2>1
  <2>2. CASE s # r
    BY <1>1, <2>2 DEF IInv, Fits, RowsFit, RowFit
  <2>3. QED
    BY <2>1, <2>2
<1>4. ASSUME NEW s \in Rows, NEW t \in Claims, Held(s, t), ~Dropping(s, t)
      PROVE  Held(s, t)'
  <2>1. CASE s = r
    BY <1>4, <2>1
  <2>2. CASE s # r
    BY <1>1, <1>4, <2>2 DEF Held, Settled
  <2>3. QED
    BY <2>1, <2>2
<1>5. ASSUME NEW s \in Rows, NEW t \in Claims, t > 0, Unheld(s, t), ~(s = r0 /\ t = t0)
      PROVE  Unheld(s, t)'
  <2>1. CASE s = r
    BY <1>5, <2>1
  <2>2. CASE s # r
    BY <1>1, <1>5, <2>2 DEF Unheld
  <2>3. QED
    BY <2>1, <2>2
<1>6. QED
  BY <1>1, <1>2, <1>3, <1>4, <1>5 DEF RowsKeep, OthersUnheld

\* A pending row is settled.
LEMMA RowCloses ==
    ASSUME IInv, Params, NEW r \in Rows, NEW guard \in BOOLEAN,
           guard => row[r].status = "PENDING",
           NEW status, guard => status \in Answers \cup {"DEAD_LETTER"},
           UpdateRowIf(guard, r, ClosedRow(r, status)), NEW r0, NEW t0
    PROVE  RowsKeep /\ OthersUnheld(r0, t0)
<1>1. CASE ~guard
  BY <1>1, RowsUnchanged DEF UpdateRowIf
<1>2. CASE guard
  <2> DEFINE new == ClosedRow(r, status)
  <2>1. row' = [row EXCEPT ![r] = new]
    BY <1>2 DEF UpdateRowIf
  <2>2. row[r] \in Row
    BY DEF IInv, Fits, TypeOK
  <2>a. PICK answered \in BOOLEAN : (status \in Answers) = answered
    <3>1. CASE status \in Answers
      <4>1. (status \in Answers) = TRUE
        BY <3>1
      <4>2. QED
        BY <4>1
    <3>2. CASE status \notin Answers
      <4>1. (status \in Answers) = FALSE
        BY <3>2
      <4>2. QED
        BY <4>1
    <3>3. QED
      BY <3>1, <3>2
  <2>b. new = [row[r] EXCEPT !.status = status, !.token = 0, !.leaseExpiresAt = 0,
                             !.nextAttemptAt = 0, !.fresh = answered]
    BY <2>a DEF ClosedRow
  <2>3. /\ new \in Row /\ new.status = status /\ new.token = 0 /\ new.claims = row[r].claims
    BY <1>2, <2>2, <2>b, Bounds DEF Row, RowStates
  <2> HIDE DEF new
  <2>4. row'[r] = new
    BY <2>1 DEF IInv, Fits, TypeOK
  <2>5. RowFit(r)'
    BY <2>3, <2>4 DEF RowFit
  <2>6. \A t \in Claims : Held(r, t) => Held(r, t)'
    BY <1>2, <2>3, <2>4 DEF Held, Settled
  <2>7. \A t \in Claims : t > 0 => Unheld(r, t)'
    BY <2>3, <2>4 DEF Unheld, Claims
  <2>8. row[r].claims <= new.claims
    BY <2>2, <2>3 DEF Row, Claims
  <2>9. QED
    BY <2>1, <2>3, <2>5, <2>6, <2>7, <2>8, RowBecomes
<1>3. QED
  BY <1>1, <1>2

\* A row is given back by the owner of a claim that was not used for a contact, or not for
\* one that the owner heard of.
LEMMA RowIsReleased ==
    ASSUME IInv, Params, NEW r \in Rows, NEW token \in Claims, token > 0,
           \/ Unheld(r, token)
           \/ \E w \in Workers : wk[w].pc = "releasing" /\ wk[w].row = r /\ wk[w].token = token,
           NEW next \in Times, NEW refund \in {0, 1},
           UpdateRowIf(Owns(r, token), r, ReleasedRow(r, next, refund)), NEW r0, NEW t0
    PROVE  RowsKeep /\ OthersUnheld(r0, t0)
<1>1. CASE ~Owns(r, token)
  BY <1>1, RowsUnchanged DEF UpdateRowIf
<1>2. CASE Owns(r, token)
  <2> DEFINE new == ReleasedRow(r, next, refund)
  <2>1. row' = [row EXCEPT ![r] = new]
    BY <1>2 DEF UpdateRowIf
  <2>2. /\ row[r] \in Row /\ row[r].token = token /\ row[r].status = "PENDING"
    BY <1>2 DEF IInv, Fits, TypeOK, Owns
  <2>3. row[r].attemptCount \in 0..MaxAttempts /\ row[r].attemptCount > 0
    BY <2>2 DEF Row, IInv, Fits, RowsFit, RowFit, Claims
  <2>4. row[r].attemptCount - refund \in 0..MaxAttempts
    BY <2>3, Bounds
  <2>5. /\ new \in Row /\ new.status = "PENDING" /\ new.token = 0 /\ new.claims = row[r].claims
    BY <2>2, <2>4, Bounds DEF ReleasedRow, Row
  <2> HIDE DEF new
  <2>6. row'[r] = new
    BY <2>1 DEF IInv, Fits, TypeOK
  <2>7. RowFit(r)'
    BY <2>5, <2>6 DEF RowFit
  <2>8. \A t \in Claims : ~Held(r, t) \/ Dropping(r, t)
    BY <1>2, <2>2 DEF Held, Settled, Answers, Dropping, Unheld
  <2>9. \A t \in Claims : t > 0 => Unheld(r, t)'
    BY <2>5, <2>6 DEF Unheld, Claims
  <2>10. row[r].claims <= new.claims
    BY <2>2, <2>5 DEF Row, Claims
  <2>11. QED
    BY <2>1, <2>5, <2>7, <2>8, <2>9, <2>10, RowBecomes
<1>3. QED
  BY <1>1, <1>2 DEF Owns

\* A claim is of a row that nobody has used for a contact, since that row's next attempt is never.
LEMMA RowIsClaimed ==
    ASSUME IInv, Params, NEW r \in Rows, NEW asOf \in 0..MaxTime, Claimable(r, asOf),
           row[r].attemptCount < MaxAttempts, row[r].claims < MaxClaims,
           row' = [row EXCEPT ![r] = ClaimedRow(r, asOf)], NEW r0, NEW t0
    PROVE  /\ RowsKeep /\ OthersUnheld(r0, t0)
           /\ row[r].claims + 1 \in Claims /\ row[r].claims + 1 > 0
           /\ row'[r].claims = row[r].claims + 1
           /\ \A t \in Claims : Unheld(r, t)'
           /\ row[r].attemptCount + 1 \in 0..MaxAttempts
<1> DEFINE new == ClaimedRow(r, asOf)
<1>1. /\ row[r] \in Row /\ row[r].status = "PENDING" /\ row[r].nextAttemptAt # Forever
      /\ row[r].nextAttemptAt \in Times \cup {Forever}
  <2>1. row[r] \in Row /\ row[r].status = "PENDING" /\ row[r].nextAttemptAt <= asOf
    BY DEF IInv, Fits, TypeOK, Claimable
  <2>2. row[r].nextAttemptAt \in Times \cup {Forever}
    BY <2>1 DEF Row
  <2>3. asOf \in Nat /\ asOf < Forever /\ Forever \in Nat
    BY Bounds
  <2>4. QED
    BY <2>1, <2>2, <2>3
<1>2. /\ row[r].claims + 1 \in Claims /\ row[r].claims + 1 > 0
      /\ row[r].attemptCount + 1 \in 0..MaxAttempts /\ row[r].attemptCount + 1 > 0
      /\ row[r].claims <= row[r].claims + 1
      /\ asOf + LeaseTime \in Times
  BY <1>1, Bounds DEF Row, Claims
<1>3. /\ new \in Row /\ new.status = "PENDING" /\ new.token = row[r].claims + 1
      /\ new.claims = row[r].claims + 1 /\ new.nextAttemptAt = row[r].nextAttemptAt
      /\ new.attemptCount = row[r].attemptCount + 1
  BY <1>1, <1>2 DEF ClaimedRow, Row
<1> HIDE DEF new
<1>4. row'[r] = new
  BY DEF IInv, Fits, TypeOK, new
<1>5. RowFit(r)'
  BY <1>2, <1>3, <1>4 DEF RowFit
<1>6. \A t \in Claims : ~Held(r, t)
  BY <1>1 DEF Held, Settled, Answers
<1>7. \A t \in Claims : Unheld(r, t)'
  BY <1>1, <1>3, <1>4 DEF Unheld
<1>8. RowsKeep /\ OthersUnheld(r0, t0)
  <2>1. row' = [row EXCEPT ![r] = new]
    BY DEF new
  <2>2. QED
    BY <1>2, <1>3, <1>5, <1>6, <1>7, <2>1, RowBecomes
<1>9. QED
  BY <1>2, <1>3, <1>4, <1>7, <1>8

\* A contact holds the row for its own claim.
LEMMA RowIsHeld ==
    ASSUME IInv, Params, NEW r \in Rows, NEW token \in Claims, token > 0,
           token <= row[r].claims, Owns(r, token),
           row' = [row EXCEPT ![r].nextAttemptAt = Forever]
    PROVE  RowsKeep /\ OthersUnheld(r, token) /\ Held(r, token)'
<1> DEFINE new == [row[r] EXCEPT !.nextAttemptAt = Forever]
<1>1. row' = [row EXCEPT ![r] = new]
  OBVIOUS
<1>2. row[r] \in Row /\ row[r].token = token /\ row[r].status = "PENDING"
  BY DEF IInv, Fits, TypeOK, Owns
<1>3. /\ new \in Row /\ new.status = "PENDING" /\ new.token = token
      /\ new.claims = row[r].claims /\ new.nextAttemptAt = Forever
      /\ new.attemptCount = row[r].attemptCount
  BY <1>2 DEF Row
<1> HIDE DEF new
<1>4. row'[r] = new
  BY <1>1 DEF IInv, Fits, TypeOK
<1>5. token = row[r].claims
  BY <1>2 DEF IInv, Fits, RowsFit, RowFit, Claims
<1>6. RowFit(r)'
  BY <1>2, <1>3, <1>4 DEF RowFit, IInv, Fits, RowsFit
<1>7. Held(r, token)'
  BY <1>3, <1>4, <1>5 DEF Held
<1>8. \A t \in Claims : Held(r, t) => Held(r, t)'
  BY <1>3, <1>4, <1>2 DEF Held, Settled, Answers
<1>9. \A t \in Claims : t # token => Unheld(r, t)'
  BY <1>3, <1>4 DEF Unheld
<1>10. row[r].claims <= new.claims
  BY <1>2, <1>3 DEF Row, Claims
<1>11. RowsKeep /\ OthersUnheld(r, token)
  BY <1>1, <1>3, <1>6, <1>8, <1>9, <1>10, RowBecomes
<1>12. QED
  BY <1>7, <1>11

\* A row is made, or its answer grows old: no claim is concerned.
LEMMA RowIsAsked ==
    ASSUME IInv, Params, NEW r \in Rows, NEW r0, NEW t0,
           \/ row[r].status = "ABSENT" /\ row' = [row EXCEPT ![r].status = "PENDING"]
           \/ row' = [row EXCEPT ![r].fresh = FALSE]
    PROVE  RowsKeep /\ OthersUnheld(r0, t0)
<1>1. row[r] \in Row
  BY DEF IInv, Fits, TypeOK
<1>2. CASE row[r].status = "ABSENT" /\ row' = [row EXCEPT ![r].status = "PENDING"]
  <2> DEFINE new == [row[r] EXCEPT !.status = "PENDING"]
  <2>1. row' = [row EXCEPT ![r] = new]
    BY <1>2
  <2>2. new \in Row /\ new.status = "PENDING" /\ new.token = 0 /\ new.claims = row[r].claims
    BY <1>1, <1>2 DEF Row, RowStates, IInv, Fits, RowsFit, RowFit
  <2> HIDE DEF new
  <2>3. row'[r] = new
    BY <2>1 DEF IInv, Fits, TypeOK
  <2>4. RowFit(r)'
    BY <2>2, <2>3 DEF RowFit
  <2>5. \A t \in Claims : ~Held(r, t)
    BY <1>2 DEF Held, Settled, Answers
  <2>6. \A t \in Claims : t > 0 => Unheld(r, t)'
    BY <2>2, <2>3 DEF Unheld, Claims
  <2>7. row[r].claims <= new.claims
    BY <1>1, <2>2 DEF Row, Claims
  <2>8. QED
    BY <2>1, <2>2, <2>4, <2>5, <2>6, <2>7, RowBecomes
<1>3. CASE row' = [row EXCEPT ![r].fresh = FALSE]
  <2> DEFINE new == [row[r] EXCEPT !.fresh = FALSE]
  <2>1. row' = [row EXCEPT ![r] = new]
    BY <1>3
  <2>2. /\ new \in Row /\ new.status = row[r].status /\ new.token = row[r].token
        /\ new.claims = row[r].claims /\ new.attemptCount = row[r].attemptCount
        /\ new.nextAttemptAt = row[r].nextAttemptAt
    BY <1>1 DEF Row
  <2> HIDE DEF new
  <2>3. row'[r] = new
    BY <2>1 DEF IInv, Fits, TypeOK
  <2>4. RowFit(r)'
    BY <2>2, <2>3 DEF RowFit, IInv, Fits, RowsFit
  <2>5. \A t \in Claims : Held(r, t) => Held(r, t)'
    BY <2>2, <2>3 DEF Held, Settled
  <2>6. \A t \in Claims : Unheld(r, t) => Unheld(r, t)'
    BY <2>2, <2>3 DEF Unheld
  <2>7. row[r].claims <= new.claims
    BY <1>1, <2>2 DEF Row, Claims
  <2>8. QED
    BY <2>1, <2>2, <2>4, <2>5, <2>6, <2>7, RowBecomes
<1>4. QED
  BY <1>2, <1>3

-----------------------------------------------------------------------------
(* What the statements do to the jobs and the attempts.                    *)

LedgersKeep ==
    /\ job' \in [Jobs -> Job]
    /\ att' \in [Jobs \X Nums -> Attempt]
    /\ LedgersFit'
    /\ \A j \in Jobs : job[j].state # "ABSENT" => job'[j].state # "ABSENT"

LEMMA LedgersUnchanged ==
    ASSUME IInv, job' = job, att' = att
    PROVE  LedgersKeep
  BY DEF IInv, Fits, TypeOK, LedgersFit, LedgersKeep

LEMMA SettledJobSets ==
    ASSUME IInv, NEW j \in Jobs, NEW state \in Verdicts, NEW ambiguous \in BOOLEAN,
           job' = SettledJob(j, state, ambiguous)
    PROVE  /\ job' \in [Jobs -> Job]
           /\ \A i \in Jobs : /\ job'[i].iocEnrichmentId = job[i].iocEnrichmentId
                              /\ job'[i].state = "ABSENT" <=> job[i].state = "ABSENT"
                              /\ job[i].state \in Verdicts => job'[i] = job[i]
<1>0. job[j] \in Job /\ "ABSENT" \notin Verdicts /\ "WAITING_ON_DELEGATE" \notin Verdicts
  BY DEF IInv, Fits, TypeOK, Verdicts, IocStatusToJobState, Refusals
<1>1. CASE job[j].state = "WAITING_ON_DELEGATE"
  <2> DEFINE new == [job[j] EXCEPT !.state = state, !.ambiguous = ambiguous]
  <2>1. job' = [job EXCEPT ![j] = new]
    BY <1>1 DEF SettledJob, IInv, Fits, TypeOK
  <2>2. new \in Job /\ new.state = state /\ new.iocEnrichmentId = job[j].iocEnrichmentId
    BY <1>0 DEF Job, JobStates
  <2> HIDE DEF new
  <2>3. job' \in [Jobs -> Job] /\ job'[j] = new /\ \A i \in Jobs \ {j} : job'[i] = job[i]
    BY <2>1, <2>2 DEF IInv, Fits, TypeOK
  <2>4. QED
    BY <1>0, <1>1, <2>2, <2>3
<1>2. CASE job[j].state # "WAITING_ON_DELEGATE"
  BY <1>2 DEF SettledJob, IInv, Fits, TypeOK
<1>3. QED
  BY <1>1, <1>2

LEMMA FinalizedSets ==
    ASSUME IInv, NEW k \in Jobs \X Nums, NEW outcome \in {"ABANDONED"} \cup RowStates,
           att' = Finalized(k, outcome)
    PROVE  /\ att' \in [Jobs \X Nums -> Attempt]
           /\ \A i \in Jobs \X Nums : /\ att'[i].state = "NONE" <=> att[i].state = "NONE"
                                      /\ att[i].state = "FINISHED" => att'[i] = att[i]
<1>0. att[k] \in Attempt
  BY DEF IInv, Fits, TypeOK
<1>1. CASE att[k].state \in Unfinished
  <2> DEFINE new == [att[k] EXCEPT !.state = "FINISHED", !.outcome = outcome]
  <2>1. att' = [att EXCEPT ![k] = new]
    BY <1>1 DEF Finalized, IInv, Fits, TypeOK
  <2>2. new \in Attempt /\ new.state = "FINISHED"
    BY <1>0 DEF Attempt
  <2> HIDE DEF new
  <2>3. /\ att' \in [Jobs \X Nums -> Attempt] /\ att'[k] = new
        /\ \A i \in (Jobs \X Nums) \ {k} : att'[i] = att[i]
    BY <2>1, <2>2 DEF IInv, Fits, TypeOK
  <2>4. QED
    BY <1>1, <2>2, <2>3 DEF Unfinished
<1>2. CASE att[k].state \notin Unfinished
  BY <1>2 DEF Finalized, IInv, Fits, TypeOK
<1>3. QED
  BY <1>1, <1>2

\* Jobs are settled and attempts finished, or left alone.
JobsSettle ==
    \/ job' = job
    \/ \E j \in Jobs, state \in Verdicts, ambiguous \in BOOLEAN : job' = SettledJob(j, state, ambiguous)

AttemptsFinish ==
    \/ att' = att
    \/ \E k \in Jobs \X Nums, outcome \in {"ABANDONED"} \cup RowStates : att' = Finalized(k, outcome)

LEMMA LedgersSettle ==
    ASSUME IInv, JobsSettle, AttemptsFinish
    PROVE  LedgersKeep
<1>1. /\ job' \in [Jobs -> Job]
      /\ \A i \in Jobs : /\ job'[i].iocEnrichmentId = job[i].iocEnrichmentId
                         /\ job'[i].state = "ABSENT" <=> job[i].state = "ABSENT"
  BY SettledJobSets DEF JobsSettle, IInv, Fits, TypeOK
<1>2. /\ att' \in [Jobs \X Nums -> Attempt]
      /\ \A i \in Jobs \X Nums : att'[i].state = "NONE" <=> att[i].state = "NONE"
  BY FinalizedSets DEF AttemptsFinish, IInv, Fits, TypeOK
<1>3. \A j \in Jobs, n \in Nums : att'[<<j, n>>].state # "NONE" => job'[j].state # "ABSENT"
  <2> SUFFICES ASSUME NEW j \in Jobs, NEW n \in Nums, att'[<<j, n>>].state # "NONE"
               PROVE  job'[j].state # "ABSENT"
    OBVIOUS
  <2>1. att[<<j, n>>].state # "NONE"
    BY <1>2
  <2>2. QED
    BY <1>1, <2>1 DEF IInv, Fits, LedgersFit
<1>4. LedgersFit'
  BY <1>1, <1>3 DEF IInv, Fits, LedgersFit
<1>5. QED
  BY <1>1, <1>2, <1>4 DEF LedgersKeep

-----------------------------------------------------------------------------
(* What a step leaves to the processes and the calls.                      *)

\* A claim is given up by its own worker.
LEMMA NotDropped ==
    ASSUME IInv, NEW w \in Workers, wk[w].pc # "releasing", wk[w].token > 0
    PROVE  ~Dropping(wk[w].row, wk[w].token)
<1> SUFFICES ASSUME Dropping(wk[w].row, wk[w].token)
             PROVE  FALSE
  OBVIOUS
<1>1. PICK v \in Workers : /\ wk[v].pc = "releasing" /\ wk[v].row = wk[w].row
                           /\ wk[v].token = wk[w].token
  BY DEF Dropping
<1>2. v # w
  BY <1>1
<1>3. Apart(wk[v], wk[w])
  BY <1>2 DEF IInv, Fits, ClaimsDiffer
<1>4. wk[w].token \in Claims
  BY DEF IInv, Fits, TypeOK, Process
<1>5. QED
  BY <1>1, <1>3, <1>4 DEF Apart, Claims

LEMMA WorkerFitStands ==
    ASSUME IInv, RowsKeep, LedgersKeep, NEW x \in Process, WorkerFit(x),
           NEW w \in Workers, x = wk[w],
           x.pc \in {"claimed", "reserved"} => Unheld(x.row, x.token)'
    PROVE  WorkerFit(x)'
<1>1. x.row \in Rows => x.token <= row'[x.row].claims
  BY DEF WorkerFit, RowsKeep, Process, Row, Claims, IInv, Fits, TypeOK
<1>2. x.pc \in {"contacted", "calling", "answered", "failed"} => Held(x.row, x.token)'
  BY NotDropped DEF WorkerFit, Owning, RowsKeep, Process
<1>3. x.pc # "idle" => job'[x.job].state # "ABSENT"
  BY DEF WorkerFit, LedgersKeep
<1>4. QED
  BY <1>1, <1>2, <1>3 DEF WorkerFit

LEMMA BatchFitStands ==
    ASSUME IInv, RowsKeep, NEW x \in Process, BatchFit(x),
           x.pc \in {"claimed", "calling", "answered"} => Unheld(x.row, x.token)'
    PROVE  BatchFit(x)'
<1>1. x.row \in Rows => x.token <= row'[x.row].claims
  BY DEF BatchFit, RowsKeep, Process, Row, Claims, IInv, Fits, TypeOK
<1>2. QED
  BY <1>1 DEF BatchFit

LEMMA CallsStand ==
    ASSUME IInv, RowsKeep, NEW c \in calls
    PROVE  CallFit(c)'
<1>1. c.row \in Rows /\ c.claim \in Claims
  BY DEF IInv, Fits, TypeOK
<1>2. c.claim <= row'[c.row].claims
  BY <1>1 DEF IInv, Fits, TypeOK, CallsFit, CallFit, RowsKeep, Row, Claims
<1>3. c.by = "targeted" => ~Dropping(c.row, c.claim)
  BY DEF IInv, Uncalled, Dropping
<1>4. QED
  BY <1>1, <1>2, <1>3 DEF IInv, Fits, CallsFit, CallFit, RowsKeep

\* What a process may hold after its step: nothing, its own claim, or a new one.
MayHold(x, y) ==
    \/ y.token = 0
    \/ y.row = x.row /\ y.token = x.token
    \/ y.row \in Rows /\ y.token > row[y.row].claims

LEMMA ApartStands ==
    ASSUME IInv, NEW x \in Process, NEW y \in Process, NEW z \in Process, MayHold(x, y),
           Apart(x, z) \/ Apart(z, x), z.row \in Rows => z.token <= row[z.row].claims
    PROVE  Apart(y, z) /\ Apart(z, y)
<1>1. z.token \in Nat /\ y.token \in Nat
  BY DEF Process, Claims
<1>2. \A r \in Rows : row[r].claims \in Nat
  BY DEF IInv, Fits, TypeOK, Row, Claims
<1>3. QED
  BY <1>1, <1>2 DEF MayHold, Apart

LEMMA WorkerStep ==
    ASSUME IInv, Params, NEW w \in Workers, NEW x \in Process, wk' = [wk EXCEPT ![w] = x],
           bt' = bt, RowsKeep, LedgersKeep, OthersUnheld(wk[w].row, wk[w].token),
           WorkerFit(x)', MayHold(wk[w], x)
    PROVE  ProcessesFit' /\ ClaimsDiffer' /\ wk' \in [Workers -> Process]
<1>1. /\ wk' \in [Workers -> Process] /\ wk'[w] = x
      /\ \A v \in Workers \ {w} : wk'[v] = wk[v]
  BY DEF IInv, Fits, TypeOK
<1>2. /\ \A v \in Workers : wk[v] \in Process /\ WorkerFit(wk[v])
      /\ \A b \in Batches : bt[b] \in Process /\ BatchFit(bt[b])
  BY DEF IInv, Fits, TypeOK, ProcessesFit
<1>3. ASSUME NEW z \in Process, z.row \in Rows, z.token > 0, Apart(wk[w], z) \/ Apart(z, wk[w]),
             Unheld(z.row, z.token)
      PROVE  Unheld(z.row, z.token)'
  BY <1>3 DEF OthersUnheld, Apart, Process, Claims
<1>4. ASSUME NEW v \in Workers \ {w}
      PROVE  WorkerFit(wk[v])'
  <2>0. PICK z \in Process : z = wk[v]
    BY <1>2
  <2>1. WorkerFit(z) /\ Apart(z, wk[w])
    BY <1>2, <2>0 DEF IInv, Fits, ClaimsDiffer
  <2>2. z.pc \in {"claimed", "reserved"} => Unheld(z.row, z.token)'
    BY <1>3, <2>1 DEF WorkerFit, Owning
  <2>3. WorkerFit(z)'
    BY <2>0, <2>1, <2>2, WorkerFitStands
  <2>4. QED
    BY <1>1, <2>0, <2>3
<1>5. ASSUME NEW b \in Batches
      PROVE  BatchFit(bt[b])'
  <2>0. PICK z \in Process : z = bt[b]
    BY <1>2
  <2>1. BatchFit(z) /\ Apart(wk[w], z)
    BY <1>2, <2>0 DEF IInv, Fits, ClaimsDiffer
  <2>2. z.pc \in {"claimed", "calling", "answered"} => Unheld(z.row, z.token)'
    BY <1>3, <2>1 DEF BatchFit
  <2>3. BatchFit(z)'
    BY <2>1, <2>2, BatchFitStands
  <2>4. QED
    BY <2>0, <2>3
<1>6. ProcessesFit'
  BY <1>1, <1>4, <1>5 DEF ProcessesFit
<1>7. ASSUME NEW v \in Workers \ {w}
      PROVE  Apart(x, wk[v]) /\ Apart(wk[v], x)
  BY <1>2, ApartStands DEF WorkerFit, IInv, Fits, ClaimsDiffer
<1>8. ASSUME NEW b \in Batches
      PROVE  Apart(x, bt[b])
  BY <1>2, ApartStands DEF BatchFit, IInv, Fits, ClaimsDiffer
<1>9. ClaimsDiffer'
  BY <1>1, <1>7, <1>8 DEF IInv, Fits, ClaimsDiffer, Apart
<1>10. QED
  BY <1>1, <1>6, <1>9

LEMMA BatchStepStands ==
    ASSUME IInv, Params, NEW a \in Batches, NEW x \in Process, bt' = [bt EXCEPT ![a] = x],
           wk' = wk, RowsKeep, LedgersKeep, OthersUnheld(bt[a].row, bt[a].token),
           BatchFit(x)', MayHold(bt[a], x)
    PROVE  ProcessesFit' /\ ClaimsDiffer' /\ bt' \in [Batches -> Process]
<1>1. /\ bt' \in [Batches -> Process] /\ bt'[a] = x
      /\ \A b \in Batches \ {a} : bt'[b] = bt[b]
  BY DEF IInv, Fits, TypeOK
<1>2. /\ \A w \in Workers : wk[w] \in Process /\ WorkerFit(wk[w])
      /\ \A b \in Batches : bt[b] \in Process /\ BatchFit(bt[b])
  BY DEF IInv, Fits, TypeOK, ProcessesFit
<1>3. ASSUME NEW z \in Process, z.row \in Rows, z.token > 0, Apart(bt[a], z) \/ Apart(z, bt[a]),
             Unheld(z.row, z.token)
      PROVE  Unheld(z.row, z.token)'
  BY <1>3 DEF OthersUnheld, Apart, Process, Claims
<1>4. ASSUME NEW w \in Workers
      PROVE  WorkerFit(wk[w])'
  <2>0. PICK z \in Process : z = wk[w]
    BY <1>2
  <2>1. WorkerFit(z) /\ Apart(z, bt[a])
    BY <1>2, <2>0 DEF IInv, Fits, ClaimsDiffer
  <2>2. z.pc \in {"claimed", "reserved"} => Unheld(z.row, z.token)'
    BY <1>3, <2>1 DEF WorkerFit, Owning
  <2>3. WorkerFit(z)'
    BY <2>0, <2>1, <2>2, WorkerFitStands
  <2>4. QED
    BY <2>0, <2>3
<1>5. ASSUME NEW b \in Batches \ {a}
      PROVE  BatchFit(bt[b])'
  <2>0. PICK z \in Process : z = bt[b]
    BY <1>2
  <2>1. BatchFit(z) /\ Apart(z, bt[a])
    BY <1>2, <2>0 DEF IInv, Fits, ClaimsDiffer
  <2>2. z.pc \in {"claimed", "calling", "answered"} => Unheld(z.row, z.token)'
    BY <1>3, <2>1 DEF BatchFit
  <2>3. BatchFit(z)'
    BY <2>1, <2>2, BatchFitStands
  <2>4. QED
    BY <1>1, <2>0, <2>3
<1>6. ProcessesFit'
  BY <1>1, <1>4, <1>5 DEF ProcessesFit
<1>7. ASSUME NEW b \in Batches \ {a}
      PROVE  Apart(x, bt[b]) /\ Apart(bt[b], x)
  BY <1>2, ApartStands DEF BatchFit, IInv, Fits, ClaimsDiffer
<1>8. ASSUME NEW w \in Workers
      PROVE  Apart(wk[w], x)
  BY <1>2, ApartStands DEF WorkerFit, IInv, Fits, ClaimsDiffer
<1>9. ClaimsDiffer'
  BY <1>1, <1>7, <1>8 DEF IInv, Fits, ClaimsDiffer, Apart
<1>10. QED
  BY <1>1, <1>6, <1>9

CallsKeep ==
    /\ calls' \subseteq [row: Rows, claim: Claims, by: {"targeted", "batch"}]
    /\ CallsFit'

LEMMA CallsUnchanged ==
    ASSUME IInv, RowsKeep, calls' = calls
    PROVE  CallsKeep
  BY CallsStand DEF CallsKeep, CallsFit, IInv, Fits, TypeOK

LEMMA WorkerMoves ==
    ASSUME IInv, Params, NEW w \in Workers, NEW x \in Process, wk' = [wk EXCEPT ![w] = x],
           bt' = bt, RowsKeep, LedgersKeep, OthersUnheld(wk[w].row, wk[w].token),
           WorkerFit(x)', MayHold(wk[w], x), CallsKeep, now' = now, crashes' \in 0..MaxCrashes,
           unheard' \subseteq Jobs
    PROVE  Fits'
  BY WorkerStep DEF IInv, Fits, TypeOK, RowsKeep, LedgersKeep, CallsKeep

LEMMA BatchMoves ==
    ASSUME IInv, Params, NEW b \in Batches, NEW x \in Process, bt' = [bt EXCEPT ![b] = x],
           wk' = wk, RowsKeep, job' = job, att' = att, OthersUnheld(bt[b].row, bt[b].token),
           BatchFit(x)', MayHold(bt[b], x), CallsKeep, now' = now, crashes' \in 0..MaxCrashes,
           unheard' \subseteq Jobs
    PROVE  Fits'
  BY BatchStepStands, LedgersUnchanged DEF IInv, Fits, TypeOK, RowsKeep, LedgersKeep, CallsKeep

LEMMA WorkerRests ==
    ASSUME IInv, Params, NEW w \in Workers, Rest(w), bt' = bt, RowsKeep, LedgersKeep,
           OthersUnheld(wk[w].row, wk[w].token), calls' = calls, now' = now,
           crashes' \in 0..MaxCrashes, unheard' \subseteq Jobs
    PROVE  Fits'
<1>1. Idle \in Process /\ WorkerFit(Idle)' /\ MayHold(wk[w], Idle)
  BY Fresh, IdleIsFit DEF MayHold, Idle
<1>2. QED
  BY <1>1, WorkerMoves, CallsUnchanged DEF Rest

LEMMA BatchStops ==
    ASSUME IInv, Params, NEW b \in Batches, Stop(b), wk' = wk, RowsKeep, job' = job, att' = att,
           OthersUnheld(bt[b].row, bt[b].token), calls' = calls, now' = now,
           crashes' \in 0..MaxCrashes, unheard' \subseteq Jobs
    PROVE  Fits'
<1>1. Idle \in Process /\ BatchFit(Idle)' /\ MayHold(bt[b], Idle)
  BY Fresh, IdleIsFit DEF MayHold, Idle
<1>2. QED
  BY <1>1, BatchMoves, CallsUnchanged DEF Stop

\* A worker goes on with the row and the claim it has.
WorkerMay(z, pc, seen) ==
    /\ pc \in Owning => z.token > 0
    /\ pc \in {"claimed", "reserved"} => Unheld(z.row, z.token)'
    /\ pc \in {"contacted", "calling", "answered", "failed"} => Held(z.row, z.token)'
    /\ pc = "releasing" => seen \in Refusals \cup {"lost"}
    /\ pc = "settling" => seen \in Refusals \cup {"DEAD_LETTER"}
    /\ pc = "answered" => seen \in Statuses

PCs == {"claimed", "releasing", "settling", "reserved", "contacted", "calling", "answered",
        "failed", "buried", "completed", "sweeping", "retiring"}
Seen == {"none", "lost", "exhausted", "contacted", "uncontacted", "ABSENT"}
            \cup RowStates \cup Verdicts

LEMMA WorkerGoesOn ==
    ASSUME IInv, Params, NEW w \in Workers, wk[w].pc \notin {"idle", "listed"},
           NEW pc \in PCs, NEW seen \in Seen, NEW since \in 0..MaxTime,
           wk' = [wk EXCEPT ![w] = [wk[w] EXCEPT !.pc = pc, !.seen = seen, !.since = since]],
           bt' = bt, RowsKeep, LedgersKeep, OthersUnheld(wk[w].row, wk[w].token),
           NEW z, z = wk[w], WorkerMay(z, pc, seen), CallsKeep, now' = now,
           crashes' \in 0..MaxCrashes, unheard' \subseteq Jobs
    PROVE  Fits'
<1>1. z \in Process /\ WorkerFit(z)
  BY DEF IInv, Fits, TypeOK, ProcessesFit
<1>2. PICK x : x = [z EXCEPT !.pc = pc, !.seen = seen, !.since = since]
  OBVIOUS
<1>3. /\ x \in Process /\ x.pc = pc /\ x.seen = seen /\ x.row = z.row /\ x.job = z.job
      /\ x.token = z.token /\ x.n = z.n
  BY <1>1, <1>2 DEF Process, PCs, Seen
<1>4. z.row \in Rows /\ z.job \in Jobs /\ job[z.job].state # "ABSENT" /\ z.n \in Nums
  BY <1>1 DEF WorkerFit
<1>5. z.row # 0
  BY <1>4, Bounds DEF Rows
<1>6. job'[z.job].state # "ABSENT"
  BY <1>4 DEF LedgersKeep
<1>7. z.token <= row'[z.row].claims
  BY <1>1, <1>4 DEF WorkerFit, RowsKeep, Process, Row, Claims, IInv, Fits, TypeOK
<1>8. WorkerFit(x)'
  BY <1>3, <1>4, <1>5, <1>6, <1>7 DEF WorkerFit, WorkerMay, PCs
<1>9. MayHold(wk[w], x)
  BY <1>3 DEF MayHold
<1>10. wk' = [wk EXCEPT ![w] = x]
  BY <1>2
<1>11. QED
  BY <1>3, <1>8, <1>9, <1>10, WorkerMoves

LEMMA BatchGoesOn ==
    ASSUME IInv, Params, NEW b \in Batches, bt[b].pc \in {"claimed", "calling"},
           NEW pc \in {"calling", "answered"}, NEW seen \in Seen, pc = "answered" => seen \in Statuses,
           bt' = [bt EXCEPT ![b] = [bt[b] EXCEPT !.pc = pc, !.seen = seen]],
           wk' = wk, row' = row, job' = job, att' = att, CallsKeep, now' = now,
           crashes' \in 0..MaxCrashes, unheard' \subseteq Jobs
    PROVE  Fits'
<1>1. PICK z \in Process : z = bt[b] /\ BatchFit(z)
  BY DEF IInv, Fits, TypeOK, ProcessesFit
<1>2. PICK x : x = [z EXCEPT !.pc = pc, !.seen = seen]
  OBVIOUS
<1>3. /\ x \in Process /\ x.pc = pc /\ x.seen = seen /\ x.row = z.row /\ x.token = z.token
  BY <1>1, <1>2 DEF Process, Seen
<1>4. z.row \in Rows /\ z.row # 0 /\ z.token > 0 /\ Unheld(z.row, z.token)
  BY <1>1, Bounds DEF BatchFit, Rows
<1>5. RowsKeep /\ OthersUnheld(bt[b].row, bt[b].token)
  BY RowsUnchanged
<1>6. Unheld(z.row, z.token)'
  BY <1>4 DEF Unheld
<1>7. z.token <= row'[z.row].claims
  BY <1>1, <1>4 DEF BatchFit
<1>8. BatchFit(x)'
  BY <1>3, <1>4, <1>6, <1>7 DEF BatchFit
<1>9. MayHold(bt[b], x) /\ bt' = [bt EXCEPT ![b] = x]
  BY <1>1, <1>2, <1>3 DEF MayHold, IInv, Fits, TypeOK
<1>10. QED
  BY <1>3, <1>5, <1>8, <1>9, BatchMoves

\* A step that no process takes.
LEMMA NobodyMoves ==
    ASSUME IInv, Params, wk' = wk, bt' = bt, RowsKeep, OthersUnheld(0, 0), LedgersKeep,
           calls' = calls, now' \in 0..MaxTime, crashes' = crashes,
           unheard' \subseteq Jobs
    PROVE  Fits'
<1>1. ASSUME NEW w \in Workers
      PROVE  WorkerFit(wk[w])'
  <2>1. PICK z \in Process : z = wk[w] /\ WorkerFit(z)
    BY DEF IInv, Fits, TypeOK, ProcessesFit
  <2>2. z.pc \in {"claimed", "reserved"} => Unheld(z.row, z.token)'
    BY <2>1, Bounds DEF WorkerFit, Owning, OthersUnheld, Process, Rows
  <2>3. WorkerFit(z)'
    BY <2>1, <2>2, WorkerFitStands
  <2>4. QED
    BY <2>1, <2>3
<1>2. ASSUME NEW b \in Batches
      PROVE  BatchFit(bt[b])'
  <2>1. PICK z \in Process : z = bt[b] /\ BatchFit(z)
    BY DEF IInv, Fits, TypeOK, ProcessesFit
  <2>2. z.pc \in {"claimed", "calling", "answered"} => Unheld(z.row, z.token)'
    BY <2>1, Bounds DEF BatchFit, OthersUnheld, Process, Rows
  <2>3. BatchFit(z)'
    BY <2>1, <2>2, BatchFitStands
  <2>4. QED
    BY <2>1, <2>3
<1>3. ProcessesFit'
  BY <1>1, <1>2 DEF ProcessesFit
<1>4. ClaimsDiffer'
  BY DEF IInv, Fits, ClaimsDiffer, Apart
<1>5. CallsKeep
  BY CallsUnchanged
<1>6. QED
  BY <1>3, <1>4, <1>5 DEF IInv, Fits, TypeOK, RowsKeep, LedgersKeep, CallsKeep

LEMMA WorkerHas ==
    ASSUME IInv, NEW w \in Workers
    PROVE  wk[w] \in Process /\ WorkerFit(wk[w])
  BY DEF IInv, Fits, TypeOK, ProcessesFit

LEMMA BatchHas ==
    ASSUME IInv, NEW b \in Batches
    PROVE  bt[b] \in Process /\ BatchFit(bt[b])
  BY DEF IInv, Fits, TypeOK, ProcessesFit

LEMMA CrashesStay ==
    ASSUME IInv
    PROVE  crashes \in 0..MaxCrashes /\ now \in 0..MaxTime /\ unheard \subseteq Jobs
  BY DEF IInv, Fits, TypeOK

-----------------------------------------------------------------------------
(* Asking.                                                                 *)

LEMMA AskHolds ==
    ASSUME IInv, Params, Ask
    PROVE  Fits'
<1>1. ASSUME NEW r \in Rows, NEW forced \in BOOLEAN, ScheduleEnrichment(r, forced)
      PROVE  Fits'
  <2>1. RowsKeep /\ OthersUnheld(0, 0)
    BY <1>1, RowIsAsked DEF ScheduleEnrichment
  <2>2. LedgersKeep
    BY <1>1, LedgersUnchanged DEF ScheduleEnrichment
  <2>3. QED
    BY <1>1, <2>1, <2>2, NobodyMoves, CrashesStay DEF ScheduleEnrichment
<1>2. ASSUME NEW r \in Rows, AnswerExpires(r)
      PROVE  Fits'
  <2>1. RowsKeep /\ OthersUnheld(0, 0)
    BY <1>2, RowIsAsked DEF AnswerExpires
  <2>2. LedgersKeep
    BY <1>2, LedgersUnchanged DEF AnswerExpires
  <2>3. QED
    BY <1>2, <2>1, <2>2, NobodyMoves, CrashesStay DEF AnswerExpires
<1>3. ASSUME NEW j \in Jobs, NEW r \in Rows, CreateDelegatedJob(j, r)
      PROVE  Fits'
  <2> DEFINE new == [job[j] EXCEPT !.state = "WAITING_ON_DELEGATE", !.iocEnrichmentId = r]
  <2>1. job[j] \in Job /\ r \in 0..MaxRows
    BY Bounds DEF IInv, Fits, TypeOK, Rows
  <2>2. job' = [job EXCEPT ![j] = new]
    BY <1>3 DEF CreateDelegatedJob, IInv, Fits, TypeOK
  <2>3. new \in Job /\ new.state = "WAITING_ON_DELEGATE" /\ new.iocEnrichmentId = r
    BY <2>1 DEF Job, JobStates
  <2> HIDE DEF new
  <2>4. /\ job' \in [Jobs -> Job] /\ job'[j] = new /\ \A i \in Jobs \ {j} : job'[i] = job[i]
    BY <2>2, <2>3 DEF IInv, Fits, TypeOK
  <2>5. \A i \in Jobs : job'[i].state # "ABSENT" => job'[i].iocEnrichmentId \in Rows
    BY <2>3, <2>4 DEF IInv, Fits, LedgersFit
  <2>6. \A i \in Jobs : job[i].state # "ABSENT" => job'[i].state # "ABSENT"
    BY <2>3, <2>4
  <2>7. LedgersKeep
    BY <1>3, <2>4, <2>5, <2>6 DEF LedgersKeep, LedgersFit, IInv, Fits, TypeOK, CreateDelegatedJob
  <2>8. RowsKeep /\ OthersUnheld(0, 0)
    BY <1>3, RowsUnchanged DEF CreateDelegatedJob
  <2>9. QED
    BY <1>3, <2>7, <2>8, NobodyMoves, CrashesStay DEF CreateDelegatedJob
<1>4. QED
  BY <1>1, <1>2, <1>3 DEF Ask

-----------------------------------------------------------------------------
(* The targeted pass.                                                      *)

LEMMA ListTargetedCandidateHolds ==
    ASSUME IInv, Params, NEW w \in Workers, NEW j \in Jobs, ListTargetedCandidate(w, j)
    PROVE  Fits'
<1>1. PICK x : x = [Idle EXCEPT !.pc = "listed", !.job = j, !.row = job[j].iocEnrichmentId]
  OBVIOUS
<1>2. job[j].iocEnrichmentId \in Rows /\ job[j].state # "ABSENT"
  BY DEF ListTargetedCandidate, IInv, Fits, LedgersFit
<1>3. job[j].iocEnrichmentId \in 0..MaxRows /\ j \in 0..MaxJobs
  BY <1>2, Bounds DEF Rows, Jobs
<1>4. x \in Process /\ x.pc = "listed" /\ x.job = j /\ x.token = 0
      /\ x.row = job[j].iocEnrichmentId
  BY <1>1, <1>3, Fresh DEF Process, Idle
<1>5. wk' = [wk EXCEPT ![w] = x]
  BY <1>1 DEF ListTargetedCandidate
<1>6. RowsKeep /\ OthersUnheld(wk[w].row, wk[w].token)
  BY RowsUnchanged DEF ListTargetedCandidate
<1>7. LedgersKeep /\ CallsKeep
  BY <1>6, LedgersUnchanged, CallsUnchanged DEF ListTargetedCandidate
<1>8. row[x.row].claims >= 0
  BY <1>2, <1>4 DEF IInv, Fits, TypeOK, Row, Claims
<1>9. WorkerFit(x)'
  BY <1>2, <1>4, <1>8 DEF WorkerFit, Owning, ListTargetedCandidate
<1>10. MayHold(wk[w], x)
  BY <1>4 DEF MayHold
<1>11. QED
  BY <1>4, <1>5, <1>6, <1>7, <1>9, <1>10, WorkerMoves, CrashesStay DEF ListTargetedCandidate

LEMMA ClaimTargetedHolds ==
    ASSUME IInv, Params, NEW w \in Workers, ClaimTargeted(w)
    PROVE  Fits'
<1>1. PICK z \in Process : z = wk[w] /\ WorkerFit(z) /\ z.pc = "listed"
  BY WorkerHas DEF ClaimTargeted
<1>2. PICK r \in Rows : r = z.row
  BY <1>1 DEF WorkerFit
<1>3. LedgersKeep
  BY LedgersUnchanged DEF ClaimTargeted
<1>4. CASE Claimable(r, now) /\ row[r].attemptCount < MaxAttempts
  <2>1. PICK t : t = row[r].claims + 1
    OBVIOUS
  <2>2. PICK n : n = row[r].attemptCount + 1
    OBVIOUS
  <2>3. PICK x : x = [z EXCEPT !.pc = "claimed", !.token = t, !.n = n]
    OBVIOUS
  <2>4. row[r].claims < MaxClaims /\ row' = [row EXCEPT ![r] = ClaimedRow(r, now)]
    BY <1>1, <1>2, <1>4 DEF ClaimTargeted
  <2>5. /\ RowsKeep /\ OthersUnheld(wk[w].row, wk[w].token)
        /\ t \in Claims /\ t > 0 /\ row'[r].claims = t /\ Unheld(r, t)'
        /\ n \in 0..MaxAttempts
    BY <1>4, <2>1, <2>2, <2>4, RowIsClaimed, CrashesStay
  <2>6. n \in Nums
    BY <2>2, <2>5, Bounds DEF Nums, IInv, Fits, TypeOK, Row
  <2>7. /\ x \in Process /\ x.pc = "claimed" /\ x.row = r /\ x.job = z.job /\ x.token = t /\ x.n = n
    BY <1>1, <1>2, <2>3, <2>5 DEF Process
  <2>8. t <= row'[r].claims /\ job'[z.job].state # "ABSENT" /\ z.job \in Jobs /\ r # 0
    BY <1>1, <1>2, <2>5, Bounds DEF WorkerFit, ClaimTargeted, Claims, Rows
  <2>9. WorkerFit(x)'
    BY <2>5, <2>6, <2>7, <2>8 DEF WorkerFit, Owning
  <2>10. MayHold(wk[w], x)
    <3>1. t > row[r].claims
      BY <2>1 DEF IInv, Fits, TypeOK, Row, Claims
    <3>2. QED
      BY <2>7, <3>1 DEF MayHold
  <2>11. wk' = [wk EXCEPT ![w] = x]
    BY <1>1, <1>2, <1>4, <2>1, <2>2, <2>3 DEF ClaimTargeted, IInv, Fits, TypeOK
  <2>12. CallsKeep
    BY <2>5, CallsUnchanged DEF ClaimTargeted
  <2>13. QED
    BY <1>3, <2>5, <2>7, <2>9, <2>10, <2>11, <2>12, WorkerMoves, CrashesStay DEF ClaimTargeted
<1>5. CASE ~(Claimable(r, now) /\ row[r].attemptCount < MaxAttempts)
  <2>1. Rest(w) /\ row' = row
    BY <1>1, <1>2, <1>5 DEF ClaimTargeted
  <2>2. QED
    BY <1>3, <2>1, RowsUnchanged, WorkerRests, CrashesStay DEF ClaimTargeted
<1>6. QED
  BY <1>4, <1>5

\* The updates of a worker's memory, in one form.
LEMMA Updates ==
    ASSUME IInv, NEW w \in Workers, NEW pc, NEW seen, NEW since
    PROVE  /\ wk[w].seen \in Seen /\ wk[w].since \in 0..MaxTime
           /\ [wk EXCEPT ![w].pc = pc] =
                 [wk EXCEPT ![w] = [wk[w] EXCEPT !.pc = pc, !.seen = wk[w].seen, !.since = wk[w].since]]
           /\ [wk EXCEPT ![w].pc = pc, ![w].seen = seen] =
                 [wk EXCEPT ![w] = [wk[w] EXCEPT !.pc = pc, !.seen = seen, !.since = wk[w].since]]
           /\ [wk EXCEPT ![w].pc = pc, ![w].since = since] =
                 [wk EXCEPT ![w] = [wk[w] EXCEPT !.pc = pc, !.seen = wk[w].seen, !.since = since]]
<1>1. wk[w] \in Process /\ wk \in [Workers -> Process]
  BY DEF IInv, Fits, TypeOK
<1>2. wk[w].seen \in Seen /\ wk[w].since \in 0..MaxTime
  BY <1>1 DEF Process, Seen
<1>3. [wk[w] EXCEPT !.pc = pc] = [wk[w] EXCEPT !.pc = pc, !.seen = wk[w].seen, !.since = wk[w].since]
  BY <1>1 DEF Process
<1>4. [wk[w] EXCEPT !.pc = pc, !.seen = seen] =
          [wk[w] EXCEPT !.pc = pc, !.seen = seen, !.since = wk[w].since]
  BY <1>1 DEF Process
<1>5. [wk[w] EXCEPT !.pc = pc, !.since = since] =
          [wk[w] EXCEPT !.pc = pc, !.seen = wk[w].seen, !.since = since]
  BY <1>1 DEF Process
<1>6. [wk EXCEPT ![w].pc = pc] = [wk EXCEPT ![w] = [wk[w] EXCEPT !.pc = pc]]
  BY <1>1
<1>7. [wk EXCEPT ![w].pc = pc, ![w].seen = seen] =
          [wk EXCEPT ![w] = [wk[w] EXCEPT !.pc = pc, !.seen = seen]]
  BY <1>1
<1>8. [wk EXCEPT ![w].pc = pc, ![w].since = since] =
          [wk EXCEPT ![w] = [wk[w] EXCEPT !.pc = pc, !.since = since]]
  BY <1>1
<1>9. QED
  BY <1>2, <1>3, <1>4, <1>5, <1>6, <1>7, <1>8

\* A worker goes on, and nothing it may hold the row by changes.
LEMMA WorkerProceeds ==
    ASSUME IInv, Params, NEW w \in Workers, wk[w].pc \notin {"idle", "listed"},
           NEW pc \in PCs, NEW seen \in Seen, NEW since \in 0..MaxTime,
           \/ wk' = [wk EXCEPT ![w].pc = pc] /\ seen = wk[w].seen
           \/ wk' = [wk EXCEPT ![w].pc = pc, ![w].seen = seen]
           \/ wk' = [wk EXCEPT ![w].pc = pc, ![w].since = since] /\ seen = wk[w].seen,
           bt' = bt, RowsKeep, LedgersKeep, OthersUnheld(wk[w].row, wk[w].token),
           NEW z, z = wk[w], WorkerMay(z, pc, seen), CallsKeep, now' = now,
           crashes' \in 0..MaxCrashes, unheard' \subseteq Jobs
    PROVE  Fits'
<1>1. wk[w].since \in 0..MaxTime
  BY Updates
<1>2. CASE wk' = [wk EXCEPT ![w].pc = pc] /\ seen = wk[w].seen
  <2>1. wk' = [wk EXCEPT ![w] = [wk[w] EXCEPT !.pc = pc, !.seen = seen, !.since = wk[w].since]]
    BY <1>2, Updates
  <2>2. QED
    BY <1>1, <2>1, WorkerGoesOn
<1>3. CASE wk' = [wk EXCEPT ![w].pc = pc, ![w].seen = seen]
  <2>1. wk' = [wk EXCEPT ![w] = [wk[w] EXCEPT !.pc = pc, !.seen = seen, !.since = wk[w].since]]
    BY <1>3, Updates
  <2>2. QED
    BY <1>1, <2>1, WorkerGoesOn
<1>4. CASE wk' = [wk EXCEPT ![w].pc = pc, ![w].since = since] /\ seen = wk[w].seen
  <2>1. wk' = [wk EXCEPT ![w] = [wk[w] EXCEPT !.pc = pc, !.seen = seen, !.since = since]]
    BY <1>4, Updates
  <2>2. QED
    BY <2>1, WorkerGoesOn
<1>5. QED
  BY <1>2, <1>3, <1>4

LEMMA RefuseBeforeLookupHolds ==
    ASSUME IInv, Params, NEW w \in Workers, RefuseBeforeLookup(w)
    PROVE  Fits'
<1>1. PICK z \in Process : z = wk[w] /\ WorkerFit(z) /\ z.pc = "claimed"
  BY WorkerHas DEF RefuseBeforeLookup
<1>2. PICK state \in Refusals : wk' = [wk EXCEPT ![w].pc = "releasing", ![w].seen = state]
  BY DEF RefuseBeforeLookup
<1>3. RowsKeep /\ LedgersKeep /\ OthersUnheld(wk[w].row, wk[w].token)
  BY RowsUnchanged, LedgersUnchanged DEF RefuseBeforeLookup
<1>4. CallsKeep
  BY <1>3, CallsUnchanged DEF RefuseBeforeLookup
<1>5. WorkerMay(z, "releasing", state)
  BY <1>1 DEF WorkerMay, WorkerFit, Owning, Unheld, RefuseBeforeLookup
<1>6. state \in Seen /\ "releasing" \in PCs
  BY DEF Seen, Verdicts, PCs
<1>7. QED
  BY <1>1, <1>2, <1>3, <1>4, <1>5, <1>6, WorkerProceeds, CrashesStay DEF RefuseBeforeLookup

LEMMA ReserveTargetedHolds ==
    ASSUME IInv, Params, NEW w \in Workers, ReserveTargeted(w) \/ ReserveUnheard(w)
    PROVE  Fits'
<1>1. PICK z \in Process : z = wk[w] /\ WorkerFit(z) /\ z.pc = "claimed"
  BY WorkerHas DEF ReserveTargeted, ReserveUnheard
<1>2. RowsKeep /\ OthersUnheld(wk[w].row, wk[w].token)
  BY RowsUnchanged DEF ReserveTargeted, ReserveUnheard
<1>3. LedgersKeep
  <2> DEFINE new == [NoAttempt EXCEPT !.state = "RESERVED", !.startedAt = now]
             k == <<z.job, z.n>>
  <2>1. z.job \in Jobs /\ z.n \in Nums /\ job[z.job].state # "ABSENT"
    BY <1>1 DEF WorkerFit
  <2>2. new \in Attempt
    BY Fresh, CrashesStay DEF Attempt, Unfinished
  <2>3. att' = [att EXCEPT ![k] = new]
    BY <1>1 DEF ReserveTargeted, ReserveUnheard
  <2> HIDE DEF new
  <2>4. att' \in [Jobs \X Nums -> Attempt]
    BY <2>2, <2>3 DEF IInv, Fits, TypeOK
  <2>5. \A j \in Jobs, n \in Nums : <<j, n>> # k => att'[<<j, n>>] = att[<<j, n>>]
    BY <2>3 DEF IInv, Fits, TypeOK
  <2>6. \A j \in Jobs, n \in Nums : att'[<<j, n>>].state # "NONE" => job[j].state # "ABSENT"
    BY <2>1, <2>5 DEF IInv, Fits, LedgersFit
  <2>7. QED
    BY <2>4, <2>6 DEF LedgersKeep, LedgersFit, IInv, Fits, TypeOK, ReserveTargeted, ReserveUnheard
<1>4. CallsKeep
  BY <1>2, CallsUnchanged DEF ReserveTargeted, ReserveUnheard
<1>5. now' = now /\ bt' = bt /\ crashes' \in 0..MaxCrashes /\ unheard' \subseteq Jobs
  BY CrashesStay, Bounds DEF ReserveTargeted, ReserveUnheard, WriteFails
<1>6. CASE ReserveTargeted(w)
  <2>1. WorkerMay(z, "reserved", z.seen)
    BY <1>1, <1>6 DEF WorkerMay, WorkerFit, Owning, Unheld, ReserveTargeted
  <2>2. z.seen \in Seen /\ "reserved" \in PCs
    BY <1>1, Updates DEF PCs
  <2>3. QED
    BY <1>1, <1>2, <1>3, <1>4, <1>5, <1>6, <2>1, <2>2, WorkerProceeds, CrashesStay
    DEF ReserveTargeted, Work
<1>7. CASE ReserveUnheard(w)
  <2>1. WorkerMay(z, "releasing", "SKIPPED_BUDGET")
    BY <1>1 DEF WorkerMay, WorkerFit, Owning, Refusals
  <2>2. "SKIPPED_BUDGET" \in Seen /\ "releasing" \in PCs
    BY DEF Seen, Verdicts, Refusals, PCs
  <2>3. QED
    BY <1>1, <1>2, <1>3, <1>4, <1>5, <1>7, <2>1, <2>2, WorkerProceeds, CrashesStay
    DEF ReserveUnheard
<1>8. QED
  BY <1>6, <1>7

LEMMA ContactHolds ==
    ASSUME IInv, Params, NEW w \in Workers, Contact(w) \/ ContactUnheard(w)
    PROVE  Fits'
<1>1. PICK z \in Process : z = wk[w] /\ WorkerFit(z) /\ z.pc = "reserved"
  BY WorkerHas DEF Contact, ContactUnheard
<1>2. PICK r \in Rows : r = z.row
  BY <1>1 DEF WorkerFit
<1>3. PICK k \in Jobs \X Nums : k = <<z.job, z.n>>
  BY <1>1 DEF WorkerFit
<1>4. z.token \in Claims /\ z.token > 0 /\ z.token <= row[r].claims /\ Unheld(r, z.token)
  BY <1>1, <1>2 DEF WorkerFit, Owning, Process
<1>5. /\ calls' = calls /\ now' = now /\ bt' = bt /\ job' = job
      /\ crashes' \in 0..MaxCrashes /\ unheard' \subseteq Jobs
  <2>1. z.job \in Jobs
    BY <1>1 DEF WorkerFit
  <2>2. QED
    BY <1>1, <2>1, CrashesStay, Bounds DEF Contact, ContactUnheard, WriteFails
<1>6. CASE ContactUnheard(w) \/ (att[k].state = "RESERVED" /\ Owns(r, z.token))
  <2>1. row' = [row EXCEPT ![r].nextAttemptAt = Forever] /\ Owns(r, z.token)
    BY <1>1, <1>2, <1>3, <1>6 DEF Contact, ContactUnheard
  <2>2. RowsKeep /\ OthersUnheld(r, z.token) /\ Held(r, z.token)'
    BY <1>4, <2>1, RowIsHeld
  <2>3. LedgersKeep
    <3> DEFINE new == [att[k] EXCEPT !.state = "IN_FLIGHT", !.contactedProvider = TRUE]
    <3>1. att' = [att EXCEPT ![k].state = "IN_FLIGHT", ![k].contactedProvider = TRUE]
      BY <1>1, <1>2, <1>3, <1>6 DEF Contact, ContactUnheard
    <3>2. att' = [att EXCEPT ![k] = new]
      BY <3>1 DEF IInv, Fits, TypeOK
    <3>3. new \in Attempt
      <4>1. att[k] \in Attempt
        BY DEF IInv, Fits, TypeOK
      <4>2. QED
        BY <4>1 DEF Attempt, Unfinished
    <3> HIDE DEF new
    <3>4. /\ att' \in [Jobs \X Nums -> Attempt]
          /\ \A i \in Jobs \X Nums : i # k => att'[i] = att[i]
      BY <3>2, <3>3 DEF IInv, Fits, TypeOK
    <3>5. job[z.job].state # "ABSENT"
      BY <1>1 DEF WorkerFit
    <3>6. \A j \in Jobs, n \in Nums : att'[<<j, n>>].state # "NONE" => job[j].state # "ABSENT"
      BY <1>3, <3>4, <3>5 DEF IInv, Fits, LedgersFit
    <3>7. QED
      BY <1>5, <3>4, <3>6 DEF LedgersKeep, LedgersFit, IInv, Fits, TypeOK
  <2>4. CallsKeep
    BY <1>5, <2>2, CallsUnchanged
  <2>5. WorkerMay(z, "contacted", z.seen) /\ WorkerMay(z, "releasing", "lost")
    BY <1>2, <1>4, <2>2 DEF WorkerMay
  <2>6. z.seen \in Seen /\ "contacted" \in PCs /\ "lost" \in Seen /\ "releasing" \in PCs
    BY <1>1, Updates DEF PCs, Seen
  <2>7. \/ wk' = [wk EXCEPT ![w].pc = "contacted"]
        \/ wk' = [wk EXCEPT ![w].pc = "releasing", ![w].seen = "lost"]
    BY <1>1, <1>2, <1>3, <1>6 DEF Contact, ContactUnheard, Work
  <2>8. QED
    BY <1>1, <1>2, <1>5, <2>2, <2>3, <2>4, <2>5, <2>6, <2>7, WorkerProceeds, CrashesStay
<1>7. CASE ~ContactUnheard(w) /\ ~(att[k].state = "RESERVED" /\ Owns(r, z.token))
  <2>1. /\ wk' = [wk EXCEPT ![w].pc = "releasing", ![w].seen = "lost"]
        /\ row' = row /\ att' = att
    BY <1>1, <1>2, <1>3, <1>7 DEF Contact
  <2>2. RowsKeep /\ OthersUnheld(wk[w].row, wk[w].token) /\ LedgersKeep
    BY <1>5, <2>1, RowsUnchanged, LedgersUnchanged
  <2>3. CallsKeep
    BY <1>5, <2>2, CallsUnchanged
  <2>4. WorkerMay(z, "releasing", "lost")
    BY <1>4 DEF WorkerMay
  <2>5. "lost" \in Seen /\ "releasing" \in PCs
    BY DEF Seen, PCs
  <2>6. QED
    BY <1>1, <1>5, <2>1, <2>2, <2>3, <2>4, <2>5, WorkerProceeds, CrashesStay
<1>8. QED
  BY <1>6, <1>7

LEMMA ReleaseAndReturnHolds ==
    ASSUME IInv, Params, NEW w \in Workers, ReleaseAndReturn(w)
    PROVE  Fits'
<1>1. PICK z \in Process : z = wk[w] /\ WorkerFit(z) /\ z.pc = "releasing"
  BY WorkerHas DEF ReleaseAndReturn
<1>2. /\ z.row \in Rows /\ z.token \in Claims /\ z.token > 0
      /\ z.seen \in Refusals \cup {"lost"}
  BY <1>1 DEF WorkerFit, Owning, Process
<1>3. UpdateRowIf(Owns(z.row, z.token), z.row, ReleasedRow(z.row, 0, 1))
  BY <1>1 DEF ReleaseAndReturn
<1>4. RowsKeep /\ OthersUnheld(wk[w].row, wk[w].token)
  BY <1>1, <1>2, <1>3, Bounds, RowIsReleased
<1>5. LedgersKeep /\ CallsKeep
  BY <1>4, LedgersUnchanged, CallsUnchanged DEF ReleaseAndReturn
<1>6. CASE Work(w, "settling") /\ z.seen # "lost"
  <2>1. WorkerMay(z, "settling", z.seen)
    BY <1>2, <1>6 DEF WorkerMay, Owning
  <2>2. z.seen \in Seen /\ "settling" \in PCs
    BY <1>1, Updates DEF PCs
  <2>3. QED
    BY <1>1, <1>4, <1>5, <1>6, <2>1, <2>2, WorkerProceeds, CrashesStay DEF Work, ReleaseAndReturn
<1>7. CASE Rest(w)
  BY <1>4, <1>5, <1>7, WorkerRests, CrashesStay DEF ReleaseAndReturn
<1>8. QED
  BY <1>1, <1>6, <1>7 DEF ReleaseAndReturn

LEMMA StartTargetedLookupHolds ==
    ASSUME IInv, Params, NEW w \in Workers, StartTargetedLookup(w)
    PROVE  Fits'
<1>1. PICK z \in Process : z = wk[w] /\ WorkerFit(z) /\ z.pc = "contacted"
  BY WorkerHas DEF StartTargetedLookup
<1>2. z.row \in Rows /\ z.token \in Claims /\ z.token > 0 /\ Held(z.row, z.token)
  BY <1>1 DEF WorkerFit, Owning, Process
<1>3. RowsKeep /\ OthersUnheld(wk[w].row, wk[w].token) /\ LedgersKeep
  BY RowsUnchanged, LedgersUnchanged DEF StartTargetedLookup
<1>4. Held(z.row, z.token)'
  BY <1>1, <1>2, <1>3, NotDropped DEF RowsKeep
<1>5. CallsKeep
  <2>1. PICK c : c = [row |-> z.row, claim |-> z.token, by |-> "targeted"]
    OBVIOUS
  <2>2. c \in [row: Rows, claim: Claims, by: {"targeted", "batch"}]
    BY <1>2, <2>1
  <2>3. calls' = calls \cup {c}
    BY <1>1, <2>1 DEF StartTargetedLookup
  <2>4. z.token <= row'[z.row].claims
    BY <1>2, <1>4 DEF Held, Claims, RowsKeep, Row
  <2>5. CallFit(c)'
    BY <1>4, <2>1, <2>4 DEF CallFit
  <2>6. QED
    BY <1>3, <2>2, <2>3, <2>5, CallsStand DEF CallsKeep, CallsFit, IInv, Fits, TypeOK
<1>6. WorkerMay(z, "calling", z.seen)
  BY <1>2, <1>4 DEF WorkerMay
<1>7. z.seen \in Seen /\ "calling" \in PCs
  BY <1>1, Updates DEF PCs
<1>8. QED
  BY <1>1, <1>3, <1>5, <1>6, <1>7, WorkerProceeds, CrashesStay DEF StartTargetedLookup

LEMMA TargetedLookupEnds ==
    ASSUME IInv, Params, NEW w \in Workers, TargetedLookupReturns(w) \/ TargetedLookupFails(w)
    PROVE  Fits'
<1>1. PICK z \in Process : z = wk[w] /\ WorkerFit(z) /\ z.pc \in {"calling", "answered"}
  BY WorkerHas DEF TargetedLookupReturns, TargetedLookupFails
<1>2. z.row \in Rows /\ z.token \in Claims /\ z.token > 0 /\ Held(z.row, z.token)
  BY <1>1 DEF WorkerFit, Owning, Process
<1>3. RowsKeep /\ OthersUnheld(wk[w].row, wk[w].token) /\ LedgersKeep
  BY RowsUnchanged, LedgersUnchanged DEF TargetedLookupReturns, TargetedLookupFails
<1>4. CallsKeep /\ Held(z.row, z.token)'
  BY <1>1, <1>2, <1>3, NotDropped, CallsUnchanged
  DEF TargetedLookupReturns, TargetedLookupFails, RowsKeep
<1>5. CASE TargetedLookupReturns(w)
  <2>1. PICK s \in Statuses : wk' = [wk EXCEPT ![w].pc = "answered", ![w].seen = s]
    BY <1>5 DEF TargetedLookupReturns
  <2>2. WorkerMay(z, "answered", s)
    BY <1>2, <1>4 DEF WorkerMay
  <2>3. s \in Seen /\ "answered" \in PCs
    BY Params DEF ParamsAssumption, Seen, RowStates, PCs
  <2>4. QED
    BY <1>1, <1>3, <1>4, <1>5, <2>1, <2>2, <2>3, WorkerProceeds, CrashesStay
    DEF TargetedLookupReturns
<1>6. CASE TargetedLookupFails(w)
  <2>1. WorkerMay(z, "failed", z.seen)
    BY <1>2, <1>4 DEF WorkerMay
  <2>2. z.seen \in Seen /\ "failed" \in PCs
    BY <1>1, Updates DEF PCs
  <2>3. QED
    BY <1>1, <1>3, <1>4, <1>6, <2>1, <2>2, WorkerProceeds, CrashesStay
    DEF TargetedLookupFails, Work
<1>7. QED
  BY <1>5, <1>6

LEMMA CompleteTargetedHolds ==
    ASSUME IInv, Params, NEW w \in Workers, CompleteTargeted(w)
    PROVE  Fits'
<1>1. PICK z \in Process : z = wk[w] /\ WorkerFit(z) /\ z.pc = "answered"
  BY WorkerHas DEF CompleteTargeted
<1>2. z.row \in Rows /\ z.seen \in Answers
  BY <1>1, Params DEF WorkerFit, ParamsAssumption
<1>3. UpdateRowIf(Owns(z.row, z.token), z.row, ClosedRow(z.row, z.seen))
  BY <1>1 DEF CompleteTargeted
<1>4. RowsKeep /\ OthersUnheld(wk[w].row, wk[w].token)
  <2>1. PICK guard \in BOOLEAN : guard = Owns(z.row, z.token)
    BY DEF Owns
  <2>2. QED
    BY <1>2, <1>3, <2>1, RowCloses DEF Owns
<1>5. LedgersKeep /\ CallsKeep
  BY <1>4, LedgersUnchanged, CallsUnchanged DEF CompleteTargeted
<1>6. CASE Work(w, "completed")
  <2>1. WorkerMay(z, "completed", z.seen)
    BY DEF WorkerMay, Owning
  <2>2. z.seen \in Seen /\ "completed" \in PCs
    BY <1>1, Updates DEF PCs
  <2>3. QED
    BY <1>1, <1>4, <1>5, <1>6, <2>1, <2>2, WorkerProceeds, CrashesStay DEF Work, CompleteTargeted
<1>7. CASE Rest(w)
  BY <1>4, <1>5, <1>7, WorkerRests, CrashesStay DEF CompleteTargeted
<1>8. QED
  BY <1>6, <1>7 DEF CompleteTargeted

LEMMA CompletionUnheardHolds ==
    ASSUME IInv, Params, NEW w \in Workers, CompletionUnheard(w)
    PROVE  Fits'
<1>1. PICK z \in Process : z = wk[w] /\ WorkerFit(z) /\ z.pc = "answered"
  BY WorkerHas DEF CompletionUnheard
<1>2. /\ z.row \in Rows /\ z.seen \in Answers /\ z.job \in Jobs
      /\ z.token \in Claims /\ z.token > 0 /\ Held(z.row, z.token)
  BY <1>1, Params DEF WorkerFit, ParamsAssumption, Process, Owning
<1>3. Owns(z.row, z.token) /\ row' = [row EXCEPT ![z.row] = ClosedRow(z.row, z.seen)]
  BY <1>1 DEF CompletionUnheard
<1>4. RowsKeep /\ OthersUnheld(wk[w].row, wk[w].token)
  <2>1. UpdateRowIf(TRUE, z.row, ClosedRow(z.row, z.seen))
    BY <1>3 DEF UpdateRowIf
  <2>2. QED
    BY <1>2, <1>3, <2>1, RowCloses DEF Owns
<1>5. LedgersKeep /\ CallsKeep
  BY <1>4, LedgersUnchanged, CallsUnchanged DEF CompletionUnheard
<1>6. Held(z.row, z.token)'
  BY <1>1, <1>2, <1>4, NotDropped DEF RowsKeep
<1>7. WorkerMay(z, "failed", z.seen)
  BY <1>2, <1>6 DEF WorkerMay
<1>8. z.seen \in Seen /\ "failed" \in PCs
  BY <1>1, Updates DEF PCs
<1>9. crashes' \in 0..MaxCrashes /\ unheard' \subseteq Jobs
  BY <1>1, <1>2, CrashesStay, Bounds DEF CompletionUnheard, WriteFails
<1>10. QED
  BY <1>1, <1>4, <1>5, <1>7, <1>8, <1>9, WorkerProceeds, CrashesStay DEF Work, CompletionUnheard

LEMMA FinalizeCompletedHolds ==
    ASSUME IInv, Params, NEW w \in Workers, FinalizeCompleted(w)
    PROVE  Fits'
<1>1. PICK z \in Process : z = wk[w] /\ WorkerFit(z) /\ z.pc = "completed"
  BY WorkerHas DEF FinalizeCompleted
<1>2. /\ <<z.job, z.n>> \in Jobs \X Nums /\ row[z.row].status \in RowStates
  BY <1>1 DEF WorkerFit, IInv, Fits, TypeOK, Row
<1>3. LedgersKeep
  BY <1>1, <1>2, LedgersSettle DEF FinalizeCompleted, JobsSettle, AttemptsFinish
<1>4. RowsKeep /\ OthersUnheld(wk[w].row, wk[w].token)
  BY RowsUnchanged DEF FinalizeCompleted
<1>5. QED
  BY <1>3, <1>4, WorkerRests, CrashesStay DEF FinalizeCompleted

LEMMA BuryRowHolds ==
    ASSUME IInv, Params, NEW w \in Workers, BuryRow(w)
    PROVE  Fits'
<1>1. PICK z \in Process : z = wk[w] /\ WorkerFit(z) /\ z.pc = "failed"
  BY WorkerHas DEF BuryRow
<1>2. z.row \in Rows
  BY <1>1 DEF WorkerFit
<1>3. RowsKeep /\ OthersUnheld(wk[w].row, wk[w].token)
  <2>1. PICK guard \in BOOLEAN : guard = Owns(z.row, z.token)
    BY DEF Owns
  <2>2. UpdateRowIf(guard, z.row, ClosedRow(z.row, "DEAD_LETTER"))
    BY <1>1, <2>1 DEF BuryRow
  <2>3. QED
    BY <1>2, <2>1, <2>2, RowCloses DEF Owns
<1>4. LedgersKeep /\ CallsKeep
  BY <1>3, LedgersUnchanged, CallsUnchanged DEF BuryRow
<1>5. WorkerMay(z, "buried", z.seen)
  BY DEF WorkerMay, Owning
<1>6. z.seen \in Seen /\ "buried" \in PCs
  BY <1>1, Updates DEF PCs
<1>7. QED
  BY <1>1, <1>3, <1>4, <1>5, <1>6, WorkerProceeds, CrashesStay DEF Work, BuryRow

LEMMA BuryFailsHolds ==
    ASSUME IInv, Params, NEW w \in Workers, BuryFails(w)
    PROVE  Fits'
<1>1. PICK z \in Process : z = wk[w] /\ WorkerFit(z) /\ z.pc = "failed"
  BY WorkerHas DEF BuryFails
<1>2. RowsKeep /\ LedgersKeep /\ OthersUnheld(wk[w].row, wk[w].token)
  BY RowsUnchanged, LedgersUnchanged DEF BuryFails
<1>3. CallsKeep
  BY <1>2, CallsUnchanged DEF BuryFails
<1>4. WorkerMay(z, "buried", z.seen)
  BY DEF WorkerMay, Owning
<1>5. z.seen \in Seen /\ "buried" \in PCs
  BY <1>1, Updates DEF PCs
<1>6. crashes' \in 0..MaxCrashes /\ unheard' \subseteq Jobs
  BY CrashesStay, Bounds DEF BuryFails, WriteFails
<1>7. QED
  BY <1>1, <1>2, <1>3, <1>4, <1>5, <1>6, WorkerProceeds, CrashesStay DEF Work, BuryFails

LEMMA FinalizeAbandonedHolds ==
    ASSUME IInv, Params, NEW w \in Workers, FinalizeAbandoned(w)
    PROVE  Fits'
<1>1. PICK z \in Process : z = wk[w] /\ WorkerFit(z) /\ z.pc = "buried"
  BY WorkerHas DEF FinalizeAbandoned
<1>2. <<z.job, z.n>> \in Jobs \X Nums
  BY <1>1 DEF WorkerFit
<1>3. LedgersKeep
  BY <1>1, <1>2, LedgersSettle DEF FinalizeAbandoned, JobsSettle, AttemptsFinish
<1>4. RowsKeep /\ OthersUnheld(wk[w].row, wk[w].token)
  BY RowsUnchanged DEF FinalizeAbandoned
<1>5. CallsKeep
  BY <1>4, CallsUnchanged DEF FinalizeAbandoned
<1>6. WorkerMay(z, "settling", "DEAD_LETTER")
  BY DEF WorkerMay, Owning
<1>7. "DEAD_LETTER" \in Seen /\ "settling" \in PCs
  BY DEF Seen, RowStates, PCs
<1>8. QED
  BY <1>1, <1>3, <1>4, <1>5, <1>6, <1>7, WorkerProceeds, CrashesStay DEF FinalizeAbandoned

LEMMA VerdictsAre ==
    /\ Refusals \subseteq Verdicts
    /\ "DEAD_LETTER" \in Verdicts
    /\ \A s \in Answers \cup {"DEAD_LETTER"} : IocStatusToJobState[s] \in Verdicts
<1>1. IocStatusToJobState["DEAD_LETTER"] = "DEAD_LETTER"
  BY DEF IocStatusToJobState, Answers
<1>2. QED
  BY <1>1 DEF Verdicts

LEMMA SettleJobHolds ==
    ASSUME IInv, Params, NEW w \in Workers, SettleJob(w)
    PROVE  Fits'
<1>1. PICK z \in Process : z = wk[w] /\ WorkerFit(z) /\ z.pc = "settling"
  BY WorkerHas DEF SettleJob
<1>2. z.job \in Jobs /\ z.seen \in Verdicts
  BY <1>1, VerdictsAre DEF WorkerFit
<1>3. LedgersKeep
  <2>1. PICK ambiguous \in BOOLEAN : (z.seen = "DEAD_LETTER") = ambiguous
    <3>1. CASE z.seen = "DEAD_LETTER"
      BY <3>1
    <3>2. CASE z.seen # "DEAD_LETTER"
      BY <3>2
    <3>3. QED
      BY <3>1, <3>2
  <2>2. job' = SettledJob(z.job, z.seen, ambiguous) /\ att' = att
    BY <1>1, <2>1 DEF SettleJob
  <2>3. QED
    BY <1>2, <2>2, LedgersSettle DEF JobsSettle, AttemptsFinish
<1>4. RowsKeep /\ OthersUnheld(wk[w].row, wk[w].token)
  BY RowsUnchanged DEF SettleJob
<1>5. QED
  BY <1>3, <1>4, WorkerRests, CrashesStay DEF SettleJob

-----------------------------------------------------------------------------
(* The recovery passes.                                                    *)

LEMMA ReconcileDelegatedJobHolds ==
    ASSUME IInv, Params, NEW w \in Workers, NEW j \in Jobs, ReconcileDelegatedJob(w, j)
    PROVE  Fits'
<1>1. row[job[j].iocEnrichmentId].status \in Answers \cup {"DEAD_LETTER"}
  BY DEF ReconcileDelegatedJob, Settled
<1>2. PICK state \in Verdicts : job' = SettledJob(j, state, FALSE)
  BY <1>1, VerdictsAre DEF ReconcileDelegatedJob
<1>3. LedgersKeep
  BY <1>2, LedgersSettle DEF ReconcileDelegatedJob, JobsSettle, AttemptsFinish
<1>4. RowsKeep /\ OthersUnheld(0, 0)
  BY RowsUnchanged DEF ReconcileDelegatedJob
<1>5. QED
  BY <1>3, <1>4, NobodyMoves, CrashesStay DEF ReconcileDelegatedJob

LEMMA SweepReadHolds ==
    ASSUME IInv, Params, NEW w \in Workers, NEW j \in Jobs, NEW n \in Nums, SweepRead(w, j, n)
    PROVE  Fits'
<1>1. job[j].state # "ABSENT" /\ job[j].iocEnrichmentId \in Rows
  BY DEF SweepRead, Stale, Unfinished, IInv, Fits, LedgersFit
<1>2. PICK r \in Rows : r = job[j].iocEnrichmentId
  BY <1>1
<1>3. PICK seen : seen = (IF Settled(r) THEN row[r].status
                          ELSE IF att[<<j, n>>].contactedProvider THEN "contacted"
                          ELSE "uncontacted")
  OBVIOUS
<1>4. seen \in {"contacted", "uncontacted"} \cup RowStates
  BY <1>3 DEF IInv, Fits, TypeOK, Row
<1>5. PICK x : x = [Idle EXCEPT !.pc = "sweeping", !.job = j, !.row = r, !.n = n, !.seen = seen]
  OBVIOUS
<1>6. r \in 0..MaxRows /\ j \in 0..MaxJobs /\ n \in 0..MaxAttempts /\ r # 0
  BY Bounds DEF Rows, Jobs, Nums
<1>7. x \in Process /\ x.pc = "sweeping" /\ x.job = j /\ x.token = 0 /\ x.row = r /\ x.n = n
  BY <1>4, <1>5, <1>6, Fresh DEF Process, Idle
<1>8. wk' = [wk EXCEPT ![w] = x]
  BY <1>2, <1>3, <1>5 DEF SweepRead
<1>9. RowsKeep /\ OthersUnheld(wk[w].row, wk[w].token)
  BY RowsUnchanged DEF SweepRead
<1>10. LedgersKeep /\ CallsKeep
  BY <1>9, LedgersUnchanged, CallsUnchanged DEF SweepRead
<1>11. row[x.row].claims >= 0
  BY <1>7 DEF IInv, Fits, TypeOK, Row, Claims
<1>12. WorkerFit(x)'
  BY <1>1, <1>6, <1>7, <1>11 DEF WorkerFit, Owning, SweepRead
<1>13. MayHold(wk[w], x)
  BY <1>7 DEF MayHold
<1>14. QED
  BY <1>7, <1>8, <1>9, <1>10, <1>12, <1>13, WorkerMoves, CrashesStay DEF SweepRead

LEMMA SweepWriteHolds ==
    ASSUME IInv, Params, NEW w \in Workers, SweepWrite(w)
    PROVE  Fits'
<1>1. PICK z \in Process : z = wk[w] /\ WorkerFit(z) /\ z.pc = "sweeping"
  BY WorkerHas DEF SweepWrite
<1>2. z.job \in Jobs /\ <<z.job, z.n>> \in Jobs \X Nums
  BY <1>1 DEF WorkerFit
<1>3. PICK outcome \in {"ABANDONED"} \cup RowStates : att' = Finalized(<<z.job, z.n>>, outcome)
  BY <1>1 DEF SweepWrite
<1>4. job' = job \/ job' = SettledJob(z.job, "DEAD_LETTER", TRUE)
  BY <1>1 DEF SweepWrite
<1>5. LedgersKeep
  BY <1>2, <1>3, <1>4, VerdictsAre, LedgersSettle DEF JobsSettle, AttemptsFinish
<1>6. RowsKeep /\ OthersUnheld(wk[w].row, wk[w].token)
  BY RowsUnchanged DEF SweepWrite
<1>7. CallsKeep
  BY <1>6, CallsUnchanged DEF SweepWrite
<1>8. CASE Work(w, "retiring")
  <2>1. WorkerMay(z, "retiring", z.seen)
    BY DEF WorkerMay, Owning
  <2>2. z.seen \in Seen /\ "retiring" \in PCs
    BY <1>1, Updates DEF PCs
  <2>3. QED
    BY <1>1, <1>5, <1>6, <1>7, <1>8, <2>1, <2>2, WorkerProceeds, CrashesStay DEF Work, SweepWrite
<1>9. CASE Rest(w)
  BY <1>5, <1>6, <1>9, WorkerRests, CrashesStay DEF SweepWrite
<1>10. QED
  BY <1>8, <1>9 DEF SweepWrite

LEMMA RetireHeldRowHolds ==
    ASSUME IInv, Params, NEW w \in Workers, RetireHeldRow(w)
    PROVE  Fits'
<1>1. PICK z \in Process : z = wk[w] /\ WorkerFit(z) /\ z.pc = "retiring"
  BY WorkerHas DEF RetireHeldRow
<1>2. z.row \in Rows
  BY <1>1 DEF WorkerFit
<1>3. RowsKeep /\ OthersUnheld(wk[w].row, wk[w].token)
  <2>1. PICK guard \in BOOLEAN :
          guard = (row[z.row].status = "PENDING" /\ LeaseFree(z.row, now))
    OBVIOUS
  <2>2. UpdateRowIf(guard, z.row, ClosedRow(z.row, "DEAD_LETTER"))
    BY <1>1, <2>1 DEF RetireHeldRow
  <2>3. QED
    BY <1>2, <2>1, <2>2, RowCloses
<1>4. LedgersKeep
  BY LedgersUnchanged DEF RetireHeldRow
<1>5. QED
  BY <1>3, <1>4, WorkerRests, CrashesStay DEF RetireHeldRow

-----------------------------------------------------------------------------
(* The batch.                                                              *)

LEMMA ListPendingCandidateHolds ==
    ASSUME IInv, Params, NEW b \in Batches, NEW r \in Rows, ListPendingCandidate(b, r)
    PROVE  Fits'
<1>1. PICK seen \in {"exhausted", "none"} :
        seen = (IF row[r].attemptCount >= MaxAttempts THEN "exhausted" ELSE "none")
  OBVIOUS
<1>2. PICK x : x = [Idle EXCEPT !.pc = "listed", !.row = r, !.since = now, !.seen = seen]
  OBVIOUS
<1>3. r \in 0..MaxRows /\ r # 0
  BY Bounds DEF Rows
<1>4. x \in Process /\ x.pc = "listed" /\ x.token = 0 /\ x.row = r
  BY <1>1, <1>2, <1>3, Fresh, CrashesStay DEF Process, Idle
<1>5. bt' = [bt EXCEPT ![b] = x]
  BY <1>1, <1>2 DEF ListPendingCandidate
<1>6. RowsKeep /\ OthersUnheld(bt[b].row, bt[b].token)
  BY RowsUnchanged DEF ListPendingCandidate
<1>7. CallsKeep
  BY <1>6, CallsUnchanged DEF ListPendingCandidate
<1>8. row[r].claims >= 0
  BY DEF IInv, Fits, TypeOK, Row, Claims
<1>9. BatchFit(x)'
  BY <1>3, <1>4, <1>8 DEF BatchFit, ListPendingCandidate
<1>10. MayHold(bt[b], x)
  BY <1>4 DEF MayHold
<1>11. QED
  BY <1>4, <1>5, <1>6, <1>7, <1>9, <1>10, BatchMoves, CrashesStay DEF ListPendingCandidate

LEMMA SweepExhaustedHolds ==
    ASSUME IInv, Params, NEW b \in Batches, SweepExhausted(b)
    PROVE  Fits'
<1>1. PICK z \in Process : z = bt[b] /\ BatchFit(z) /\ z.pc = "listed"
  BY BatchHas DEF SweepExhausted
<1>2. z.row \in Rows
  BY <1>1 DEF BatchFit
<1>3. RowsKeep /\ OthersUnheld(bt[b].row, bt[b].token)
  <2>1. PICK guard \in BOOLEAN :
          guard = (/\ row[z.row].status = "PENDING"
                   /\ row[z.row].attemptCount >= MaxAttempts
                   /\ LeaseFree(z.row, z.since))
    OBVIOUS
  <2>2. UpdateRowIf(guard, z.row, ClosedRow(z.row, "DEAD_LETTER"))
    BY <1>1, <2>1 DEF SweepExhausted
  <2>3. QED
    BY <1>2, <2>1, <2>2, RowCloses
<1>4. QED
  BY <1>3, BatchStops, CrashesStay DEF SweepExhausted

LEMMA BatchClaimHolds ==
    ASSUME IInv, Params, NEW b \in Batches, BatchClaim(b)
    PROVE  Fits'
<1>1. PICK z \in Process : z = bt[b] /\ BatchFit(z) /\ z.pc = "listed"
  BY BatchHas DEF BatchClaim
<1>2. PICK r \in Rows : r = z.row
  BY <1>1 DEF BatchFit
<1>3. PICK asOf \in 0..MaxTime : asOf = z.since
  BY DEF Process
<1>4. CASE Claimable(r, asOf) /\ row[r].attemptCount < MaxAttempts
  <2>1. PICK t : t = row[r].claims + 1
    OBVIOUS
  <2>2. PICK n : n = row[r].attemptCount + 1
    OBVIOUS
  <2>3. PICK x : x = [z EXCEPT !.pc = "claimed", !.token = t, !.n = n]
    OBVIOUS
  <2>4. row[r].claims < MaxClaims /\ row' = [row EXCEPT ![r] = ClaimedRow(r, asOf)]
    BY <1>1, <1>2, <1>3, <1>4 DEF BatchClaim
  <2>5. /\ RowsKeep /\ OthersUnheld(bt[b].row, bt[b].token)
        /\ t \in Claims /\ t > 0 /\ row'[r].claims = t /\ Unheld(r, t)'
        /\ n \in 0..MaxAttempts
    BY <1>4, <2>1, <2>2, <2>4, RowIsClaimed
  <2>6. /\ x \in Process /\ x.pc = "claimed" /\ x.row = r /\ x.token = t
    BY <1>1, <1>2, <2>3, <2>5 DEF Process
  <2>7. t <= row'[r].claims /\ r # 0
    BY <2>5, Bounds DEF Claims, Rows
  <2>8. BatchFit(x)'
    BY <2>5, <2>6, <2>7 DEF BatchFit
  <2>9. MayHold(bt[b], x)
    <3>1. t > row[r].claims
      BY <2>1 DEF IInv, Fits, TypeOK, Row, Claims
    <3>2. QED
      BY <2>6, <3>1 DEF MayHold
  <2>10. bt' = [bt EXCEPT ![b] = x]
    BY <1>1, <1>2, <1>3, <1>4, <2>1, <2>2, <2>3 DEF BatchClaim, IInv, Fits, TypeOK
  <2>11. CallsKeep
    BY <2>5, CallsUnchanged DEF BatchClaim
  <2>12. QED
    BY <2>5, <2>6, <2>8, <2>9, <2>10, <2>11, BatchMoves, CrashesStay DEF BatchClaim
<1>5. CASE ~(Claimable(r, asOf) /\ row[r].attemptCount < MaxAttempts)
  <2>1. Stop(b) /\ row' = row
    BY <1>1, <1>2, <1>3, <1>5 DEF BatchClaim
  <2>2. QED
    BY <2>1, RowsUnchanged, BatchStops, CrashesStay DEF BatchClaim
<1>6. QED
  BY <1>4, <1>5

LEMMA BatchEndHolds ==
    ASSUME IInv, Params, NEW b \in Batches,
           BatchCancelled(b) \/ BatchComplete(b) \/ BatchRetryOrBury(b)
    PROVE  Fits'
<1>1. PICK z \in Process : z = bt[b] /\ BatchFit(z) /\ z.pc \in {"claimed", "calling", "answered"}
  BY BatchHas DEF BatchCancelled, BatchComplete, BatchRetryOrBury
<1>2. /\ z.row \in Rows /\ z.token \in Claims /\ z.token > 0 /\ Unheld(z.row, z.token)
      /\ z.since + Delay \in Times
  BY <1>1, Bounds DEF BatchFit, Process
<1>3. ASSUME NEW refund \in {0, 1},
             UpdateRowIf(Owns(z.row, z.token), z.row, ReleasedRow(z.row, z.since + Delay, refund))
      PROVE  RowsKeep /\ OthersUnheld(bt[b].row, bt[b].token)
  BY <1>2, <1>3, RowIsReleased
<1>4. ASSUME NEW status \in Answers \cup {"DEAD_LETTER"},
             UpdateRowIf(Owns(z.row, z.token), z.row, ClosedRow(z.row, status))
      PROVE  RowsKeep /\ OthersUnheld(bt[b].row, bt[b].token)
  <2>1. PICK guard \in BOOLEAN : guard = Owns(z.row, z.token)
    BY DEF Owns
  <2>2. UpdateRowIf(guard, z.row, ClosedRow(z.row, status))
    BY <1>4, <2>1
  <2>3. QED
    BY <1>2, <2>1, <2>2, RowCloses DEF Owns
<1>5. CASE BatchCancelled(b)
  BY <1>1, <1>3, <1>5, BatchStops, CrashesStay DEF BatchCancelled
<1>6. CASE BatchComplete(b)
  <2>1. z.seen \in Answers
    BY <1>1, <1>6, Params DEF BatchComplete, BatchFit, ParamsAssumption
  <2>2. QED
    BY <1>1, <1>4, <1>6, <2>1, BatchStops, CrashesStay DEF BatchComplete
<1>7. CASE BatchRetryOrBury(b)
  <2>1. \/ UpdateRowIf(Owns(z.row, z.token), z.row, ClosedRow(z.row, "DEAD_LETTER"))
        \/ UpdateRowIf(Owns(z.row, z.token), z.row, ReleasedRow(z.row, z.since + Delay, 0))
    BY <1>1, <1>7 DEF BatchRetryOrBury, UpdateRowIf
  <2>2. RowsKeep /\ OthersUnheld(bt[b].row, bt[b].token)
    BY <1>3, <1>4, <2>1
  <2>3. QED
    BY <1>7, <2>2, BatchStops, CrashesStay DEF BatchRetryOrBury
<1>8. QED
  BY <1>5, <1>6, <1>7

LEMMA BatchLookupHolds ==
    ASSUME IInv, Params, NEW b \in Batches, BatchLookup(b)
    PROVE  Fits'
<1>1. PICK z \in Process : z = bt[b] /\ BatchFit(z) /\ z.pc = "claimed"
  BY BatchHas DEF BatchLookup
<1>2. z.row \in Rows /\ z.token \in Claims /\ z.token <= row[z.row].claims /\ z.seen \in Seen
  BY <1>1 DEF BatchFit, Process, Seen
<1>3. RowsKeep
  BY RowsUnchanged DEF BatchLookup
<1>4. CallsKeep
  <2>1. PICK c : c = [row |-> z.row, claim |-> z.token, by |-> "batch"]
    OBVIOUS
  <2>2. c \in [row: Rows, claim: Claims, by: {"targeted", "batch"}]
    BY <1>2, <2>1
  <2>3. calls' = calls \cup {c}
    BY <1>1, <2>1 DEF BatchLookup
  <2>4. CallFit(c)'
    BY <1>2, <2>1 DEF CallFit, BatchLookup
  <2>5. QED
    BY <1>3, <2>2, <2>3, <2>4, CallsStand DEF CallsKeep, CallsFit, IInv, Fits, TypeOK
<1>5. bt' = [bt EXCEPT ![b] = [bt[b] EXCEPT !.pc = "calling", !.seen = z.seen]]
  <2>1. [bt[b] EXCEPT !.pc = "calling"] = [bt[b] EXCEPT !.pc = "calling", !.seen = z.seen]
    BY <1>1 DEF Process
  <2>2. QED
    BY <2>1 DEF BatchLookup, Step, IInv, Fits, TypeOK
<1>6. QED
  BY <1>1, <1>2, <1>4, <1>5, BatchGoesOn, CrashesStay DEF BatchLookup

LEMMA BatchLookupReturnsHolds ==
    ASSUME IInv, Params, NEW b \in Batches, BatchLookupReturns(b)
    PROVE  Fits'
<1>1. PICK s \in Statuses : bt' = [bt EXCEPT ![b].pc = "answered", ![b].seen = s]
  BY DEF BatchLookupReturns
<1>2. bt' = [bt EXCEPT ![b] = [bt[b] EXCEPT !.pc = "answered", !.seen = s]]
  BY <1>1 DEF IInv, Fits, TypeOK
<1>3. s \in Seen
  BY Params DEF ParamsAssumption, Seen, RowStates
<1>4. CallsKeep
  BY RowsUnchanged, CallsUnchanged DEF BatchLookupReturns
<1>5. QED
  BY <1>2, <1>3, <1>4, BatchGoesOn, CrashesStay DEF BatchLookupReturns

-----------------------------------------------------------------------------
(* The environment.                                                        *)

LEMMA CrashHolds ==
    ASSUME IInv, Params,
           \/ \E w \in Workers : WorkerCrash(w)
           \/ \E b \in Batches : BatchCrash(b)
    PROVE  Fits'
<1>1. crashes' \in 0..MaxCrashes /\ unheard' \subseteq Jobs
  BY CrashesStay, Bounds DEF WorkerCrash, BatchCrash
<1>2. ASSUME NEW w \in Workers, WorkerCrash(w)
      PROVE  Fits'
  BY <1>1, <1>2, RowsUnchanged, LedgersUnchanged, WorkerRests DEF WorkerCrash
<1>3. ASSUME NEW b \in Batches, BatchCrash(b)
      PROVE  Fits'
  BY <1>1, <1>3, RowsUnchanged, BatchStops DEF BatchCrash
<1>4. QED
  BY <1>2, <1>3

LEMMA TickHolds ==
    ASSUME IInv, Params, Tick
    PROVE  Fits'
<1>1. now' \in 0..MaxTime /\ unheard' \subseteq Jobs
  BY CrashesStay, Bounds DEF Tick
<1>2. QED
  BY <1>1, RowsUnchanged, LedgersUnchanged, NobodyMoves DEF Tick

LEMMA StutterHolds ==
    ASSUME IInv, Params, UNCHANGED vars
    PROVE  Fits'
  BY RowsUnchanged, LedgersUnchanged, NobodyMoves, CrashesStay DEF vars

\* No targeted call is made with a claim that is still to be contacted, or is given back.
Early == {"claimed", "reserved", "releasing"}

\* Such a claim was one before this step, or is a new one.
EarlyFrom(v) ==
    wk'[v].pc \in Early =>
        \/ wk[v].pc \in Early /\ wk'[v].row = wk[v].row /\ wk'[v].token = wk[v].token
        \/ wk'[v].row \in Rows /\ wk'[v].token = row[wk'[v].row].claims + 1

LEMMA UncalledStays ==
    ASSUME IInv, \A v \in Workers : EarlyFrom(v),
           calls' = calls \/ \E b \in Batches : BatchLookup(b)
    PROVE  Uncalled'
<1> SUFFICES ASSUME NEW v \in Workers, NEW c \in calls', wk'[v].pc \in Early, c.by = "targeted",
                    c.row = wk'[v].row, c.claim = wk'[v].token
             PROVE  FALSE
  BY DEF Uncalled, Early
<1>1. c \in calls
  BY DEF BatchLookup
<1>2. ~(wk[v].pc \in Early /\ c.row = wk[v].row /\ c.claim = wk[v].token)
  BY <1>1 DEF IInv, Uncalled, Early
<1>3. c.claim \in Nat /\ c.row \in Rows /\ c.claim <= row[c.row].claims
  BY <1>1 DEF IInv, Fits, TypeOK, CallsFit, CallFit, Claims
<1>4. row[c.row].claims \in Nat
  BY <1>3 DEF IInv, Fits, TypeOK, Row, Claims
<1>5. QED
  BY <1>2, <1>3, <1>4 DEF EarlyFrom

LEMMA UncalledIfNobodyMoves ==
    ASSUME IInv, wk' = wk, calls' = calls \/ \E b \in Batches : BatchLookup(b)
    PROVE  Uncalled'
  BY UncalledStays DEF EarlyFrom

LEMMA UncalledIfOneMoves ==
    ASSUME IInv, NEW w \in Workers, \A v \in Workers : v # w => wk'[v] = wk[v], EarlyFrom(w),
           calls' = calls
    PROVE  Uncalled'
  BY UncalledStays DEF EarlyFrom

\* What an update of a worker's memory sets, and what it leaves.
LEMMA WorkSets ==
    ASSUME IInv, NEW w \in Workers, NEW pc, NEW seen, NEW since,
           \/ wk' = [wk EXCEPT ![w].pc = pc]
           \/ wk' = [wk EXCEPT ![w].pc = pc, ![w].seen = seen]
           \/ wk' = [wk EXCEPT ![w].pc = pc, ![w].since = since]
    PROVE  /\ wk'[w].pc = pc /\ wk'[w].row = wk[w].row /\ wk'[w].token = wk[w].token
           /\ \A v \in Workers : v # w => wk'[v] = wk[v]
<1>1. wk[w] \in Process /\ wk \in [Workers -> Process]
  BY DEF IInv, Fits, TypeOK
<1>2. \A v \in Workers : v # w => wk'[v] = wk[v]
  BY <1>1
<1>3. \/ wk'[w] = [wk[w] EXCEPT !.pc = pc]
      \/ wk'[w] = [wk[w] EXCEPT !.pc = pc, !.seen = seen]
      \/ wk'[w] = [wk[w] EXCEPT !.pc = pc, !.since = since]
  BY <1>1
<1>4. QED
  BY <1>1, <1>2, <1>3 DEF Process

LEMMA RestSets ==
    ASSUME IInv, NEW w \in Workers, Rest(w)
    PROVE  wk'[w].pc = "idle" /\ \A v \in Workers : v # w => wk'[v] = wk[v]
  BY DEF Rest, Idle, IInv, Fits, TypeOK

\* A step after which the worker is past the release of a claim, or before its next one.
LEMMA UncalledByLateStep ==
    ASSUME IInv, NEW w \in Workers, calls' = calls,
           \/ Rest(w)
           \/ \E pc \in PCs \ Early : Work(w, pc)
           \/ \E pc \in PCs \ Early, seen \in Seen : wk' = [wk EXCEPT ![w].pc = pc, ![w].seen = seen]
    PROVE  Uncalled'
<1>1. wk'[w].pc \notin Early /\ \A v \in Workers : v # w => wk'[v] = wk[v]
  <2>1. CASE Rest(w)
    BY <2>1, RestSets DEF Early
  <2>2. CASE \E pc \in PCs \ Early : Work(w, pc)
    BY <2>2, WorkSets DEF Work
  <2>3. CASE \E pc \in PCs \ Early, seen \in Seen : wk' = [wk EXCEPT ![w].pc = pc, ![w].seen = seen]
    <3>1. PICK pc \in PCs \ Early, seen \in Seen :
            wk' = [wk EXCEPT ![w].pc = pc, ![w].seen = seen]
      BY <2>3
    <3>2. QED
      BY <3>1, WorkSets
  <2>4. QED
    BY <2>1, <2>2, <2>3
<1>2. QED
  BY <1>1, UncalledIfOneMoves DEF EarlyFrom

\* A step on from a claim to its contact, or to its release.
LEMMA UncalledByEarlyStep ==
    ASSUME IInv, NEW w \in Workers, calls' = calls, wk[w].pc \in Early,
           NEW pc, NEW seen,
           wk' = [wk EXCEPT ![w].pc = pc] \/ wk' = [wk EXCEPT ![w].pc = pc, ![w].seen = seen]
    PROVE  Uncalled'
<1>1. /\ wk'[w].row = wk[w].row /\ wk'[w].token = wk[w].token
      /\ \A v \in Workers : v # w => wk'[v] = wk[v]
  BY WorkSets
<1>2. QED
  BY <1>1, UncalledIfOneMoves DEF EarlyFrom

LEMMA UncalledByTargetedStep ==
    ASSUME IInv, Params, NEW w \in Workers, TargetedStep(w)
    PROVE  Uncalled'
<1>1. CASE \E j \in Jobs : ListTargetedCandidate(w, j)
  <2>1. PICK j \in Jobs : ListTargetedCandidate(w, j)
    BY <1>1
  <2>2. wk'[w].pc = "listed" /\ \A v \in Workers : v # w => wk'[v] = wk[v]
    BY <2>1 DEF ListTargetedCandidate, Idle, IInv, Fits, TypeOK
  <2>3. QED
    BY <2>1, <2>2, UncalledIfOneMoves DEF ListTargetedCandidate, EarlyFrom, Early
<1>2. CASE ClaimTargeted(w)
  <2>1. PICK z \in Process : z = wk[w] /\ WorkerFit(z) /\ z.pc = "listed"
    BY <1>2, WorkerHas DEF ClaimTargeted
  <2>2. PICK r \in Rows : r = z.row
    BY <2>1 DEF WorkerFit
  <2>3. CASE Claimable(r, now) /\ row[r].attemptCount < MaxAttempts
    <3>1. wk' = [wk EXCEPT ![w].pc = "claimed", ![w].token = row[r].claims + 1,
                           ![w].n = row[r].attemptCount + 1]
      BY <1>2, <2>1, <2>2, <2>3 DEF ClaimTargeted
    <3>2. wk'[w] = [z EXCEPT !.pc = "claimed", !.token = row[r].claims + 1,
                             !.n = row[r].attemptCount + 1]
          /\ \A v \in Workers : v # w => wk'[v] = wk[v]
      BY <2>1, <3>1 DEF IInv, Fits, TypeOK
    <3>3. wk'[w].row = r /\ wk'[w].token = row[r].claims + 1
      BY <2>1, <2>2, <3>2 DEF Process
    <3>4. QED
      BY <1>2, <3>2, <3>3, UncalledIfOneMoves DEF ClaimTargeted, EarlyFrom
  <2>4. CASE ~(Claimable(r, now) /\ row[r].attemptCount < MaxAttempts)
    <3>1. Rest(w)
      BY <1>2, <2>1, <2>2, <2>4 DEF ClaimTargeted
    <3>2. QED
      BY <1>2, <3>1, UncalledByLateStep DEF ClaimTargeted
  <2>5. QED
    BY <2>3, <2>4
<1>3. CASE RefuseBeforeLookup(w) \/ ReserveTargeted(w) \/ ReserveUnheard(w)
  <2>1. wk[w].pc \in Early /\ calls' = calls
    BY <1>3 DEF RefuseBeforeLookup, ReserveTargeted, ReserveUnheard, Early
  <2>2. PICK pc, seen : \/ wk' = [wk EXCEPT ![w].pc = pc]
                        \/ wk' = [wk EXCEPT ![w].pc = pc, ![w].seen = seen]
    BY <1>3 DEF RefuseBeforeLookup, ReserveTargeted, ReserveUnheard, Work
  <2>3. QED
    BY <2>1, <2>2, UncalledByEarlyStep
<1>4. CASE Contact(w) \/ ContactUnheard(w)
  <2>1. wk[w].pc \in Early /\ calls' = calls
    BY <1>4 DEF Contact, ContactUnheard, Early
  <2>2. \/ wk' = [wk EXCEPT ![w].pc = "contacted"]
        \/ wk' = [wk EXCEPT ![w].pc = "releasing", ![w].seen = "lost"]
    BY <1>4 DEF Contact, ContactUnheard, Work
  <2>3. QED
    BY <2>1, <2>2, UncalledByEarlyStep
<1>5. CASE ReleaseAndReturn(w)
  <2>1. Work(w, "settling") \/ Rest(w)
    BY <1>5 DEF ReleaseAndReturn
  <2>2. "settling" \in PCs \ Early
    BY DEF PCs, Early
  <2>3. QED
    BY <1>5, <2>1, <2>2, UncalledByLateStep DEF ReleaseAndReturn
<1>6. CASE StartTargetedLookup(w)
  <2>1. PICK z \in Process : z = wk[w] /\ WorkerFit(z) /\ z.pc = "contacted"
    BY <1>6, WorkerHas DEF StartTargetedLookup
  <2>2. PICK d : d = [row |-> z.row, claim |-> z.token, by |-> "targeted"]
    OBVIOUS
  <2>3. calls' = calls \cup {d} /\ d.row = z.row /\ d.claim = z.token
    BY <1>6, <2>1, <2>2 DEF StartTargetedLookup
  <2>4. wk'[w].pc = "calling" /\ \A v \in Workers : v # w => wk'[v] = wk[v]
    BY <1>6, WorkSets DEF StartTargetedLookup
  <2>5. z.token \in Claims /\ z.token > 0
    BY <2>1 DEF WorkerFit, Owning, Process
  <2> SUFFICES ASSUME NEW v \in Workers, NEW c \in calls', wk'[v].pc \in Early,
                      c.by = "targeted", c.row = wk'[v].row, c.claim = wk'[v].token
               PROVE  FALSE
    BY DEF Uncalled, Early
  <2>6. v # w /\ wk'[v] = wk[v]
    BY <2>4 DEF Early
  <2>7. CASE c \in calls
    BY <2>6, <2>7 DEF IInv, Uncalled, Early
  <2>8. CASE c = d
    <3>1. Apart(wk[v], wk[w])
      BY <2>6 DEF IInv, Fits, ClaimsDiffer
    <3>2. QED
      BY <2>1, <2>3, <2>5, <2>6, <2>8, <3>1 DEF Apart, Claims
  <2>9. QED
    BY <2>3, <2>7, <2>8
<1>7. CASE TargetedLookupReturns(w)
  <2>1. "answered" \in PCs \ Early /\ Statuses \subseteq Seen
    BY Params DEF PCs, Early, ParamsAssumption, Seen, RowStates
  <2>2. QED
    BY <1>7, <2>1, UncalledByLateStep DEF TargetedLookupReturns
<1>8. CASE \/ TargetedLookupFails(w) \/ CompleteTargeted(w) \/ FinalizeCompleted(w)
           \/ BuryRow(w) \/ SettleJob(w) \/ CompletionUnheard(w) \/ BuryFails(w)
  <2>1. "failed" \in PCs \ Early /\ "completed" \in PCs \ Early /\ "buried" \in PCs \ Early
    BY DEF PCs, Early
  <2>2. /\ calls' = calls
        /\ Rest(w) \/ Work(w, "failed") \/ Work(w, "completed") \/ Work(w, "buried")
    BY <1>8 DEF TargetedLookupFails, CompleteTargeted, FinalizeCompleted, BuryRow, SettleJob,
                CompletionUnheard, BuryFails
  <2>3. QED
    BY <2>1, <2>2, UncalledByLateStep
<1>9. CASE FinalizeAbandoned(w)
  <2>1. "settling" \in PCs \ Early /\ "DEAD_LETTER" \in Seen
    BY DEF PCs, Early, Seen, RowStates
  <2>2. QED
    BY <1>9, <2>1, UncalledByLateStep DEF FinalizeAbandoned
<1>10. QED
  BY <1>1, <1>2, <1>3, <1>4, <1>5, <1>6, <1>7, <1>8, <1>9 DEF TargetedStep

LEMMA UncalledByRecoveryStep ==
    ASSUME IInv, NEW w \in Workers, RecoveryStep(w)
    PROVE  Uncalled'
<1>1. ASSUME NEW j \in Jobs, ReconcileDelegatedJob(w, j)
      PROVE  Uncalled'
  BY <1>1, UncalledIfNobodyMoves DEF ReconcileDelegatedJob
<1>2. ASSUME NEW j \in Jobs, NEW n \in Nums, SweepRead(w, j, n)
      PROVE  Uncalled'
  <2>1. wk'[w].pc = "sweeping" /\ \A v \in Workers : v # w => wk'[v] = wk[v]
    BY <1>2 DEF SweepRead, Idle, IInv, Fits, TypeOK
  <2>2. QED
    BY <1>2, <2>1, UncalledIfOneMoves DEF SweepRead, EarlyFrom, Early
<1>3. CASE SweepWrite(w) \/ RetireHeldRow(w)
  <2>1. "retiring" \in PCs \ Early
    BY DEF PCs, Early
  <2>2. calls' = calls /\ (Rest(w) \/ Work(w, "retiring"))
    BY <1>3 DEF SweepWrite, RetireHeldRow
  <2>3. QED
    BY <2>1, <2>2, UncalledByLateStep
<1>4. QED
  BY <1>1, <1>2, <1>3 DEF RecoveryStep

LEMMA UncalledHolds ==
    ASSUME IInv, Params, [Next]_vars
    PROVE  Uncalled'
<1>1. ASSUME NEW b \in Batches, BatchStep(b)
      PROVE  Uncalled'
  <2>1. wk' = wk /\ (calls' = calls \/ BatchLookup(b))
    BY <1>1 DEF BatchStep, ListPendingCandidate, SweepExhausted, BatchClaim, BatchCancelled,
                BatchLookup, BatchLookupReturns, BatchComplete, BatchRetryOrBury
  <2>2. QED
    BY <2>1, UncalledIfNobodyMoves
<1>2. CASE Ask \/ Tick \/ UNCHANGED vars \/ \E b \in Batches : BatchCrash(b)
  <2>1. wk' = wk /\ calls' = calls
    BY <1>2 DEF Ask, ScheduleEnrichment, AnswerExpires, CreateDelegatedJob, Tick, BatchCrash, vars
  <2>2. QED
    BY <2>1, UncalledIfNobodyMoves
<1>3. ASSUME NEW w \in Workers, WorkerCrash(w)
      PROVE  Uncalled'
  BY <1>3, UncalledByLateStep DEF WorkerCrash
<1>4. QED
  BY <1>1, <1>2, <1>3, UncalledByTargetedStep, UncalledByRecoveryStep DEF Next

LEMMA FitsHolds ==
    ASSUME IInv, Params, [Next]_vars
    PROVE  Fits'
<1>1. ASSUME NEW w \in Workers, TargetedStep(w)
      PROVE  Fits'
  BY <1>1, ListTargetedCandidateHolds, ClaimTargetedHolds, RefuseBeforeLookupHolds,
     ReserveTargetedHolds, ContactHolds, ReleaseAndReturnHolds, StartTargetedLookupHolds,
     TargetedLookupEnds, CompleteTargetedHolds, FinalizeCompletedHolds, BuryRowHolds,
     FinalizeAbandonedHolds, SettleJobHolds, CompletionUnheardHolds, BuryFailsHolds
  DEF TargetedStep
<1>2. ASSUME NEW w \in Workers, RecoveryStep(w)
      PROVE  Fits'
  BY <1>2, ReconcileDelegatedJobHolds, SweepReadHolds, SweepWriteHolds, RetireHeldRowHolds
  DEF RecoveryStep
<1>3. ASSUME NEW b \in Batches, BatchStep(b)
      PROVE  Fits'
  BY <1>3, ListPendingCandidateHolds, SweepExhaustedHolds, BatchClaimHolds, BatchEndHolds,
     BatchLookupHolds, BatchLookupReturnsHolds
  DEF BatchStep
<1>4. QED
  BY <1>1, <1>2, <1>3, AskHolds, CrashHolds, TickHolds, StutterHolds DEF Next

LEMMA NextHolds ==
    ASSUME IInv, Params, [Next]_vars
    PROVE  IInv'
  BY FitsHolds, UncalledHolds DEF IInv

-----------------------------------------------------------------------------
(* What is settled stays as it is.                                         *)

RowsFinal == \A r \in Rows : Settled(r) => /\ row'[r].status = row[r].status
                                           /\ row'[r].attemptCount = row[r].attemptCount
JobsFinal == \A j \in Jobs : job[j].state \in Verdicts => job'[j] = job[j]
AttemptsFinal == \A k \in Jobs \X Nums : att[k].state = "FINISHED" => att'[k] = att[k]
Final == RowsFinal /\ JobsFinal /\ AttemptsFinal

LEMMA RowsLeft == ASSUME row' = row PROVE RowsFinal
  BY DEF RowsFinal

LEMMA JobsLeft == ASSUME job' = job PROVE JobsFinal
  BY DEF JobsFinal

LEMMA AttemptsLeft == ASSUME att' = att PROVE AttemptsFinal
  BY DEF AttemptsFinal

\* A row that is not settled may be written: the others are untouched.
LEMMA OpenRowWritten ==
    ASSUME IInv, NEW r0 \in Nat, row[r0].status \in {"ABSENT", "PENDING"} \/ row' = row,
           \A r \in Rows : r # r0 => row'[r] = row[r]
    PROVE  RowsFinal
<1>1. ASSUME NEW r \in Rows, Settled(r)
      PROVE  row'[r] = row[r]
  <2>1. r # r0 \/ row' = row
    BY <1>1 DEF Settled, Answers
  <2>2. QED
    BY <2>1
<1>2. QED
  BY <1>1 DEF RowsFinal

LEMMA WaitingJobSettled ==
    ASSUME IInv, NEW j, NEW state, NEW ambiguous, job' = SettledJob(j, state, ambiguous)
    PROVE  JobsFinal
<1>1. "WAITING_ON_DELEGATE" \notin Verdicts
  BY DEF Verdicts, IocStatusToJobState, Refusals
<1>2. CASE job[j].state = "WAITING_ON_DELEGATE"
  <2>1. ASSUME NEW i \in Jobs, job[i].state \in Verdicts
        PROVE  job'[i] = job[i]
    <3>1. i # j
      BY <1>1, <1>2, <2>1
    <3>2. QED
      BY <1>2, <3>1 DEF SettledJob, IInv, Fits, TypeOK
  <2>2. QED
    BY <2>1 DEF JobsFinal
<1>3. CASE job[j].state # "WAITING_ON_DELEGATE"
  BY <1>3, JobsLeft DEF SettledJob
<1>4. QED
  BY <1>2, <1>3

LEMMA OpenAttemptFinalized ==
    ASSUME IInv, NEW k, NEW outcome, att' = Finalized(k, outcome)
    PROVE  AttemptsFinal
<1>1. CASE att[k].state \in Unfinished
  <2>1. ASSUME NEW i \in Jobs \X Nums, att[i].state = "FINISHED"
        PROVE  att'[i] = att[i]
    <3>1. i # k
      BY <1>1, <2>1 DEF Unfinished
    <3>2. QED
      BY <1>1, <3>1 DEF Finalized, IInv, Fits, TypeOK
  <2>2. QED
    BY <2>1 DEF AttemptsFinal
<1>2. CASE att[k].state \notin Unfinished
  BY <1>2, AttemptsLeft DEF Finalized
<1>3. QED
  BY <1>1, <1>2

LEMMA AskIsFinal ==
    ASSUME IInv, Ask
    PROVE  Final
<1>1. ASSUME NEW r \in Rows, NEW forced \in BOOLEAN, ScheduleEnrichment(r, forced)
      PROVE  Final
  <2>1. r \in Nat /\ \A s \in Rows : s # r => row'[s] = row[s]
    BY <1>1 DEF ScheduleEnrichment, IInv, Fits, TypeOK, Rows
  <2>2. RowsFinal
    BY <1>1, <2>1, OpenRowWritten DEF ScheduleEnrichment
  <2>3. QED
    BY <1>1, <2>2, JobsLeft, AttemptsLeft DEF ScheduleEnrichment, Final
<1>2. ASSUME NEW r \in Rows, AnswerExpires(r)
      PROVE  Final
  <2>1. RowsFinal
    BY <1>2 DEF AnswerExpires, RowsFinal, IInv, Fits, TypeOK, Row
  <2>2. QED
    BY <1>2, <2>1, JobsLeft, AttemptsLeft DEF AnswerExpires, Final
<1>3. ASSUME NEW j \in Jobs, NEW r \in Rows, CreateDelegatedJob(j, r)
      PROVE  Final
  <2>1. "ABSENT" \notin Verdicts
    BY DEF Verdicts, IocStatusToJobState, Refusals
  <2>2. JobsFinal
    BY <1>3, <2>1 DEF CreateDelegatedJob, JobsFinal, IInv, Fits, TypeOK
  <2>3. QED
    BY <1>3, <2>2, RowsLeft, AttemptsLeft DEF CreateDelegatedJob, Final
<1>4. QED
  BY <1>1, <1>2, <1>3 DEF Ask

LEMMA TargetedStepIsFinal ==
    ASSUME IInv, NEW w \in Workers, TargetedStep(w)
    PROVE  Final
<1>1. CASE \/ \E j \in Jobs : ListTargetedCandidate(w, j)
           \/ RefuseBeforeLookup(w) \/ StartTargetedLookup(w)
           \/ TargetedLookupReturns(w) \/ TargetedLookupFails(w) \/ BuryFails(w)
  BY <1>1, RowsLeft, JobsLeft, AttemptsLeft
  DEF Final, ListTargetedCandidate, RefuseBeforeLookup, StartTargetedLookup,
      TargetedLookupReturns, TargetedLookupFails, BuryFails
<1>2. CASE ClaimTargeted(w)
  <2>1. RowsFinal
    <3>1. wk[w].row \in Nat
      BY DEF IInv, Fits, TypeOK, Process
    <3>2. \A r \in Rows : r # wk[w].row => row'[r] = row[r]
      BY <1>2 DEF ClaimTargeted, UpdateRowIf, IInv, Fits, TypeOK
    <3>3. row[wk[w].row].status \in {"ABSENT", "PENDING"} \/ row' = row
      BY <1>2 DEF ClaimTargeted, UpdateRowIf, Owns, Claimable
    <3>4. QED
      BY <3>1, <3>2, <3>3, OpenRowWritten
  <2>2. QED
    BY <1>2, <2>1, JobsLeft, AttemptsLeft DEF ClaimTargeted, Final
<1>3. CASE ReserveTargeted(w) \/ ReserveUnheard(w)
  <2>1. AttemptsFinal
    BY <1>3 DEF ReserveTargeted, ReserveUnheard, AttemptsFinal, IInv, Fits, TypeOK
  <2>2. QED
    BY <1>3, <2>1, RowsLeft, JobsLeft DEF ReserveTargeted, ReserveUnheard, Final
<1>4. CASE Contact(w) \/ ContactUnheard(w)
  <2>1. RowsFinal
    <3>1. wk[w].row \in Nat
      BY DEF IInv, Fits, TypeOK, Process
    <3>2. \A r \in Rows : r # wk[w].row => row'[r] = row[r]
      BY <1>4 DEF Contact, ContactUnheard, UpdateRowIf, IInv, Fits, TypeOK
    <3>3. row[wk[w].row].status \in {"ABSENT", "PENDING"} \/ row' = row
      BY <1>4 DEF Contact, ContactUnheard, UpdateRowIf, Owns, Claimable
    <3>4. QED
      BY <3>1, <3>2, <3>3, OpenRowWritten
  <2>2. AttemptsFinal
    <3> DEFINE k0 == <<wk[w].job, wk[w].n>>
    <3>1. ASSUME NEW k \in Jobs \X Nums, att[k].state = "FINISHED"
          PROVE  att'[k] = att[k]
      <4>1. k # k0 \/ att' = att
        BY <1>4, <3>1 DEF Contact, ContactUnheard
      <4>2. k # k0 => att'[k] = att[k]
        BY <1>4 DEF Contact, ContactUnheard, IInv, Fits, TypeOK
      <4>3. QED
        BY <4>1, <4>2
    <3>2. QED
      BY <3>1 DEF AttemptsFinal
  <2>3. QED
    BY <1>4, <2>1, <2>2, JobsLeft DEF Contact, ContactUnheard, Final
<1>5. CASE ReleaseAndReturn(w)
  <2>1. RowsFinal
    <3>1. wk[w].row \in Nat
      BY DEF IInv, Fits, TypeOK, Process
    <3>2. \A r \in Rows : r # wk[w].row => row'[r] = row[r]
      BY <1>5 DEF ReleaseAndReturn, UpdateRowIf, IInv, Fits, TypeOK
    <3>3. row[wk[w].row].status \in {"ABSENT", "PENDING"} \/ row' = row
      BY <1>5 DEF ReleaseAndReturn, UpdateRowIf, Owns, Claimable
    <3>4. QED
      BY <3>1, <3>2, <3>3, OpenRowWritten
  <2>2. QED
    BY <1>5, <2>1, JobsLeft, AttemptsLeft DEF ReleaseAndReturn, Final
<1>6. CASE CompleteTargeted(w) \/ CompletionUnheard(w)
  <2>1. RowsFinal
    <3>1. wk[w].row \in Nat
      BY DEF IInv, Fits, TypeOK, Process
    <3>2. \A r \in Rows : r # wk[w].row => row'[r] = row[r]
      BY <1>6 DEF CompleteTargeted, CompletionUnheard, UpdateRowIf, IInv, Fits, TypeOK
    <3>3. row[wk[w].row].status \in {"ABSENT", "PENDING"} \/ row' = row
      BY <1>6 DEF CompleteTargeted, CompletionUnheard, UpdateRowIf, Owns, Claimable
    <3>4. QED
      BY <3>1, <3>2, <3>3, OpenRowWritten
  <2>2. QED
    BY <1>6, <2>1, JobsLeft, AttemptsLeft DEF CompleteTargeted, CompletionUnheard, Final
<1>7. CASE BuryRow(w)
  <2>1. RowsFinal
    <3>1. wk[w].row \in Nat
      BY DEF IInv, Fits, TypeOK, Process
    <3>2. \A r \in Rows : r # wk[w].row => row'[r] = row[r]
      BY <1>7 DEF BuryRow, UpdateRowIf, IInv, Fits, TypeOK
    <3>3. row[wk[w].row].status \in {"ABSENT", "PENDING"} \/ row' = row
      BY <1>7 DEF BuryRow, UpdateRowIf, Owns, Claimable
    <3>4. QED
      BY <3>1, <3>2, <3>3, OpenRowWritten
  <2>2. QED
    BY <1>7, <2>1, JobsLeft, AttemptsLeft DEF BuryRow, Final
<1>8. CASE FinalizeCompleted(w) \/ FinalizeAbandoned(w)
  BY <1>8, RowsLeft, JobsLeft, OpenAttemptFinalized DEF FinalizeCompleted, FinalizeAbandoned, Final
<1>9. CASE SettleJob(w)
  BY <1>9, RowsLeft, WaitingJobSettled, AttemptsLeft DEF SettleJob, Final
<1>10. QED
  BY <1>1, <1>2, <1>3, <1>4, <1>5, <1>6, <1>7, <1>8, <1>9 DEF TargetedStep

LEMMA RecoveryStepIsFinal ==
    ASSUME IInv, NEW w \in Workers, RecoveryStep(w)
    PROVE  Final
<1>1. ASSUME NEW j \in Jobs, ReconcileDelegatedJob(w, j)
      PROVE  Final
  BY <1>1, RowsLeft, WaitingJobSettled, AttemptsLeft DEF ReconcileDelegatedJob, Final
<1>2. ASSUME NEW j \in Jobs, NEW n \in Nums, SweepRead(w, j, n)
      PROVE  Final
  BY <1>2, RowsLeft, JobsLeft, AttemptsLeft DEF SweepRead, Final
<1>3. CASE SweepWrite(w)
  <2>1. JobsFinal
    BY <1>3, WaitingJobSettled, JobsLeft DEF SweepWrite
  <2>2. AttemptsFinal
    BY <1>3, OpenAttemptFinalized DEF SweepWrite
  <2>3. QED
    BY <1>3, <2>1, <2>2, RowsLeft DEF SweepWrite, Final
<1>4. CASE RetireHeldRow(w)
  <2>1. RowsFinal
    <3>1. wk[w].row \in Nat
      BY DEF IInv, Fits, TypeOK, Process
    <3>2. \A r \in Rows : r # wk[w].row => row'[r] = row[r]
      BY <1>4 DEF RetireHeldRow, UpdateRowIf, IInv, Fits, TypeOK
    <3>3. row[wk[w].row].status \in {"ABSENT", "PENDING"} \/ row' = row
      BY <1>4 DEF RetireHeldRow, UpdateRowIf, Owns, Claimable
    <3>4. QED
      BY <3>1, <3>2, <3>3, OpenRowWritten
  <2>2. QED
    BY <1>4, <2>1, JobsLeft, AttemptsLeft DEF RetireHeldRow, Final
<1>5. QED
  BY <1>1, <1>2, <1>3, <1>4 DEF RecoveryStep

LEMMA BatchStepIsFinal ==
    ASSUME IInv, NEW b \in Batches, BatchStep(b)
    PROVE  Final
<1>1. JobsFinal /\ AttemptsFinal
  BY JobsLeft, AttemptsLeft
  DEF BatchStep, ListPendingCandidate, SweepExhausted, BatchClaim, BatchCancelled, BatchLookup,
      BatchLookupReturns, BatchComplete, BatchRetryOrBury
<1>2. ASSUME \/ \E r \in Rows : ListPendingCandidate(b, r)
             \/ BatchLookup(b) \/ BatchLookupReturns(b)
      PROVE  RowsFinal
  BY <1>2, RowsLeft DEF ListPendingCandidate, BatchLookup, BatchLookupReturns
<1>3. ASSUME SweepExhausted(b) PROVE RowsFinal
  <2>1. bt[b].row \in Nat
    BY DEF IInv, Fits, TypeOK, Process
  <2>2. \A r \in Rows : r # bt[b].row => row'[r] = row[r]
    BY <1>3 DEF SweepExhausted, UpdateRowIf, IInv, Fits, TypeOK
  <2>3. row[bt[b].row].status \in {"ABSENT", "PENDING"} \/ row' = row
    BY <1>3 DEF SweepExhausted, UpdateRowIf, Owns, Claimable
  <2>4. QED
    BY <2>1, <2>2, <2>3, OpenRowWritten
<1>4. ASSUME BatchClaim(b) PROVE RowsFinal
  <2>1. bt[b].row \in Nat
    BY DEF IInv, Fits, TypeOK, Process
  <2>2. \A r \in Rows : r # bt[b].row => row'[r] = row[r]
    BY <1>4 DEF BatchClaim, UpdateRowIf, IInv, Fits, TypeOK
  <2>3. row[bt[b].row].status \in {"ABSENT", "PENDING"} \/ row' = row
    BY <1>4 DEF BatchClaim, UpdateRowIf, Owns, Claimable
  <2>4. QED
    BY <2>1, <2>2, <2>3, OpenRowWritten
<1>5. ASSUME BatchCancelled(b) PROVE RowsFinal
  <2>1. bt[b].row \in Nat
    BY DEF IInv, Fits, TypeOK, Process
  <2>2. \A r \in Rows : r # bt[b].row => row'[r] = row[r]
    BY <1>5 DEF BatchCancelled, UpdateRowIf, IInv, Fits, TypeOK
  <2>3. row[bt[b].row].status \in {"ABSENT", "PENDING"} \/ row' = row
    BY <1>5 DEF BatchCancelled, UpdateRowIf, Owns, Claimable
  <2>4. QED
    BY <2>1, <2>2, <2>3, OpenRowWritten
<1>6. ASSUME BatchComplete(b) PROVE RowsFinal
  <2>1. bt[b].row \in Nat
    BY DEF IInv, Fits, TypeOK, Process
  <2>2. \A r \in Rows : r # bt[b].row => row'[r] = row[r]
    BY <1>6 DEF BatchComplete, UpdateRowIf, IInv, Fits, TypeOK
  <2>3. row[bt[b].row].status \in {"ABSENT", "PENDING"} \/ row' = row
    BY <1>6 DEF BatchComplete, UpdateRowIf, Owns, Claimable
  <2>4. QED
    BY <2>1, <2>2, <2>3, OpenRowWritten
<1>7. ASSUME BatchRetryOrBury(b) PROVE RowsFinal
  <2>1. bt[b].row \in Nat
    BY DEF IInv, Fits, TypeOK, Process
  <2>2. \A r \in Rows : r # bt[b].row => row'[r] = row[r]
    BY <1>7 DEF BatchRetryOrBury, UpdateRowIf, IInv, Fits, TypeOK
  <2>3. row[bt[b].row].status \in {"ABSENT", "PENDING"} \/ row' = row
    BY <1>7 DEF BatchRetryOrBury, UpdateRowIf, Owns, Claimable
  <2>4. QED
    BY <2>1, <2>2, <2>3, OpenRowWritten
<1>8. RowsFinal
  BY <1>2, <1>3, <1>4, <1>5, <1>6, <1>7 DEF BatchStep
<1>9. QED
  BY <1>1, <1>8 DEF Final

LEMMA StepIsFinal ==
    ASSUME IInv, Next
    PROVE  Final
<1>1. CASE \/ \E w \in Workers : WorkerCrash(w)
           \/ \E b \in Batches : BatchCrash(b)
           \/ Tick
  BY <1>1, RowsLeft, JobsLeft, AttemptsLeft DEF WorkerCrash, BatchCrash, Tick, Final
<1>2. QED
  BY <1>1, AskIsFinal, TargetedStepIsFinal, RecoveryStepIsFinal, BatchStepIsFinal DEF Next

-----------------------------------------------------------------------------
(* Theorems.                                                               *)

LEMMA Invariance == Spec => []IInv
<1>1. Init => IInv
  BY Params, InitHolds
<1>2. IInv /\ [Next]_vars => IInv'
  BY Params, NextHolds
<1>3. QED
  BY <1>1, <1>2, PTL DEF Spec

\* Rows, jobs, attempts and processes keep to their columns, however the two paths interleave:
\* no attempt is given back that was not spent, and no claim exceeds its bound.
THEOREM TypeCorrect == Spec => []TypeOK
<1>1. IInv => TypeOK
  BY DEF IInv, Fits
<1>2. QED
  BY <1>1, Invariance, PTL

\* Nobody calls about a row with a later claim than that of a charged call: the contact holds
\* the row beyond every lease, and only the row's settlement ends the hold.
THEOREM NoClaimAfterContact == Spec => []ContactIsTheLastClaim
<1>1. IInv => ContactIsTheLastClaim
  <2> SUFFICES ASSUME IInv, NEW c \in calls, NEW d \in calls, c.row = d.row, c.by = "targeted"
               PROVE  d.claim <= c.claim
    BY DEF ContactIsTheLastClaim
  <2>1. CallFit(c) /\ CallFit(d)
    BY DEF IInv, Fits, CallsFit
  <2>2. QED
    BY <2>1 DEF CallFit, Held
<1>2. QED
  BY <1>1, Invariance, PTL

\* Settled rows, settled jobs and finished attempts are never written again.
THEOREM HistoryStands == Spec => HistoryIsFinal
<1> DEFINE Kept == /\ \A r \in Rows : Settled(r) => /\ row'[r].status = row[r].status
                                                    /\ row'[r].attemptCount = row[r].attemptCount
                   /\ \A j \in Jobs : job[j].state \in Verdicts => job'[j] = job[j]
                   /\ \A k \in Jobs \X Nums : att[k].state = "FINISHED" => att'[k] = att[k]
<1>1. IInv /\ [Next]_vars => [Kept]_vars
  BY StepIsFinal DEF Final, RowsFinal, JobsFinal, AttemptsFinal
<1>2. QED
  BY <1>1, Invariance, PTL DEF Spec, HistoryIsFinal

-----------------------------------------------------------------------------
(* A job says what its delegate says.                                      *)

\* The delegate is the row of the job that the process works for.
Linked(x) == x.pc # "idle" => x.row = job[x.job].iocEnrichmentId

\* Between its contact and its answer a worker is within the bound of a lookup, so that
\* nobody takes its attempt for stale.
Asking == {"contacted", "calling", "answered"}

Punctual(x) ==
    LET a == att[<<x.job, x.n>>] IN
    /\ x.pc \in Asking \cup {"reserved"} => a.state # "NONE"
    /\ x.pc = "reserved" => a.startedAt = now
    /\ x.pc \in Asking => a.contactedProvider /\ now <= a.startedAt + LookupMax
    /\ x.pc = "contacted" => a.startedAt = now
    /\ x.pc = "calling" => a.startedAt = x.since

\* A contact that its worker heard of holds the delegate.
Contacted(j, n) == att[<<j, n>>].contactedProvider
Heard(j, n) == Contacted(j, n) /\ j \notin unheard

\* While a worker asks, no other contact that was heard of is of its row.
Alone(x) ==
    x.pc \in Asking =>
        \A j \in Jobs, n \in Nums :
            Heard(j, n) /\ job[j].iocEnrichmentId = x.row => j = x.job /\ n = x.n

\* A row of a contact stays held until it is settled, and only who made the contact
\* can settle it with an answer.  A hold that is about to be dropped does not count.
HeldRow(r) == Held(r, row[r].claims) /\ ~Dropping(r, row[r].claims)

Answerless(r) ==
    /\ HeldRow(r) /\ row[r].status \notin Answers
    /\ Settled(r) \/ \A w \in Workers : wk[w].pc \in Asking => wk[w].row # r

\* What a worker has found out of its delegate is so.
Doubts(x) ==
    \/ x.pc \in {"failed", "buried"}
    \/ x.pc = "settling" /\ x.seen = "DEAD_LETTER"
    \/ x.pc = "sweeping" /\ x.seen = "contacted"

Informed(x) ==
    /\ x.pc \in Asking => row[x.row].status \notin Answers
    /\ Doubts(x) => x.job \in unheard \/ Answerless(x.row)

Tells(x) == Linked(x) /\ Punctual(x) /\ Alone(x) /\ Informed(x)

WorkersTell == \A w \in Workers : Tells(wk[w])

ContactsHold ==
    \A j \in Jobs, n \in Nums :
        Heard(j, n) => att[<<j, n>>].state # "NONE" /\ HeldRow(job[j].iocEnrichmentId)

\* A verdict stands for the answer of the delegate, or for its want of any.
JobTells(j) ==
    LET r == job[j].iocEnrichmentId IN
    /\ job[j].state \in Verdicts \ (Refusals \cup {"DEAD_LETTER"})
          => row[r].status \in Answers /\ job[j].state = IocStatusToJobState[row[r].status]
    /\ job[j].state = "DEAD_LETTER" => j \in unheard \/ Answerless(r)

AgreesInv ==
    /\ WorkersTell
    /\ ContactsHold
    /\ \A j \in Jobs : JobTells(j)


\* Who stores an answer of row r in this step: the owner of its claim, or of a batch.
Answering(r) ==
    \/ \E w \in Workers : /\ wk[w].pc = "answered" /\ wk[w].row = r
                          /\ Owns(r, wk[w].token) /\ wk'[w].pc # "answered"
    \/ \E b \in Batches : bt[b].pc = "answered" /\ bt[b].row = r /\ Owns(r, bt[b].token)

\* What a step may do to the rows, the attempts, the jobs and the workers.
RowsMove ==
    /\ RowsFinal
    /\ \A r \in Rows, t \in Claims : Held(r, t) /\ ~Dropping(r, t) => Held(r, t)'
    /\ \A r \in Rows : row[r].status \notin Answers /\ row'[r].status \in Answers => Answering(r)

AttemptsMove ==
    \A k \in Jobs \X Nums : att[k].state # "NONE" =>
        /\ att'[k].state # "NONE"
        /\ att'[k].startedAt = att[k].startedAt
        /\ att[k].contactedProvider => att'[k].contactedProvider

\* No contact is made that its worker hears of.
NoContact ==
    \A j \in Jobs, n \in Nums :
        att'[<<j, n>>].contactedProvider => att[<<j, n>>].contactedProvider \/ j \in unheard'

JobMoves(j) ==
    LET r == job[j].iocEnrichmentId IN
    \/ job'[j].state = job[j].state
    \/ job'[j].state \in Refusals \cup {"WAITING_ON_DELEGATE"}
    \/ job[j].state # "ABSENT" /\ job'[j].state = "DEAD_LETTER" /\ (j \in unheard \/ Answerless(r))
    \/ /\ job[j].state # "ABSENT" /\ Settled(r)
       /\ job'[j].state = IocStatusToJobState[row[r].status]

JobsMove ==
    \A j \in Jobs :
        /\ job[j].state # "ABSENT" => job'[j].iocEnrichmentId = job[j].iocEnrichmentId
        /\ JobMoves(j)

WorkersMove ==
    \A w \in Workers :
        /\ wk'[w].pc \in Asking =>
             /\ wk'[w].row = wk[w].row
             /\ \/ wk[w].pc \in Asking
                \/ wk[w].pc = "reserved" /\ Owns(wk[w].row, wk[w].token)
        /\ wk'[w].pc = "releasing" =>
             /\ wk'[w].row = wk[w].row /\ wk'[w].token = wk[w].token
             /\ wk[w].pc = "releasing" \/ Unheld(wk[w].row, wk[w].token)

\* The claim of a held row is not one that was never used for a contact.
LEMMA HeldIsNotOwned ==
    ASSUME IInv, NEW r \in Rows, HeldRow(r), NEW token, Unheld(r, token)
    PROVE  ~Owns(r, token)
  BY DEF HeldRow, Held, Owns, Unheld, Settled, Answers

\* What is held stays so.
LEMMA HeldStays ==
    ASSUME IInv, RowsMove, WorkersMove, NEW r \in Rows, HeldRow(r)
    PROVE  HeldRow(r)'
<1>1. PICK t \in Claims : t = row[r].claims
  BY DEF IInv, Fits, TypeOK, Row
<1>2. Held(r, t) /\ ~Dropping(r, t)
  BY <1>1 DEF HeldRow
<1>3. Held(r, t)' /\ t = row'[r].claims
  <2>1. Held(r, t)'
    BY <1>2 DEF RowsMove
  <2>2. QED
    BY <2>1 DEF Held
<1>4. ~Dropping(r, t)'
  <2> SUFFICES ASSUME Owns(r, t)', NEW w \in Workers, wk'[w].pc = "releasing",
                      wk'[w].row = r, wk'[w].token = t
               PROVE  FALSE
    BY DEF Dropping
  <2>1. ~Settled(r)
    <3>1. row'[r].status = "PENDING"
      BY DEF Owns
    <3>2. QED
      BY <3>1 DEF RowsMove, RowsFinal, Settled, Answers
  <2>2. Owns(r, t)
    BY <1>2, <2>1 DEF Held, Owns
  <2>3. /\ wk[w].row = r /\ wk[w].token = t
        /\ wk[w].pc = "releasing" \/ Unheld(r, t)
    BY DEF WorkersMove
  <2>4. ~Unheld(r, t)
    BY <2>2, HeldIsNotOwned
  <2>5. Dropping(r, t)
    BY <2>2, <2>3, <2>4 DEF Dropping
  <2>6. QED
    BY <1>2, <2>5
<1>5. QED
  BY <1>3, <1>4 DEF HeldRow

\* A worker that has asked holds its row, and nobody else asks about it.
LEMMA AskersHold ==
    ASSUME IInv, NEW w \in Workers, NEW x, x = wk[w], x.pc \in Asking \cup {"failed"}
    PROVE  /\ x.row \in Rows /\ x.job \in Jobs /\ x.n \in Nums
           /\ HeldRow(x.row) /\ x.token = row[x.row].claims
           /\ \A v \in Workers : v # w /\ wk[v].pc \in Asking \cup {"failed"}
                                     => wk[v].row # x.row
<1>1. x \in Process /\ WorkerFit(x)
  BY WorkerHas
<1>2. x.row \in Rows /\ x.job \in Jobs /\ x.n \in Nums /\ x.token > 0 /\ Held(x.row, x.token)
  BY <1>1 DEF WorkerFit, Asking, Owning
<1>3. x.token = row[x.row].claims
  BY <1>2 DEF Held
<1>4. ASSUME NEW v \in Workers, v # w, wk[v].row = x.row, wk[v].token = x.token
      PROVE  FALSE
  <2>1. Apart(wk[v], wk[w])
    BY <1>4 DEF IInv, Fits, ClaimsDiffer
  <2>2. QED
    BY <1>1, <1>2, <1>4, <2>1 DEF Apart, Process, Claims
<1>5. ~Dropping(x.row, x.token)
  BY <1>4 DEF Dropping, Asking
<1>6. ASSUME NEW v \in Workers, v # w, wk[v].pc \in Asking \cup {"failed"}, wk[v].row = x.row
      PROVE  FALSE
  <2>1. Held(wk[v].row, wk[v].token)
    BY <1>6, WorkerHas DEF WorkerFit, Asking
  <2>2. wk[v].token = x.token
    BY <1>3, <1>6, <2>1 DEF Held
  <2>3. QED
    BY <1>4, <1>6, <2>2
<1>7. QED
  BY <1>2, <1>3, <1>5, <1>6 DEF HeldRow

\* Only the worker that made the contact of an open row can answer it.
LEMMA OnlyTheAskerAnswers ==
    ASSUME IInv, NEW r \in Rows, HeldRow(r), Answering(r)
    PROVE  \E w \in Workers : /\ wk[w].pc = "answered" /\ wk[w].row = r
                              /\ wk[w].token = row[r].claims /\ wk'[w].pc # "answered"
<1>1. ASSUME NEW b \in Batches, bt[b].pc = "answered", bt[b].row = r, Owns(r, bt[b].token)
      PROVE  FALSE
  <2>1. Unheld(r, bt[b].token)
    BY <1>1, BatchHas DEF BatchFit
  <2>2. QED
    BY <1>1, <2>1, HeldIsNotOwned
<1>2. PICK w \in Workers : /\ wk[w].pc = "answered" /\ wk[w].row = r
                           /\ Owns(r, wk[w].token) /\ wk'[w].pc # "answered"
  BY <1>1 DEF Answering
<1>3. Held(r, wk[w].token)
  BY <1>2, WorkerHas DEF WorkerFit
<1>4. QED
  BY <1>2, <1>3 DEF Held

LEMMA SettledStays ==
    ASSUME RowsMove, NEW r \in Rows, Settled(r)
    PROVE  Settled(r)' /\ row'[r].status = row[r].status
  BY DEF RowsMove, RowsFinal, Settled

\* A held row without an answer gets none once nobody is asking about it.
LEMMA AnswerlessStays ==
    ASSUME IInv, RowsMove, WorkersMove, NEW r \in Rows, Answerless(r)
    PROVE  Answerless(r)'
<1>1. HeldRow(r)' /\ HeldRow(r)
  BY HeldStays DEF Answerless
<1>2. CASE Settled(r)
  BY <1>1, <1>2, SettledStays DEF Answerless
<1>3. CASE ~Settled(r)
  <2>1. \A w \in Workers : wk[w].pc \in Asking => wk[w].row # r
    BY <1>3 DEF Answerless
  <2>2. ~Answering(r)
    BY <1>1, <2>1, OnlyTheAskerAnswers DEF Asking
  <2>3. row'[r].status \notin Answers
    BY <2>2 DEF RowsMove, Answerless
  <2>4. ASSUME NEW w \in Workers, wk'[w].pc \in Asking, wk'[w].row = r
        PROVE  FALSE
    <3>1. wk[w].row = r
      BY <2>4 DEF WorkersMove
    <3>2. wk[w].pc = "reserved" /\ Owns(r, wk[w].token)
      BY <2>1, <2>4, <3>1 DEF WorkersMove
    <3>3. Unheld(r, wk[w].token)
      BY <3>1, <3>2, WorkerHas DEF WorkerFit
    <3>4. QED
      BY <1>1, <3>2, <3>3, HeldIsNotOwned
  <2>5. QED
    BY <1>1, <2>3, <2>4 DEF Answerless
<1>4. QED
  BY <1>2, <1>3

\* Nobody else answers for a worker that asks.
LEMMA UnansweredStays ==
    ASSUME IInv, RowsMove, NEW w \in Workers, NEW x, x = wk[w], x.pc \in Asking,
           x.pc = "answered" => wk'[w].pc = "answered", row[x.row].status \notin Answers
    PROVE  row'[x.row].status \notin Answers
<1>1. PICK r \in Rows : r = x.row /\ HeldRow(r)
  BY AskersHold
<1>2. ASSUME Answering(r)
      PROVE  FALSE
  <2>1. PICK v \in Workers : /\ wk[v].pc = "answered" /\ wk[v].row = r
                             /\ wk'[v].pc # "answered"
    BY <1>1, <1>2, OnlyTheAskerAnswers
  <2>2. v # w
    BY <2>1
  <2>3. QED
    BY <1>1, <2>1, <2>2, AskersHold DEF Asking
<1>3. QED
  BY <1>1, <1>2 DEF RowsMove

\* A worker that has asked and does so no more leaves a row that nobody asks about.
LEMMA AskerLeaves ==
    ASSUME IInv, RowsMove, WorkersMove, NEW w \in Workers, NEW x, x = wk[w],
           x.pc \in Asking \cup {"failed"}, wk'[w].pc \notin Asking,
           \A v \in Workers : v # w => wk'[v] = wk[v],
           row'[x.row].status \notin Answers
    PROVE  Answerless(x.row)'
<1>1. x.row \in Rows /\ HeldRow(x.row)'
  BY AskersHold, HeldStays
<1>2. ASSUME NEW v \in Workers, wk'[v].pc \in Asking, wk'[v].row = x.row
      PROVE  FALSE
  <2>1. v # w /\ wk[v].pc \in Asking /\ wk[v].row = x.row
    BY <1>2
  <2>2. QED
    BY <2>1, AskersHold
<1>3. QED
  BY <1>1, <1>2 DEF Answerless

\* A worker that still asks of the same row, for the same attempt, is still alone.
LEMMA AloneStays ==
    ASSUME IInv, AgreesInv, JobsMove, NoContact, unheard \subseteq unheard',
           NEW w \in Workers, NEW z, z = wk[w],
           NEW x, x.pc \in Asking => z.pc \in Asking, x.row = z.row, x.job = z.job, x.n = z.n
    PROVE  Alone(x)'
<1> SUFFICES ASSUME x.pc \in Asking, NEW j \in Jobs, NEW n \in Nums,
                    Heard(j, n)', job'[j].iocEnrichmentId = x.row
             PROVE  j = x.job /\ n = x.n
  BY DEF Alone
<1>1. Heard(j, n)
  BY DEF Heard, Contacted, NoContact
<1>2. job[j].state # "ABSENT"
  BY <1>1 DEF AgreesInv, ContactsHold, IInv, Fits, LedgersFit
<1>3. job[j].iocEnrichmentId = z.row
  BY <1>2 DEF JobsMove
<1>4. Alone(z)
  BY DEF AgreesInv, WorkersTell, Tells
<1>5. QED
  BY <1>1, <1>3, <1>4 DEF Alone

\* A worker that does not move tells what it told.
LEMMA TellsStands ==
    ASSUME IInv, AgreesInv, RowsMove, WorkersMove, AttemptsMove, JobsMove, NoContact,
           now' = now, unheard \subseteq unheard',
           NEW w \in Workers, NEW x, x = wk[w], wk'[w] = x
    PROVE  Tells(x)'
<1>1. x \in Process /\ WorkerFit(x) /\ Linked(x) /\ Punctual(x) /\ Informed(x)
  BY WorkerHas DEF AgreesInv, WorkersTell, Tells
<1>2. Linked(x)'
  BY <1>1 DEF Linked, WorkerFit, JobsMove
<1>3. Punctual(x)'
  <2>1. CASE x.pc \in Asking \cup {"reserved"}
    <3>1. PICK j \in Jobs, n \in Nums : j = x.job /\ n = x.n
      BY <1>1, <2>1 DEF WorkerFit, Asking
    <3>2. att[<<j, n>>].state # "NONE"
      BY <1>1, <2>1, <3>1 DEF Punctual
    <3>3. /\ att'[<<j, n>>].state # "NONE"
          /\ att'[<<j, n>>].startedAt = att[<<j, n>>].startedAt
          /\ att[<<j, n>>].contactedProvider => att'[<<j, n>>].contactedProvider
      BY <3>2 DEF AttemptsMove
    <3>4. QED
      BY <1>1, <3>1, <3>3 DEF Punctual
  <2>2. CASE x.pc \notin Asking \cup {"reserved"}
    BY <2>2 DEF Punctual, Asking
  <2>3. QED
    BY <2>1, <2>2
<1>4. Informed(x)'
  <2>1. x.pc # "idle" => x.row \in Rows
    BY <1>1 DEF WorkerFit
  <2>2. x.pc \in Asking => row'[x.row].status \notin Answers
    BY <1>1, UnansweredStays DEF Informed
  <2>3. Doubts(x) => x.job \in unheard \/ Answerless(x.row)
    BY <1>1 DEF Informed
  <2>4. Doubts(x) => x.pc # "idle"
    BY DEF Doubts
  <2>5. Doubts(x) => x.job \in unheard' \/ Answerless(x.row)'
    BY <2>1, <2>3, <2>4, AnswerlessStays
  <2>6. QED
    BY <2>2, <2>5 DEF Informed, Doubts
<1>5. Alone(x)'
  BY AloneStays
<1>6. QED
  BY <1>2, <1>3, <1>4, <1>5 DEF Tells

\* Where no contact is made, those that were made still hold their delegates.
LEMMA ContactsStand ==
    ASSUME IInv, AgreesInv, RowsMove, WorkersMove, AttemptsMove, JobsMove, NoContact,
           unheard \subseteq unheard'
    PROVE  ContactsHold'
<1> SUFFICES ASSUME NEW j \in Jobs, NEW n \in Nums, Heard(j, n)'
             PROVE  att'[<<j, n>>].state # "NONE" /\ HeldRow(job[j].iocEnrichmentId)'
  BY DEF ContactsHold
<1>1. Heard(j, n)
  BY DEF Heard, Contacted, NoContact
<1>2. att[<<j, n>>].state # "NONE" /\ HeldRow(job[j].iocEnrichmentId)
  BY <1>1 DEF AgreesInv, ContactsHold
<1>3. job[j].state # "ABSENT"
  BY <1>2 DEF IInv, Fits, LedgersFit
<1>4. PICK r \in Rows : r = job[j].iocEnrichmentId
  BY <1>3 DEF IInv, Fits, LedgersFit
<1>5. job'[j].iocEnrichmentId = r
  BY <1>3, <1>4 DEF JobsMove
<1>6. HeldRow(r)'
  BY <1>2, <1>4, HeldStays
<1>7. att'[<<j, n>>].state # "NONE"
  BY <1>2 DEF AttemptsMove
<1>8. HeldRow(job[j].iocEnrichmentId)'
  BY <1>5, <1>6 DEF HeldRow, Held, Dropping, Owns, Settled
<1>9. QED
  BY <1>7, <1>8

LEMMA JobVerdicts ==
    /\ IocStatusToJobState["DEAD_LETTER"] = "DEAD_LETTER"
    /\ \A s \in Answers : IocStatusToJobState[s] # "DEAD_LETTER"
    /\ "DEAD_LETTER" \notin Answers
    /\ "WAITING_ON_DELEGATE" \notin Verdicts /\ "ABSENT" \notin Verdicts
  BY DEF IocStatusToJobState, Answers, Verdicts, Refusals

LEMMA JobsTell ==
    ASSUME IInv, AgreesInv, RowsMove, WorkersMove, JobsMove, unheard \subseteq unheard',
           NEW j \in Jobs
    PROVE  JobTells(j)'
<1>1. JobTells(j) /\ JobMoves(j)
  BY DEF AgreesInv, JobsMove
<1>2. CASE job[j].state = "ABSENT"
  <2>1. job'[j].state \in Refusals \cup {"WAITING_ON_DELEGATE", "ABSENT"}
    BY <1>1, <1>2 DEF JobMoves
  <2>2. QED
    BY <2>1, JobVerdicts DEF JobTells, Refusals
<1>3. CASE job[j].state # "ABSENT"
  <2>1. PICK r \in Rows : r = job[j].iocEnrichmentId
    BY <1>3 DEF IInv, Fits, LedgersFit
  <2>2. job'[j].iocEnrichmentId = r
    BY <1>3, <2>1 DEF JobsMove
  <2>3. CASE job'[j].state = job[j].state
    <3>1. job[j].state = "DEAD_LETTER" => j \in unheard' \/ Answerless(r)'
      BY <1>1, <2>1, AnswerlessStays DEF JobTells
    <3>2. job[j].state \in Verdicts \ (Refusals \cup {"DEAD_LETTER"})
            => row'[r].status \in Answers /\ job[j].state = IocStatusToJobState[row'[r].status]
      BY <1>1, <2>1, SettledStays DEF JobTells, Settled
    <3>3. QED
      BY <2>2, <2>3, <3>1, <3>2 DEF JobTells
  <2>4. CASE job'[j].state \in Refusals \cup {"WAITING_ON_DELEGATE"}
    BY <2>4, JobVerdicts DEF JobTells, Refusals
  <2>5. CASE job'[j].state = "DEAD_LETTER" /\ (j \in unheard \/ Answerless(r))
    <3>1. j \in unheard' \/ Answerless(r)'
      BY <2>5, AnswerlessStays
    <3>2. QED
      BY <2>2, <2>5, <3>1 DEF JobTells
  <2>6. CASE Settled(r) /\ job'[j].state = IocStatusToJobState[row[r].status]
    <3>1. Settled(r)' /\ row'[r].status = row[r].status
      BY <2>6, SettledStays
    <3>2. row[r].status = "DEAD_LETTER" => Answerless(r)'
      BY <3>1, JobVerdicts DEF Answerless, HeldRow, Held, Settled, Dropping, Owns, Answers
    <3>3. row[r].status # "DEAD_LETTER" => row[r].status \in Answers
      BY <2>6 DEF Settled
    <3>4. QED
      BY <2>2, <2>6, <3>1, <3>2, <3>3, JobVerdicts DEF JobTells
  <2>7. QED
    BY <1>1, <1>3, <2>1, <2>3, <2>4, <2>5, <2>6 DEF JobMoves
<1>4. QED
  BY <1>2, <1>3

\* At most one worker moves, and no contact is made.
LEMMA AgreesMoves ==
    ASSUME IInv, AgreesInv, RowsMove, WorkersMove, AttemptsMove, JobsMove, NoContact,
           now' = now, unheard \subseteq unheard',
           NEW w, \A v \in Workers : v # w => wk'[v] = wk[v],
           NEW x, w \in Workers => wk'[w] = x /\ Tells(x)'
    PROVE  AgreesInv'
<1>1. ASSUME NEW v \in Workers
      PROVE  Tells(wk[v])'
  <2>1. CASE v = w
    <3>1. wk'[v] = x /\ Tells(x)'
      BY <2>1
    <3>2. QED
      BY <3>1 DEF Tells, Linked, Punctual, Alone, Informed, Doubts
  <2>2. CASE v # w
    <3>1. PICK y : y = wk[v]
      OBVIOUS
    <3>2. Tells(y)' /\ wk'[v] = y
      BY <2>2, <3>1, TellsStands
    <3>3. QED
      BY <3>2 DEF Tells, Linked, Punctual, Alone, Informed, Doubts
  <2>3. QED
    BY <2>1, <2>2
<1>2. WorkersTell'
  BY <1>1 DEF WorkersTell
<1>3. QED
  BY <1>2, ContactsStand, JobsTell DEF AgreesInv

-----------------------------------------------------------------------------
(* Each step is one of those moves.                                        *)

LEMMA RowsMoveBy ==
    ASSUME IInv, RowsKeep, RowsFinal,
           \A r \in Rows : row[r].status \notin Answers /\ row'[r].status \in Answers => Answering(r)
    PROVE  RowsMove
  BY DEF RowsKeep, RowsMove

LEMMA RowsStay ==
    ASSUME IInv, row' = row
    PROVE  RowsMove
  BY RowsUnchanged, RowsLeft, RowsMoveBy

\* A statement on a row that writes no answer of a provider.
LEMMA NoAnswerWritten ==
    ASSUME IInv, RowsKeep, RowsFinal, NEW r, NEW guard, NEW new, UpdateRowIf(guard, r, new),
           new.status \notin Answers \/ new.status = row[r].status
    PROVE  RowsMove
<1>1. \A s \in Rows : row[s].status \notin Answers => row'[s].status \notin Answers
  <2>1. CASE guard
    <3>1. row' = [row EXCEPT ![r] = new]
      BY <2>1 DEF UpdateRowIf
    <3>2. QED
      BY <3>1 DEF IInv, Fits, TypeOK
  <2>2. CASE ~guard
    BY <2>2 DEF UpdateRowIf
  <2>3. QED
    BY <2>1, <2>2
<1>2. QED
  BY <1>1, RowsMoveBy

LEMMA NewStatus ==
    ASSUME IInv, NEW r \in Rows, NEW asOf, NEW status, NEW next, NEW refund
    PROVE  /\ ClaimedRow(r, asOf).status = row[r].status
           /\ ClosedRow(r, status).status = status
           /\ ReleasedRow(r, next, refund).status = row[r].status
<1>1. row[r] \in Row
  BY DEF IInv, Fits, TypeOK
<1>2. QED
  BY <1>1 DEF ClaimedRow, ClosedRow, ReleasedRow, Row

LEMMA AttemptsStay ==
    ASSUME att' = att
    PROVE  AttemptsMove /\ NoContact
  BY DEF AttemptsMove, NoContact

LEMMA JobsStay ==
    ASSUME job' = job
    PROVE  JobsMove
  BY DEF JobsMove, JobMoves

LEMMA AttemptFinalized ==
    ASSUME IInv, NEW k, NEW outcome, att' = Finalized(k, outcome)
    PROVE  AttemptsMove /\ NoContact
<1>1. CASE att[k].state \in Unfinished
  <2>1. att' = [att EXCEPT ![k] = [att[k] EXCEPT !.state = "FINISHED", !.outcome = outcome]]
    BY <1>1 DEF Finalized
  <2>2. ASSUME NEW i \in Jobs \X Nums
        PROVE  /\ att[i].state # "NONE" => att'[i].state # "NONE"
               /\ att'[i].startedAt = att[i].startedAt
               /\ att'[i].contactedProvider = att[i].contactedProvider
    <3>1. att[i] \in Attempt
      BY DEF IInv, Fits, TypeOK
    <3>2. CASE i = k
      BY <2>1, <3>1, <3>2 DEF IInv, Fits, TypeOK, Attempt
    <3>3. CASE i # k
      BY <2>1, <3>3 DEF IInv, Fits, TypeOK
    <3>4. QED
      BY <3>2, <3>3
  <2>3. QED
    BY <2>2 DEF AttemptsMove, NoContact
<1>2. CASE att[k].state \notin Unfinished
  BY <1>2, AttemptsStay DEF Finalized
<1>3. QED
  BY <1>1, <1>2

\* A waiting job is settled for a reason.
LEMMA JobSettledBy ==
    ASSUME IInv, NEW j \in Jobs, NEW state, NEW ambiguous, job' = SettledJob(j, state, ambiguous),
           NEW r, r = job[j].iocEnrichmentId,
           \/ state \in Refusals
           \/ state = "DEAD_LETTER" /\ (j \in unheard \/ Answerless(r))
           \/ Settled(r) /\ state = IocStatusToJobState[row[r].status]
    PROVE  JobsMove
<1>1. CASE job[j].state = "WAITING_ON_DELEGATE"
  <2>1. job' = [job EXCEPT ![j] = [job[j] EXCEPT !.state = state, !.ambiguous = ambiguous]]
    BY <1>1 DEF SettledJob, IInv, Fits, TypeOK
  <2>2. ASSUME NEW i \in Jobs
        PROVE  /\ job'[i].iocEnrichmentId = job[i].iocEnrichmentId
               /\ JobMoves(i)
    <3>1. job[i] \in Job
      BY DEF IInv, Fits, TypeOK
    <3>2. CASE i = j
      <4>1. job'[i].iocEnrichmentId = job[i].iocEnrichmentId /\ job'[i].state = state
        BY <2>1, <3>1, <3>2 DEF IInv, Fits, TypeOK, Job
      <4>2. QED
        BY <1>1, <3>2, <4>1 DEF JobMoves
    <3>3. CASE i # j
      BY <2>1, <3>3 DEF IInv, Fits, TypeOK, JobMoves
    <3>4. QED
      BY <3>2, <3>3
  <2>3. QED
    BY <2>2 DEF JobsMove
<1>2. CASE job[j].state # "WAITING_ON_DELEGATE"
  BY <1>2, JobsStay DEF SettledJob
<1>3. QED
  BY <1>1, <1>2

LEMMA WorkersStay ==
    ASSUME wk' = wk
    PROVE  WorkersMove
  BY DEF WorkersMove

\* A worker becomes x: it asks only if it did.
LEMMA WorkerBecomes ==
    ASSUME IInv, NEW w \in Workers, NEW x, wk' = [wk EXCEPT ![w] = x],
           x.pc \in Asking => /\ x.row = wk[w].row
                              /\ \/ wk[w].pc \in Asking
                                 \/ wk[w].pc = "reserved" /\ Owns(wk[w].row, wk[w].token),
           x.pc = "releasing" => /\ x.row = wk[w].row /\ x.token = wk[w].token
                                 /\ Unheld(wk[w].row, wk[w].token)
    PROVE  /\ WorkersMove
           /\ wk'[w] = x
           /\ \A v \in Workers : v # w => wk'[v] = wk[v]
<1>1. wk'[w] = x /\ \A v \in Workers : v # w => wk'[v] = wk[v]
  BY DEF IInv, Fits, TypeOK
<1>2. QED
  BY <1>1 DEF WorkersMove

LEMMA IdleTells == Tells(Idle)'
  BY DEF Idle, Tells, Linked, Punctual, Alone, Informed, Doubts, Asking

\* A worker goes idle.
LEMMA RestAgrees ==
    ASSUME IInv, AgreesInv, RowsMove, AttemptsMove, JobsMove, NoContact,
           now' = now, unheard \subseteq unheard', NEW w \in Workers, Rest(w)
    PROVE  AgreesInv'
<1>1. wk' = [wk EXCEPT ![w] = Idle] /\ Idle.pc \notin Asking \cup {"releasing"}
  BY DEF Rest, Idle, Asking
<1>2. PICK x : x = Idle
  OBVIOUS
<1>3. /\ WorkersMove /\ wk'[w] = x
      /\ \A v \in Workers : v # w => wk'[v] = wk[v]
  BY <1>1, <1>2, WorkerBecomes
<1>4. Tells(x)'
  BY <1>2, IdleTells
<1>5. QED
  BY <1>3, <1>4, AgreesMoves

\* No worker moves.
LEMMA NobodyAgrees ==
    ASSUME IInv, AgreesInv, RowsMove, AttemptsMove, JobsMove, NoContact,
           now' = now, unheard \subseteq unheard', wk' = wk
    PROVE  AgreesInv'
<1>1. WorkersMove
  BY WorkersStay
<1>2. CASE Workers = {}
  <2>1. 0 \notin Workers
    BY <1>2
  <2>2. QED
    BY <1>1, <1>2, <2>1, AgreesMoves
<1>3. ASSUME NEW w \in Workers
      PROVE  AgreesInv'
  <2>1. PICK x : x = wk[w]
    OBVIOUS
  <2>2. Tells(x)'
    BY <1>1, <2>1, TellsStands
  <2>3. QED
    BY <1>1, <2>1, <2>2, AgreesMoves
<1>4. QED
  BY <1>2, <1>3

\* A worker goes on with the row, the job and the claim it has.
Becomes(w, x, pc, seen, since) ==
    /\ wk' = [wk EXCEPT ![w] = x]
    /\ x.pc = pc /\ x.seen = seen /\ x.since = since
    /\ x.row = wk[w].row /\ x.job = wk[w].job /\ x.n = wk[w].n /\ x.token = wk[w].token

LEMMA Becoming ==
    ASSUME IInv, NEW w \in Workers, NEW pc, NEW seen, NEW since,
           wk' = [wk EXCEPT ![w] = [wk[w] EXCEPT !.pc = pc, !.seen = seen, !.since = since]]
    PROVE  \E x : Becomes(w, x, pc, seen, since)
<1>1. PICK x : x = [wk[w] EXCEPT !.pc = pc, !.seen = seen, !.since = since]
  OBVIOUS
<1>2. wk[w] \in Process
  BY WorkerHas
<1>3. Becomes(w, x, pc, seen, since)
  BY <1>1, <1>2 DEF Becomes, Process
<1>4. QED
  BY <1>3

LEMMA BecomesPc ==
    ASSUME IInv, NEW w \in Workers, NEW pc \in PCs, Work(w, pc)
    PROVE  \E x : Becomes(w, x, pc, wk[w].seen, wk[w].since)
<1>1. wk' = [wk EXCEPT ![w] = [wk[w] EXCEPT !.pc = pc, !.seen = wk[w].seen, !.since = wk[w].since]]
  BY Updates DEF Work
<1>2. QED
  BY <1>1, Becoming

LEMMA BecomesSeen ==
    ASSUME IInv, NEW w \in Workers, NEW pc \in PCs, NEW seen \in Seen,
           wk' = [wk EXCEPT ![w].pc = pc, ![w].seen = seen]
    PROVE  \E x : Becomes(w, x, pc, seen, wk[w].since)
<1>1. wk' = [wk EXCEPT ![w] = [wk[w] EXCEPT !.pc = pc, !.seen = seen, !.since = wk[w].since]]
  <2>1. wk[w] \in Process /\ wk \in [Workers -> Process]
    BY DEF IInv, Fits, TypeOK
  <2>2. [wk[w] EXCEPT !.pc = pc, !.seen = seen] =
          [wk[w] EXCEPT !.pc = pc, !.seen = seen, !.since = wk[w].since]
    BY <2>1 DEF Process
  <2>3. [wk EXCEPT ![w].pc = pc, ![w].seen = seen] =
          [wk EXCEPT ![w] = [wk[w] EXCEPT !.pc = pc, !.seen = seen]]
    BY <2>1
  <2>4. QED
    BY <2>2, <2>3
<1>2. QED
  BY <1>1, Becoming

LEMMA BecomesSince ==
    ASSUME IInv, NEW w \in Workers, NEW pc \in PCs, NEW since \in 0..MaxTime,
           wk' = [wk EXCEPT ![w].pc = pc, ![w].since = since]
    PROVE  \E x : Becomes(w, x, pc, wk[w].seen, since)
<1>1. wk' = [wk EXCEPT ![w] = [wk[w] EXCEPT !.pc = pc, !.seen = wk[w].seen, !.since = since]]
  BY Updates
<1>2. QED
  BY <1>1, Becoming

LEMMA GoesOnAgrees ==
    ASSUME IInv, AgreesInv, RowsMove, AttemptsMove, JobsMove, NoContact,
           now' = now, unheard \subseteq unheard',
           NEW w \in Workers, NEW z, z = wk[w], z.pc # "idle",
           NEW x, NEW pc, NEW seen, NEW since, Becomes(w, x, pc, seen, since),
           x.pc \in Asking => z.pc \in Asking,
           x.pc = "releasing" => Unheld(z.row, z.token),
           Punctual(x)',
           WorkersMove /\ (\A v \in Workers : v # w => wk'[v] = wk[v]) => Informed(x)'
    PROVE  AgreesInv'
<1>1. z \in Process /\ WorkerFit(z) /\ Linked(z)
  BY WorkerHas DEF AgreesInv, WorkersTell, Tells
<1>2. /\ WorkersMove /\ wk'[w] = x
      /\ \A v \in Workers : v # w => wk'[v] = wk[v]
  BY WorkerBecomes DEF Becomes
<1>3. Linked(x)'
  BY <1>1 DEF Linked, WorkerFit, JobsMove, Becomes
<1>4. x.row = z.row /\ x.job = z.job /\ x.n = z.n
  BY DEF Becomes
<1>5. Alone(x)'
  BY <1>4, AloneStays
<1>6. Tells(x)'
  BY <1>2, <1>3, <1>5 DEF Tells
<1>7. QED
  BY <1>2, <1>6, AgreesMoves

-----------------------------------------------------------------------------
(* Asking, action by action.                                               *)

LEMMA AskAgrees ==
    ASSUME IInv, Params, AgreesInv, Ask
    PROVE  AgreesInv'
<1>0. RowsFinal
  BY AskIsFinal DEF Final
<1>1. ASSUME NEW r \in Rows, NEW forced \in BOOLEAN, ScheduleEnrichment(r, forced)
      PROVE  AgreesInv'
  <2>1. RowsKeep
    BY <1>1, RowIsAsked DEF ScheduleEnrichment
  <2>2. \A s \in Rows : row'[s].status \in Answers => row[s].status \in Answers
    <3>1. row' = [row EXCEPT ![r].status = "PENDING"]
      BY <1>1 DEF ScheduleEnrichment
    <3>2. row'[r].status = "PENDING" /\ \A s \in Rows : s # r => row'[s] = row[s]
      BY <3>1 DEF IInv, Fits, TypeOK, Row
    <3>3. QED
      BY <3>2 DEF Answers
  <2>3. RowsMove
    BY <1>0, <2>1, <2>2, RowsMoveBy
  <2>4. QED
    BY <1>1, <2>3, AttemptsStay, JobsStay, NobodyAgrees DEF ScheduleEnrichment
<1>2. ASSUME NEW r \in Rows, AnswerExpires(r)
      PROVE  AgreesInv'
  <2>1. RowsKeep
    BY <1>2, RowIsAsked DEF AnswerExpires
  <2>2. \A s \in Rows : row'[s].status \in Answers => row[s].status \in Answers
    <3>1. row' = [row EXCEPT ![r].fresh = FALSE]
      BY <1>2 DEF AnswerExpires
    <3>2. \A s \in Rows : row'[s].status = row[s].status
      BY <3>1 DEF IInv, Fits, TypeOK, Row
    <3>3. QED
      BY <3>2
  <2>3. RowsMove
    BY <1>0, <2>1, <2>2, RowsMoveBy
  <2>4. QED
    BY <1>2, <2>3, AttemptsStay, JobsStay, NobodyAgrees DEF AnswerExpires
<1>3. ASSUME NEW j \in Jobs, NEW r \in Rows, CreateDelegatedJob(j, r)
      PROVE  AgreesInv'
  <2>1. job[j].state = "ABSENT"
    BY <1>3 DEF CreateDelegatedJob
  <2>2. job' = [job EXCEPT ![j] = [job[j] EXCEPT !.state = "WAITING_ON_DELEGATE",
                                                 !.iocEnrichmentId = r]]
    BY <1>3 DEF CreateDelegatedJob, IInv, Fits, TypeOK
  <2>3. job'[j].state = "WAITING_ON_DELEGATE" /\ \A i \in Jobs : i # j => job'[i] = job[i]
    BY <2>2 DEF IInv, Fits, TypeOK, Job
  <2>4. JobsMove
    BY <2>1, <2>3 DEF JobsMove, JobMoves
  <2>5. QED
    BY <1>3, <2>4, RowsStay, AttemptsStay, NobodyAgrees DEF CreateDelegatedJob
<1>4. QED
  BY <1>1, <1>2, <1>3 DEF Ask

LEMMA ListTargetedCandidateAgrees ==
    ASSUME IInv, AgreesInv, NEW w \in Workers, NEW j \in Jobs, ListTargetedCandidate(w, j)
    PROVE  AgreesInv'
<1>1. PICK x : x = [Idle EXCEPT !.pc = "listed", !.job = j, !.row = job[j].iocEnrichmentId]
  OBVIOUS
<1>2. x.pc = "listed" /\ x.job = j /\ x.row = job[j].iocEnrichmentId
  BY <1>1 DEF Idle
<1>3. wk' = [wk EXCEPT ![w] = x]
  BY <1>1 DEF ListTargetedCandidate
<1>4. /\ WorkersMove /\ wk'[w] = x
      /\ \A v \in Workers : v # w => wk'[v] = wk[v]
  BY <1>2, <1>3, WorkerBecomes DEF Asking
<1>5. Tells(x)'
  BY <1>2 DEF Tells, Linked, Punctual, Alone, Informed, Doubts, Asking, ListTargetedCandidate
<1>6. QED
  BY <1>4, <1>5, RowsStay, AttemptsStay, JobsStay, AgreesMoves DEF ListTargetedCandidate

LEMMA ClaimTargetedAgrees ==
    ASSUME IInv, Params, AgreesInv, NEW w \in Workers, ClaimTargeted(w)
    PROVE  AgreesInv'
<1>1. PICK z \in Process : z = wk[w] /\ WorkerFit(z) /\ Linked(z) /\ z.pc = "listed"
  BY WorkerHas DEF ClaimTargeted, AgreesInv, WorkersTell, Tells
<1>2. PICK r \in Rows : r = z.row
  BY <1>1 DEF WorkerFit
<1>3. RowsFinal
  BY TargetedStepIsFinal DEF Final, TargetedStep
<1>4. CASE Claimable(r, now) /\ row[r].attemptCount < MaxAttempts
  <2>1. PICK t : t = row[r].claims + 1
    OBVIOUS
  <2>2. PICK n : n = row[r].attemptCount + 1
    OBVIOUS
  <2>3. PICK x : x = [z EXCEPT !.pc = "claimed", !.token = t, !.n = n]
    OBVIOUS
  <2>4. row[r].claims < MaxClaims /\ row' = [row EXCEPT ![r] = ClaimedRow(r, now)]
    BY <1>1, <1>2, <1>4 DEF ClaimTargeted
  <2>5. RowsKeep
    BY <1>4, <2>4, RowIsClaimed, CrashesStay
  <2>6. RowsMove
    <3>1. UpdateRowIf(TRUE, r, ClaimedRow(r, now))
      BY <2>4 DEF UpdateRowIf
    <3>2. QED
      BY <1>3, <2>5, <3>1, NewStatus, NoAnswerWritten
  <2>7. x.pc = "claimed" /\ x.row = z.row /\ x.job = z.job
    BY <1>1, <2>3 DEF Process
  <2>8. wk' = [wk EXCEPT ![w] = x]
    BY <1>1, <1>2, <1>4, <2>1, <2>2, <2>3 DEF ClaimTargeted, IInv, Fits, TypeOK
  <2>9. /\ WorkersMove /\ wk'[w] = x
        /\ \A v \in Workers : v # w => wk'[v] = wk[v]
    BY <2>7, <2>8, WorkerBecomes DEF Asking
  <2>10. Tells(x)'
    BY <1>1, <2>7 DEF Tells, Linked, Punctual, Alone, Informed, Doubts, Asking, ClaimTargeted
  <2>11. QED
    BY <2>6, <2>9, <2>10, AttemptsStay, JobsStay, AgreesMoves DEF ClaimTargeted
<1>5. CASE ~(Claimable(r, now) /\ row[r].attemptCount < MaxAttempts)
  <2>1. Rest(w) /\ row' = row
    BY <1>1, <1>2, <1>5 DEF ClaimTargeted
  <2>2. QED
    BY <2>1, RowsStay, AttemptsStay, JobsStay, RestAgrees DEF ClaimTargeted
<1>6. QED
  BY <1>4, <1>5

LEMMA RefuseBeforeLookupAgrees ==
    ASSUME IInv, AgreesInv, NEW w \in Workers, RefuseBeforeLookup(w)
    PROVE  AgreesInv'
<1>1. PICK z \in Process : z = wk[w] /\ WorkerFit(z) /\ z.pc = "claimed"
  BY WorkerHas DEF RefuseBeforeLookup
<1>2. PICK state \in Refusals : wk' = [wk EXCEPT ![w].pc = "releasing", ![w].seen = state]
  BY DEF RefuseBeforeLookup
<1>3. PICK x : Becomes(w, x, "releasing", state, wk[w].since)
  <2>1. "releasing" \in PCs /\ state \in Seen
    BY VerdictsAre DEF PCs, Seen
  <2>2. QED
    BY <1>2, <2>1, BecomesSeen
<1>4. Punctual(x)' /\ Informed(x)' /\ x.pc \notin Asking
  BY <1>3 DEF Punctual, Informed, Doubts, Asking, Becomes
<1>5. Unheld(z.row, z.token)
  BY <1>1 DEF WorkerFit
<1>6. RowsMove /\ AttemptsMove /\ NoContact /\ JobsMove /\ now' = now /\ unheard' = unheard
  BY RowsStay, AttemptsStay, JobsStay DEF RefuseBeforeLookup
<1>7. QED
  BY <1>1, <1>3, <1>4, <1>5, <1>6, GoesOnAgrees

LEMMA ReserveTargetedAgrees ==
    ASSUME IInv, Params, AgreesInv, NEW w \in Workers, ReserveTargeted(w) \/ ReserveUnheard(w)
    PROVE  AgreesInv'
<1>1. PICK z \in Process : z = wk[w] /\ WorkerFit(z) /\ z.pc = "claimed"
  BY WorkerHas DEF ReserveTargeted, ReserveUnheard
<1>2. z.job \in Jobs /\ z.n \in Nums /\ Unheld(z.row, z.token)
  BY <1>1 DEF WorkerFit
<1>3. PICK k \in Jobs \X Nums : k = <<z.job, z.n>>
  BY <1>2
<1>4. /\ att[k].state = "NONE"
      /\ att' = [att EXCEPT ![k] = [NoAttempt EXCEPT !.state = "RESERVED", !.startedAt = now]]
  BY <1>1, <1>3 DEF ReserveTargeted, ReserveUnheard
<1>5. /\ att'[k].state = "RESERVED" /\ att'[k].startedAt = now /\ ~att'[k].contactedProvider
      /\ \A i \in Jobs \X Nums : i # k => att'[i] = att[i]
  BY <1>4 DEF IInv, Fits, TypeOK, NoAttempt
<1>6. AttemptsMove /\ NoContact
  BY <1>4, <1>5 DEF AttemptsMove, NoContact
<1>7. RowsMove /\ JobsMove /\ now' = now /\ unheard' = unheard
  BY RowsStay, JobsStay DEF ReserveTargeted, ReserveUnheard
<1>8. CASE ReserveTargeted(w)
  <2>1. PICK x : Becomes(w, x, "reserved", wk[w].seen, wk[w].since)
    <3>1. "reserved" \in PCs /\ Work(w, "reserved")
      BY <1>8 DEF PCs, ReserveTargeted
    <3>2. QED
      BY <3>1, BecomesPc
  <2>2. Punctual(x)' /\ Informed(x)' /\ x.pc \notin Asking \cup {"releasing"}
    BY <1>1, <1>3, <1>5, <1>7, <2>1 DEF Punctual, Informed, Doubts, Asking, Becomes
  <2>3. QED
    BY <1>1, <1>6, <1>7, <2>1, <2>2, GoesOnAgrees
<1>9. CASE ReserveUnheard(w)
  <2>1. PICK x : Becomes(w, x, "releasing", "SKIPPED_BUDGET", wk[w].since)
    <3>1. "releasing" \in PCs /\ "SKIPPED_BUDGET" \in Seen
      BY VerdictsAre DEF PCs, Seen, Refusals
    <3>2. QED
      BY <1>9, <3>1, BecomesSeen DEF ReserveUnheard
  <2>2. Punctual(x)' /\ Informed(x)' /\ x.pc \notin Asking
    BY <2>1 DEF Punctual, Informed, Doubts, Asking, Becomes
  <2>3. QED
    BY <1>1, <1>2, <1>6, <1>7, <2>1, <2>2, GoesOnAgrees
<1>10. QED
  BY <1>8, <1>9

\* A contact is the only one of its row: the claim it was made with was not yet used for one.
LEMMA ContactAgrees ==
    ASSUME IInv, Params, AgreesInv, NEW w \in Workers, Contact(w)
    PROVE  AgreesInv'
<1>1. PICK z \in Process : z = wk[w] /\ WorkerFit(z) /\ z.pc = "reserved" /\ Linked(z) /\ Punctual(z)
  BY WorkerHas DEF Contact, AgreesInv, WorkersTell, Tells
<1>2. PICK r \in Rows : r = z.row
  BY <1>1 DEF WorkerFit
<1>3. PICK j0 \in Jobs, n0 \in Nums : j0 = z.job /\ n0 = z.n
  BY <1>1 DEF WorkerFit
<1>4. z.token \in Claims /\ z.token > 0 /\ z.token <= row[r].claims /\ Unheld(r, z.token)
  BY <1>1, <1>2 DEF WorkerFit, Owning, Process
<1>5. r = job[j0].iocEnrichmentId /\ job' = job /\ now' = now /\ unheard' = unheard
  BY <1>1, <1>2, <1>3 DEF Linked, Contact
<1>6. CASE att[<<j0, n0>>].state = "RESERVED" /\ Owns(r, z.token)
  <2>1. /\ att' = [att EXCEPT ![<<j0, n0>>].state = "IN_FLIGHT",
                              ![<<j0, n0>>].contactedProvider = TRUE]
        /\ row' = [row EXCEPT ![r].nextAttemptAt = Forever]
        /\ Work(w, "contacted")
    BY <1>1, <1>2, <1>3, <1>6 DEF Contact
  <2>2. att[<<j0, n0>>] \in Attempt
    BY DEF IInv, Fits, TypeOK
  <2>3. /\ att'[<<j0, n0>>].state = "IN_FLIGHT" /\ att'[<<j0, n0>>].contactedProvider
        /\ att'[<<j0, n0>>].startedAt = att[<<j0, n0>>].startedAt
        /\ \A i \in Jobs \X Nums : i # <<j0, n0>> => att'[i] = att[i]
    BY <2>1, <2>2 DEF IInv, Fits, TypeOK, Attempt
  <2>4. RowsKeep /\ Held(r, z.token)'
    BY <1>4, <1>6, <2>1, RowIsHeld
  <2>5. row'[r].status = "PENDING" /\ \A s \in Rows : row'[s].status = row[s].status
    BY <1>6, <2>1 DEF Owns, IInv, Fits, TypeOK, Row
  <2>6. RowsMove
    <3>1. RowsFinal
      BY TargetedStepIsFinal DEF Final, TargetedStep
    <3>2. QED
      BY <2>4, <2>5, <3>1, RowsMoveBy
  <2>7. JobsMove
    BY <1>5, JobsStay
  <2>8. ~HeldRow(r)
    BY <1>4, <1>6, HeldIsNotOwned
  \* So no contact that was heard of is of this row.
  <2>9. \A j \in Jobs, n \in Nums : Heard(j, n) => job[j].iocEnrichmentId # r
    BY <2>8 DEF AgreesInv, ContactsHold
  <2>10. PICK x : Becomes(w, x, "contacted", wk[w].seen, wk[w].since)
    BY <2>1, BecomesPc DEF PCs
  <2>11. /\ wk'[w] = x /\ WorkersMove
         /\ \A v \in Workers : v # w => wk'[v] = wk[v]
    BY <1>1, <1>2, <1>6, <2>10, WorkerBecomes DEF Becomes
  <2>12. ASSUME NEW j \in Jobs, NEW n \in Nums, Heard(j, n)'
         PROVE  \/ j = j0 /\ n = n0
                \/ Heard(j, n) /\ job[j].iocEnrichmentId # r /\ att'[<<j, n>>] = att[<<j, n>>]
    <3>1. CASE <<j, n>> = <<j0, n0>>
      BY <3>1
    <3>2. CASE <<j, n>> # <<j0, n0>>
      <4>1. Heard(j, n) /\ att'[<<j, n>>] = att[<<j, n>>]
        BY <1>5, <2>3, <2>12, <3>2 DEF Heard, Contacted
      <4>2. QED
        BY <2>9, <4>1
    <3>3. QED
      BY <3>1, <3>2
  <2>13. Tells(x)'
    <3>1. x.pc = "contacted" /\ x.job = j0 /\ x.n = n0 /\ x.row = r
      BY <1>1, <1>2, <1>3, <2>10 DEF Becomes
    <3>2. Linked(x)'
      BY <1>5, <3>1 DEF Linked
    <3>3. Punctual(x)'
      <4>1. att'[<<j0, n0>>].startedAt = now /\ now <= now + LookupMax
        <5>1. now \in 0..MaxTime /\ LookupMax \in Nat
          BY CrashesStay, Params DEF ParamsAssumption
        <5>2. QED
          BY <1>1, <1>3, <2>3, <5>1 DEF Punctual
      <4>2. QED
        BY <1>5, <2>3, <3>1, <4>1 DEF Punctual
    <3>4. Alone(x)'
      BY <1>5, <2>12, <3>1 DEF Alone
    <3>5. Informed(x)'
      BY <2>5, <3>1 DEF Informed, Doubts, Answers
    <3>6. QED
      BY <3>2, <3>3, <3>4, <3>5 DEF Tells
  <2>14. HeldRow(r)'
    <3>1. Held(r, z.token)' /\ z.token = row'[r].claims
      BY <2>4 DEF Held
    <3>2. ~Dropping(r, z.token)'
      <4> SUFFICES ASSUME NEW v \in Workers, wk'[v].pc = "releasing",
                          wk'[v].row = r, wk'[v].token = z.token
                   PROVE  FALSE
        BY DEF Dropping
      <4>1. v # w /\ wk[v].row = wk[w].row /\ wk[v].token = wk[w].token
        BY <1>1, <1>2, <2>10, <2>11 DEF Becomes
      <4>2. Apart(wk[v], wk[w])
        BY <4>1 DEF IInv, Fits, ClaimsDiffer
      <4>3. QED
        BY <1>1, <1>4, <4>1, <4>2 DEF Apart, Claims
    <3>3. QED
      BY <3>1, <3>2 DEF HeldRow
  <2>15. ASSUME NEW v \in Workers
         PROVE  Tells(wk[v])'
    <3>1. CASE v = w
      <4>1. wk'[v] = x
        BY <2>11, <3>1
      <4>2. QED
        BY <2>13, <4>1 DEF Tells, Linked, Punctual, Alone, Informed, Doubts
    <3>2. CASE v # w
      <4>1. PICK y : y = wk[v]
        OBVIOUS
      <4>2. /\ y \in Process /\ WorkerFit(y)
            /\ Linked(y) /\ Punctual(y) /\ Alone(y) /\ Informed(y)
        BY <4>1, WorkerHas DEF AgreesInv, WorkersTell, Tells
      <4>3. Linked(y)'
        BY <1>5, <4>2 DEF Linked
      \* The contact changes nothing of what another worker relies on in an attempt.
      <4>4. Punctual(y)'
        <5>1. CASE y.pc \in Asking \cup {"reserved"}
          <6>1. PICK j \in Jobs, n \in Nums : j = y.job /\ n = y.n
            BY <4>2, <5>1 DEF WorkerFit, Asking
          <6>2. CASE <<j, n>> = <<j0, n0>>
            BY <1>5, <2>3, <4>2, <6>1, <6>2 DEF Punctual
          <6>3. CASE <<j, n>> # <<j0, n0>>
            <7>1. att'[<<j, n>>] = att[<<j, n>>]
              BY <2>3, <6>3
            <7>2. QED
              BY <1>5, <4>2, <6>1, <7>1 DEF Punctual
          <6>4. QED
            BY <6>2, <6>3
        <5>2. CASE y.pc \notin Asking \cup {"reserved"}
          BY <5>2 DEF Punctual, Asking
        <5>3. QED
          BY <5>1, <5>2
      <4>5. Informed(y)'
        <5>1. y.pc # "idle" => y.row \in Rows
          BY <4>2 DEF WorkerFit
        <5>2. Doubts(y) => y.pc # "idle"
          BY DEF Doubts
        <5>3. Doubts(y) => y.job \in unheard \/ Answerless(y.row)'
          BY <2>6, <2>11, <4>2, <5>1, <5>2, AnswerlessStays DEF Informed
        <5>4. y.pc \in Asking => row'[y.row].status \notin Answers
          BY <2>5, <4>2, <5>1 DEF Informed, Asking
        <5>5. QED
          BY <1>5, <5>3, <5>4 DEF Informed, Doubts
      \* It holds another row, if it asks.
      <4>6. Alone(y)'
        <5>1. y.pc \in Asking => y.row # r
          BY <2>8, <4>1, AskersHold
        <5>2. QED
          BY <1>5, <2>12, <4>2, <5>1 DEF Alone
      <4>7. wk'[v] = y
        BY <2>11, <3>2, <4>1
      <4>8. QED
        BY <4>3, <4>4, <4>5, <4>6, <4>7 DEF Tells, Linked, Punctual, Alone, Informed, Doubts
    <3>3. QED
      BY <3>1, <3>2
  <2>16. ASSUME NEW j \in Jobs, NEW n \in Nums, Heard(j, n)'
         PROVE  att'[<<j, n>>].state # "NONE" /\ HeldRow(job[j].iocEnrichmentId)'
    <3>1. CASE j = j0 /\ n = n0
      BY <1>5, <2>3, <2>14, <3>1 DEF HeldRow, Held, Dropping, Owns, Settled
    <3>2. CASE ~(j = j0 /\ n = n0)
      <4>1. Heard(j, n) /\ att'[<<j, n>>] = att[<<j, n>>]
        BY <2>12, <2>16, <3>2
      <4>2. att[<<j, n>>].state # "NONE" /\ HeldRow(job[j].iocEnrichmentId)
        BY <4>1 DEF AgreesInv, ContactsHold
      <4>3. PICK s \in Rows : s = job[j].iocEnrichmentId
        BY <4>2 DEF IInv, Fits, LedgersFit
      <4>4. HeldRow(s)'
        BY <2>6, <2>11, <4>2, <4>3, HeldStays
      <4>5. HeldRow(job[j].iocEnrichmentId)'
        BY <1>5, <4>3, <4>4 DEF HeldRow, Held, Dropping, Owns, Settled
      <4>6. QED
        BY <4>1, <4>2, <4>5
    <3>3. QED
      BY <3>1, <3>2
  <2>17. WorkersTell'
    BY <2>15 DEF WorkersTell
  <2>18. QED
    BY <1>5, <2>6, <2>7, <2>11, <2>16, <2>17, JobsTell DEF AgreesInv, ContactsHold
<1>7. CASE ~(att[<<j0, n0>>].state = "RESERVED" /\ Owns(r, z.token))
  <2>1. /\ wk' = [wk EXCEPT ![w].pc = "releasing", ![w].seen = "lost"]
        /\ row' = row /\ att' = att
    BY <1>1, <1>2, <1>3, <1>7 DEF Contact
  <2>2. PICK x : Becomes(w, x, "releasing", "lost", wk[w].since)
    BY <2>1, BecomesSeen DEF PCs, Seen
  <2>3. Punctual(x)' /\ Informed(x)' /\ x.pc \notin Asking
    BY <2>2 DEF Punctual, Informed, Doubts, Asking, Becomes
  <2>4. RowsMove /\ AttemptsMove /\ NoContact /\ JobsMove
    BY <1>5, <2>1, RowsStay, AttemptsStay, JobsStay
  <2>5. QED
    BY <1>1, <1>2, <1>4, <1>5, <2>2, <2>3, <2>4, GoesOnAgrees
<1>8. QED
  BY <1>6, <1>7

\* A contact whose worker hears nothing of it counts for nobody: the hold it leaves is dropped.
LEMMA ContactUnheardAgrees ==
    ASSUME IInv, Params, AgreesInv, NEW w \in Workers, ContactUnheard(w)
    PROVE  AgreesInv'
<1>1. PICK z \in Process : z = wk[w] /\ WorkerFit(z) /\ z.pc = "reserved"
  BY WorkerHas DEF ContactUnheard
<1>2. PICK r \in Rows, j0 \in Jobs, n0 \in Nums : r = z.row /\ j0 = z.job /\ n0 = z.n
  BY <1>1 DEF WorkerFit
<1>3. z.token \in Claims /\ z.token > 0 /\ z.token <= row[r].claims /\ Unheld(r, z.token)
  BY <1>1, <1>2 DEF WorkerFit, Owning, Process
<1>4. /\ att[<<j0, n0>>].state = "RESERVED" /\ Owns(r, z.token)
      /\ att' = [att EXCEPT ![<<j0, n0>>].state = "IN_FLIGHT",
                            ![<<j0, n0>>].contactedProvider = TRUE]
      /\ row' = [row EXCEPT ![r].nextAttemptAt = Forever]
      /\ unheard' = unheard \cup {j0} /\ job' = job /\ now' = now
  BY <1>1, <1>2 DEF ContactUnheard
<1>5. RowsMove
  <2>1. RowsKeep
    BY <1>3, <1>4, RowIsHeld
  <2>2. \A s \in Rows : row'[s].status = row[s].status
    BY <1>4 DEF IInv, Fits, TypeOK, Row
  <2>3. RowsFinal
    BY TargetedStepIsFinal DEF Final, TargetedStep
  <2>4. QED
    BY <2>1, <2>2, <2>3, RowsMoveBy
<1>6. AttemptsMove /\ NoContact
  <2>1. att[<<j0, n0>>] \in Attempt
    BY DEF IInv, Fits, TypeOK
  <2>2. /\ att'[<<j0, n0>>].state = "IN_FLIGHT" /\ att'[<<j0, n0>>].contactedProvider
        /\ att'[<<j0, n0>>].startedAt = att[<<j0, n0>>].startedAt
        /\ \A i \in Jobs \X Nums : i # <<j0, n0>> => att'[i] = att[i]
    BY <1>4, <2>1 DEF IInv, Fits, TypeOK, Attempt
  <2>3. AttemptsMove
    BY <2>2 DEF AttemptsMove
  <2>4. ASSUME NEW j \in Jobs, NEW n \in Nums
        PROVE  att'[<<j, n>>].contactedProvider => att[<<j, n>>].contactedProvider \/ j \in unheard'
    <3>1. CASE j = j0
      BY <1>4, <3>1
    <3>2. CASE j # j0
      BY <2>2, <3>2
    <3>3. QED
      BY <3>1, <3>2
  <2>5. QED
    BY <2>3, <2>4 DEF NoContact
<1>7. PICK x : Becomes(w, x, "releasing", "lost", wk[w].since)
  <2>1. wk' = [wk EXCEPT ![w].pc = "releasing", ![w].seen = "lost"]
    BY DEF ContactUnheard
  <2>2. QED
    BY <2>1, BecomesSeen DEF PCs, Seen
<1>8. Punctual(x)' /\ Informed(x)' /\ x.pc \notin Asking
  BY <1>7 DEF Punctual, Informed, Doubts, Asking, Becomes
<1>9. JobsMove /\ now' = now /\ unheard \subseteq unheard'
  BY <1>4, JobsStay
<1>10. Unheld(z.row, z.token) /\ z.pc # "idle"
  BY <1>1, <1>2, <1>3
<1>11. QED
  BY <1>1, <1>5, <1>6, <1>7, <1>8, <1>9, <1>10, GoesOnAgrees

LEMMA ReleaseAndReturnAgrees ==
    ASSUME IInv, Params, AgreesInv, NEW w \in Workers, ReleaseAndReturn(w)
    PROVE  AgreesInv'
<1>1. PICK z \in Process : z = wk[w] /\ WorkerFit(z) /\ z.pc = "releasing"
  BY WorkerHas DEF ReleaseAndReturn
<1>2. /\ z.row \in Rows /\ z.token \in Claims /\ z.token > 0
      /\ z.seen \in Refusals \cup {"lost"}
  BY <1>1 DEF WorkerFit, Owning, Process
<1>3. UpdateRowIf(Owns(z.row, z.token), z.row, ReleasedRow(z.row, 0, 1))
  BY <1>1 DEF ReleaseAndReturn
<1>4. RowsMove
  <2>1. RowsKeep
    BY <1>1, <1>2, <1>3, Bounds, RowIsReleased
  <2>2. RowsFinal
    BY TargetedStepIsFinal DEF Final, TargetedStep
  <2>3. QED
    BY <1>2, <1>3, <2>1, <2>2, NewStatus, NoAnswerWritten
<1>5. AttemptsMove /\ NoContact /\ JobsMove /\ now' = now /\ unheard' = unheard
  BY AttemptsStay, JobsStay DEF ReleaseAndReturn
<1>6. CASE Work(w, "settling")
  <2>1. PICK x : Becomes(w, x, "settling", wk[w].seen, wk[w].since)
    BY <1>6, BecomesPc DEF PCs
  <2>2. x.seen # "DEAD_LETTER" /\ x.pc = "settling"
    BY <1>1, <1>2, <2>1 DEF Becomes, Refusals
  <2>3. Punctual(x)' /\ Informed(x)' /\ x.pc \notin Asking \cup {"releasing"}
    BY <2>2 DEF Punctual, Informed, Doubts, Asking
  <2>4. QED
    BY <1>1, <1>4, <1>5, <2>1, <2>3, GoesOnAgrees
<1>7. CASE Rest(w)
  BY <1>4, <1>5, <1>7, RestAgrees
<1>8. QED
  BY <1>1, <1>6, <1>7 DEF ReleaseAndReturn

LEMMA StartTargetedLookupAgrees ==
    ASSUME IInv, Params, AgreesInv, NEW w \in Workers, StartTargetedLookup(w)
    PROVE  AgreesInv'
<1>1. PICK z \in Process : /\ z = wk[w] /\ WorkerFit(z) /\ z.pc = "contacted"
                           /\ Punctual(z) /\ Informed(z)
  BY WorkerHas DEF StartTargetedLookup, AgreesInv, WorkersTell, Tells
<1>2. PICK x : Becomes(w, x, "calling", wk[w].seen, now)
  <2>1. "calling" \in PCs /\ now \in 0..MaxTime
    BY CrashesStay DEF PCs
  <2>2. QED
    BY <2>1, BecomesSince DEF StartTargetedLookup
<1>3. /\ row' = row /\ att' = att /\ now' = now /\ unheard' = unheard
      /\ RowsMove /\ AttemptsMove /\ NoContact /\ JobsMove
  BY RowsStay, AttemptsStay, JobsStay DEF StartTargetedLookup
<1>4. Punctual(x)'
  BY <1>1, <1>2, <1>3 DEF Punctual, Becomes, Asking
<1>5. Informed(x)'
  BY <1>1, <1>2, <1>3 DEF Informed, Doubts, Becomes, Asking
<1>6. z.pc \in Asking /\ x.pc # "releasing"
  BY <1>1, <1>2 DEF Asking, Becomes
<1>7. QED
  BY <1>1, <1>2, <1>3, <1>4, <1>5, <1>6, GoesOnAgrees

LEMMA TargetedLookupReturnsAgrees ==
    ASSUME IInv, Params, AgreesInv, NEW w \in Workers, TargetedLookupReturns(w)
    PROVE  AgreesInv'
<1>1. PICK z \in Process : /\ z = wk[w] /\ WorkerFit(z) /\ z.pc = "calling"
                           /\ Punctual(z) /\ Informed(z)
  BY WorkerHas DEF TargetedLookupReturns, AgreesInv, WorkersTell, Tells
<1>2. /\ row' = row /\ att' = att /\ now' = now /\ unheard' = unheard
      /\ RowsMove /\ AttemptsMove /\ NoContact /\ JobsMove
  BY RowsStay, AttemptsStay, JobsStay DEF TargetedLookupReturns
<1>3. PICK s \in Statuses : wk' = [wk EXCEPT ![w].pc = "answered", ![w].seen = s]
  BY DEF TargetedLookupReturns
<1>4. PICK x : Becomes(w, x, "answered", s, wk[w].since)
  <2>1. s \in Seen /\ "answered" \in PCs
    BY Params DEF ParamsAssumption, Seen, RowStates, PCs
  <2>2. QED
    BY <1>3, <2>1, BecomesSeen
<1>5. Punctual(x)'
  BY <1>1, <1>2, <1>4 DEF Punctual, Becomes, Asking
<1>6. Informed(x)'
  BY <1>1, <1>2, <1>4 DEF Informed, Doubts, Becomes, Asking
<1>7. z.pc \in Asking /\ x.pc # "releasing"
  BY <1>1, <1>4 DEF Asking, Becomes
<1>8. QED
  BY <1>1, <1>2, <1>4, <1>5, <1>6, <1>7, GoesOnAgrees

\* Who asked and has no answer to store knows that nobody has.
LEMMA TargetedLookupFailsAgrees ==
    ASSUME IInv, Params, AgreesInv, NEW w \in Workers, TargetedLookupFails(w)
    PROVE  AgreesInv'
<1>1. PICK z \in Process : /\ z = wk[w] /\ WorkerFit(z) /\ z.pc \in {"calling", "answered"}
                           /\ Informed(z)
  BY WorkerHas DEF TargetedLookupFails, AgreesInv, WorkersTell, Tells
<1>2. /\ row' = row /\ now' = now /\ unheard' = unheard
      /\ RowsMove /\ AttemptsMove /\ NoContact /\ JobsMove
  BY RowsStay, AttemptsStay, JobsStay DEF TargetedLookupFails
<1>3. PICK x : Becomes(w, x, "failed", wk[w].seen, wk[w].since)
  <2>1. Work(w, "failed") /\ "failed" \in PCs
    BY DEF TargetedLookupFails, PCs
  <2>2. QED
    BY <2>1, BecomesPc
<1>4. Punctual(x)' /\ x.pc \notin Asking \cup {"releasing"}
  BY <1>3 DEF Punctual, Becomes, Asking
<1>5. z.pc \in Asking /\ row'[z.row].status \notin Answers
  BY <1>1, <1>2 DEF Asking, Informed
<1>6. wk'[w] = x
  BY <1>3 DEF Becomes, IInv, Fits, TypeOK
<1>7. ASSUME WorkersMove, \A v \in Workers : v # w => wk'[v] = wk[v]
      PROVE  Informed(x)'
  <2>1. Answerless(z.row)'
    BY <1>1, <1>2, <1>4, <1>5, <1>6, <1>7, AskerLeaves
  <2>2. x.row = z.row
    BY <1>1, <1>3 DEF Becomes
  <2>3. QED
    BY <1>4, <2>1, <2>2 DEF Informed
<1>8. QED
  BY <1>1, <1>2, <1>3, <1>4, <1>7, GoesOnAgrees

LEMMA CompleteTargetedAgrees ==
    ASSUME IInv, Params, AgreesInv, NEW w \in Workers,
           CompleteTargeted(w) \/ CompletionUnheard(w)
    PROVE  AgreesInv'
<1>1. PICK z \in Process : z = wk[w] /\ WorkerFit(z) /\ z.pc = "answered"
  BY WorkerHas DEF CompleteTargeted, CompletionUnheard
<1>2. PICK r \in Rows : r = z.row /\ z.seen \in Answers
  BY <1>1, Params DEF WorkerFit, ParamsAssumption
<1>3. PICK guard \in BOOLEAN : guard = Owns(r, z.token)
  BY DEF Owns
<1>4. UpdateRowIf(guard, r, ClosedRow(r, z.seen))
  BY <1>1, <1>2, <1>3 DEF CompleteTargeted, CompletionUnheard, UpdateRowIf
<1>5. RowsKeep
  BY <1>2, <1>3, <1>4, RowCloses DEF Owns
<1>6. wk'[w].pc # "answered"
  <2>1. wk \in [Workers -> Process] /\ wk[w] \in Process
    BY DEF IInv, Fits, TypeOK
  <2>2. ASSUME NEW pc \in {"completed", "failed"}, Work(w, pc)
        PROVE  wk'[w].pc # "answered"
    <3>1. wk'[w] = [wk[w] EXCEPT !.pc = pc]
      BY <2>1, <2>2 DEF Work
    <3>2. QED
      BY <2>1, <3>1 DEF Process
  <2>3. CASE Rest(w)
    <3>1. wk'[w] = Idle
      BY <2>1, <2>3 DEF Rest
    <3>2. QED
      BY <3>1 DEF Idle
  <2>4. QED
    BY <2>2, <2>3 DEF CompleteTargeted, CompletionUnheard
<1>7. RowsMove
  <2>1. ASSUME NEW s \in Rows, row[s].status \notin Answers, row'[s].status \in Answers
        PROVE  Answering(s)
    <3>1. s = r /\ guard
      BY <1>4, <2>1 DEF UpdateRowIf, IInv, Fits, TypeOK
    <3>2. QED
      BY <1>1, <1>2, <1>3, <1>6, <3>1 DEF Answering
  <2>2. RowsFinal
    BY TargetedStepIsFinal DEF Final, TargetedStep
  <2>3. QED
    BY <1>5, <2>1, <2>2, RowsMoveBy
<1>8. AttemptsMove /\ NoContact /\ JobsMove /\ now' = now
  BY AttemptsStay, JobsStay DEF CompleteTargeted, CompletionUnheard
<1>9. CASE CompleteTargeted(w)
  <2>1. unheard' = unheard
    BY <1>9 DEF CompleteTargeted
  <2>2. CASE Work(w, "completed")
    <3>1. PICK x : Becomes(w, x, "completed", wk[w].seen, wk[w].since)
      BY <2>2, BecomesPc DEF PCs
    <3>2. Punctual(x)' /\ Informed(x)' /\ x.pc \notin Asking \cup {"releasing"}
      BY <3>1 DEF Punctual, Informed, Doubts, Asking, Becomes
    <3>3. QED
      BY <1>1, <1>7, <1>8, <2>1, <3>1, <3>2, GoesOnAgrees
  <2>3. CASE Rest(w)
    BY <1>7, <1>8, <2>1, <2>3, RestAgrees
  <2>4. QED
    BY <1>9, <2>2, <2>3 DEF CompleteTargeted
<1>10. CASE CompletionUnheard(w)
  <2>1. PICK x : Becomes(w, x, "failed", wk[w].seen, wk[w].since)
    <3>1. Work(w, "failed") /\ "failed" \in PCs
      BY <1>10 DEF CompletionUnheard, PCs
    <3>2. QED
      BY <3>1, BecomesPc
  <2>2. unheard \subseteq unheard' /\ z.job \in unheard'
    BY <1>1, <1>10 DEF CompletionUnheard
  <2>3. x.pc = "failed" /\ x.job = z.job
    BY <1>1, <2>1 DEF Becomes
  <2>4. Punctual(x)' /\ Informed(x)' /\ x.pc \notin Asking \cup {"releasing"}
    BY <2>2, <2>3 DEF Punctual, Informed, Asking
  <2>5. QED
    BY <1>1, <1>7, <1>8, <2>1, <2>2, <2>4, GoesOnAgrees
<1>11. QED
  BY <1>9, <1>10

LEMMA FinalizeCompletedAgrees ==
    ASSUME IInv, AgreesInv, NEW w \in Workers, FinalizeCompleted(w)
    PROVE  AgreesInv'
  BY RowsStay, AttemptFinalized, JobsStay, RestAgrees DEF FinalizeCompleted

\* A row that its own contact holds is buried, or has been by another, or is left held.
LEMMA BuryRowAgrees ==
    ASSUME IInv, Params, AgreesInv, NEW w \in Workers, BuryRow(w) \/ BuryFails(w)
    PROVE  AgreesInv'
<1>1. PICK z \in Process : z = wk[w] /\ WorkerFit(z) /\ Informed(z) /\ z.pc = "failed"
  BY WorkerHas DEF BuryRow, BuryFails, AgreesInv, WorkersTell, Tells
<1>2. PICK r \in Rows : r = z.row
  BY <1>1 DEF WorkerFit
<1>3. RowsMove
  <2>1. CASE BuryRow(w)
    <3>1. PICK guard \in BOOLEAN : guard = Owns(r, z.token)
      BY DEF Owns
    <3>2. UpdateRowIf(guard, r, ClosedRow(r, "DEAD_LETTER"))
      BY <1>1, <1>2, <2>1, <3>1 DEF BuryRow
    <3>3. RowsKeep
      BY <1>2, <3>1, <3>2, RowCloses DEF Owns
    <3>4. RowsFinal
      BY <2>1, TargetedStepIsFinal DEF Final, TargetedStep
    <3>5. "DEAD_LETTER" \notin Answers
      BY DEF Answers
    <3>6. QED
      BY <3>2, <3>3, <3>4, <3>5, NewStatus, NoAnswerWritten
  <2>2. CASE BuryFails(w)
    BY <2>2, RowsStay DEF BuryFails
  <2>3. QED
    BY <2>1, <2>2
<1>4. AttemptsMove /\ NoContact /\ JobsMove /\ now' = now /\ unheard' = unheard
  BY AttemptsStay, JobsStay DEF BuryRow, BuryFails
<1>5. PICK x : Becomes(w, x, "buried", wk[w].seen, wk[w].since)
  <2>1. Work(w, "buried") /\ "buried" \in PCs
    BY DEF BuryRow, BuryFails, PCs
  <2>2. QED
    BY <2>1, BecomesPc
<1>6. Punctual(x)' /\ x.pc \notin Asking \cup {"releasing"} /\ x.row = r /\ x.job = z.job
  BY <1>1, <1>2, <1>5 DEF Punctual, Asking, Becomes
<1>7. z.job \in unheard \/ Answerless(r)
  BY <1>1, <1>2 DEF Informed, Doubts
<1>8. ASSUME WorkersMove
      PROVE  Informed(x)'
  BY <1>3, <1>4, <1>6, <1>7, <1>8, AnswerlessStays DEF Informed
<1>9. QED
  BY <1>1, <1>3, <1>4, <1>5, <1>6, <1>8, GoesOnAgrees

LEMMA FinalizeAbandonedAgrees ==
    ASSUME IInv, Params, AgreesInv, NEW w \in Workers, FinalizeAbandoned(w)
    PROVE  AgreesInv'
<1>1. PICK z \in Process : z = wk[w] /\ WorkerFit(z) /\ Informed(z) /\ z.pc = "buried"
  BY WorkerHas DEF FinalizeAbandoned, AgreesInv, WorkersTell, Tells
<1>2. PICK x : Becomes(w, x, "settling", "DEAD_LETTER", wk[w].since)
  <2>1. "settling" \in PCs /\ "DEAD_LETTER" \in Seen
    BY DEF PCs, Seen, RowStates
  <2>2. wk' = [wk EXCEPT ![w].pc = "settling", ![w].seen = "DEAD_LETTER"]
    BY DEF FinalizeAbandoned
  <2>3. QED
    BY <2>1, <2>2, BecomesSeen
<1>3. /\ row' = row /\ now' = now /\ unheard' = unheard
      /\ RowsMove /\ AttemptsMove /\ NoContact /\ JobsMove
  BY RowsStay, AttemptFinalized, JobsStay DEF FinalizeAbandoned
<1>4. Punctual(x)' /\ x.pc \notin Asking \cup {"releasing"} /\ x.row = z.row /\ x.job = z.job
  BY <1>1, <1>2 DEF Punctual, Asking, Becomes
<1>5. z.row \in Rows /\ (z.job \in unheard \/ Answerless(z.row))
  BY <1>1 DEF Informed, Doubts, WorkerFit
<1>6. ASSUME WorkersMove
      PROVE  Informed(x)'
  BY <1>3, <1>4, <1>5, <1>6, AnswerlessStays DEF Informed
<1>7. QED
  BY <1>1, <1>2, <1>3, <1>4, <1>6, GoesOnAgrees

LEMMA SettleJobAgrees ==
    ASSUME IInv, Params, AgreesInv, NEW w \in Workers, SettleJob(w)
    PROVE  AgreesInv'
<1>1. PICK z \in Process : /\ z = wk[w] /\ WorkerFit(z) /\ Informed(z) /\ Linked(z)
                           /\ z.pc = "settling"
  BY WorkerHas DEF SettleJob, AgreesInv, WorkersTell, Tells
<1>2. PICK j \in Jobs : j = z.job
  BY <1>1 DEF WorkerFit
<1>3. PICK r : r = job[j].iocEnrichmentId /\ r = z.row
  BY <1>1, <1>2 DEF Linked
<1>4. job' = SettledJob(j, z.seen, z.seen = "DEAD_LETTER")
  BY <1>1, <1>2 DEF SettleJob
<1>5. \/ z.seen \in Refusals
      \/ z.seen = "DEAD_LETTER" /\ (j \in unheard \/ Answerless(r))
  BY <1>1, <1>2, <1>3 DEF WorkerFit, Informed, Doubts
<1>6. JobsMove
  BY <1>3, <1>4, <1>5, JobSettledBy
<1>7. QED
  BY <1>6, RowsStay, AttemptsStay, RestAgrees DEF SettleJob

-----------------------------------------------------------------------------
(* Recovery.                                                               *)

LEMMA ReconcileDelegatedJobAgrees ==
    ASSUME IInv, AgreesInv, NEW w \in Workers, NEW j \in Jobs, ReconcileDelegatedJob(w, j)
    PROVE  AgreesInv'
<1>1. PICK r : r = job[j].iocEnrichmentId
  OBVIOUS
<1>2. Settled(r) /\ job' = SettledJob(j, IocStatusToJobState[row[r].status], FALSE)
  BY <1>1 DEF ReconcileDelegatedJob
<1>3. JobsMove
  BY <1>1, <1>2, JobSettledBy
<1>4. QED
  BY <1>3, RowsStay, AttemptsStay, NobodyAgrees DEF ReconcileDelegatedJob

\* An attempt is stale only after the bound of a lookup: its worker asks no more.
LEMMA StaleIsUnasked ==
    ASSUME IInv, Params, AgreesInv, NEW j \in Jobs, NEW n \in Nums, Stale(<<j, n>>),
           Heard(j, n), NEW v \in Workers, wk[v].pc \in Asking
    PROVE  wk[v].row # job[j].iocEnrichmentId
<1> SUFFICES ASSUME wk[v].row = job[j].iocEnrichmentId
             PROVE  FALSE
  OBVIOUS
<1>1. PICK x \in Process : x = wk[v] /\ WorkerFit(x) /\ Linked(x) /\ Punctual(x) /\ Alone(x)
  BY WorkerHas DEF AgreesInv, WorkersTell, Tells
<1>2. PICK i \in Jobs, m \in Nums : i = x.job /\ m = x.n
  BY <1>1 DEF WorkerFit, Asking
<1>3. now <= att[<<i, m>>].startedAt + LookupMax
  BY <1>1, <1>2 DEF Punctual
<1>4. j = i /\ n = m
  BY <1>1, <1>2 DEF Alone
<1>5. PICK start \in 0..MaxTime : start = att[<<j, n>>].startedAt
  BY DEF IInv, Fits, TypeOK, Attempt
<1>6. now <= start + LookupMax /\ start + StaleTime <= now
  BY <1>3, <1>4, <1>5 DEF Stale
<1>7. LookupMax < StaleTime /\ LookupMax \in Nat /\ StaleTime \in Nat /\ now \in 0..MaxTime
  BY Params, CrashesStay DEF ParamsAssumption
<1>8. QED
  BY <1>6, <1>7

LEMMA SweepReadAgrees ==
    ASSUME IInv, Params, AgreesInv, NEW w \in Workers, NEW j \in Jobs, NEW n \in Nums,
           SweepRead(w, j, n)
    PROVE  AgreesInv'
<1>1. PICK r : r = job[j].iocEnrichmentId
  OBVIOUS
<1>2. PICK seen : seen = (IF Settled(r) THEN row[r].status
                          ELSE IF att[<<j, n>>].contactedProvider THEN "contacted"
                          ELSE "uncontacted")
  OBVIOUS
<1>3. PICK x : x = [Idle EXCEPT !.pc = "sweeping", !.job = j, !.row = r, !.n = n, !.seen = seen]
  OBVIOUS
<1>4. x.pc = "sweeping" /\ x.job = j /\ x.row = r /\ x.n = n /\ x.seen = seen
  BY <1>3 DEF Idle
<1>5. wk' = [wk EXCEPT ![w] = x]
  BY <1>1, <1>2, <1>3 DEF SweepRead
<1>6. /\ WorkersMove /\ wk'[w] = x
      /\ \A v \in Workers : v # w => wk'[v] = wk[v]
  BY <1>4, <1>5, WorkerBecomes DEF Asking
<1>7. /\ row' = row /\ job' = job /\ now' = now /\ unheard' = unheard
      /\ RowsMove /\ AttemptsMove /\ NoContact /\ JobsMove
  BY RowsStay, AttemptsStay, JobsStay DEF SweepRead
<1>8. r \in Rows
  BY <1>1 DEF SweepRead, Stale, Unfinished, IInv, Fits, LedgersFit
<1>9. ASSUME seen = "contacted", j \notin unheard
      PROVE  Answerless(r)
  <2>1. ~Settled(r)
    BY <1>2, <1>9 DEF Settled, Answers
  <2>2. Heard(j, n)
    BY <1>2, <1>9, <2>1 DEF Heard, Contacted
  <2>3. HeldRow(r)
    BY <1>1, <2>2 DEF AgreesInv, ContactsHold
  <2>4. \A v \in Workers : wk[v].pc \in Asking => wk[v].row # r
    BY <1>1, <2>2, StaleIsUnasked DEF SweepRead
  <2>5. QED
    BY <2>1, <2>3, <2>4 DEF Answerless, Settled
<1>10. seen = "contacted" => j \in unheard' \/ Answerless(r)'
  BY <1>6, <1>7, <1>8, <1>9, AnswerlessStays
<1>11. Linked(x)' /\ Punctual(x)' /\ Alone(x)'
  BY <1>1, <1>4, <1>7 DEF Linked, Punctual, Alone, Asking
<1>12. Informed(x)'
  BY <1>4, <1>10 DEF Informed, Doubts, Asking
<1>13. QED
  BY <1>6, <1>7, <1>11, <1>12, AgreesMoves DEF Tells

LEMMA SweepWriteAgrees ==
    ASSUME IInv, Params, AgreesInv, NEW w \in Workers, SweepWrite(w)
    PROVE  AgreesInv'
<1>1. PICK z \in Process : /\ z = wk[w] /\ WorkerFit(z) /\ Informed(z) /\ Linked(z)
                           /\ z.pc = "sweeping"
  BY WorkerHas DEF SweepWrite, AgreesInv, WorkersTell, Tells
<1>2. PICK j \in Jobs : j = z.job
  BY <1>1 DEF WorkerFit
<1>3. PICK r : r = job[j].iocEnrichmentId /\ r = z.row
  BY <1>1, <1>2 DEF Linked
<1>4. \/ job' = job
      \/ job' = SettledJob(j, "DEAD_LETTER", TRUE) /\ z.seen = "contacted"
  BY <1>1, <1>2 DEF SweepWrite
<1>5. JobsMove
  <2>1. CASE job' = job
    BY <2>1, JobsStay
  <2>2. CASE job' = SettledJob(j, "DEAD_LETTER", TRUE) /\ z.seen = "contacted"
    <3>1. j \in unheard \/ Answerless(r)
      BY <1>1, <1>2, <1>3, <2>2 DEF Informed, Doubts
    <3>2. QED
      BY <1>3, <2>2, <3>1, JobSettledBy
  <2>3. QED
    BY <1>4, <2>1, <2>2
<1>6. RowsMove /\ AttemptsMove /\ NoContact /\ now' = now /\ unheard' = unheard
  BY RowsStay, AttemptFinalized DEF SweepWrite
<1>7. CASE Work(w, "retiring")
  <2>1. PICK x : Becomes(w, x, "retiring", wk[w].seen, wk[w].since)
    BY <1>7, BecomesPc DEF PCs
  <2>2. Punctual(x)' /\ Informed(x)' /\ x.pc \notin Asking \cup {"releasing"}
    BY <2>1 DEF Punctual, Informed, Doubts, Asking, Becomes
  <2>3. QED
    BY <1>1, <1>5, <1>6, <2>1, <2>2, GoesOnAgrees
<1>8. CASE Rest(w)
  BY <1>5, <1>6, <1>8, RestAgrees
<1>9. QED
  BY <1>7, <1>8 DEF SweepWrite

LEMMA RetireHeldRowAgrees ==
    ASSUME IInv, Params, AgreesInv, NEW w \in Workers, RetireHeldRow(w)
    PROVE  AgreesInv'
<1>1. PICK z \in Process : z = wk[w] /\ WorkerFit(z) /\ z.pc = "retiring"
  BY WorkerHas DEF RetireHeldRow
<1>2. PICK r \in Rows : r = z.row
  BY <1>1 DEF WorkerFit
<1>3. PICK guard \in BOOLEAN : guard = (row[r].status = "PENDING" /\ LeaseFree(r, now))
  OBVIOUS
<1>4. UpdateRowIf(guard, r, ClosedRow(r, "DEAD_LETTER"))
  BY <1>1, <1>2, <1>3 DEF RetireHeldRow
<1>5. RowsMove
  <2>1. RowsKeep
    BY <1>3, <1>4, RowCloses
  <2>2. RowsFinal
    BY RecoveryStepIsFinal DEF Final, RecoveryStep
  <2>3. "DEAD_LETTER" \notin Answers
    BY DEF Answers
  <2>4. QED
    BY <1>4, <2>1, <2>2, <2>3, NewStatus, NoAnswerWritten
<1>6. QED
  BY <1>5, AttemptsStay, JobsStay, RestAgrees DEF RetireHeldRow

-----------------------------------------------------------------------------
(* The batch and the environment.                                          *)

LEMMA BatchAgrees ==
    ASSUME IInv, AgreesInv, RowsMove, UNCHANGED <<job, att, wk, now, unheard>>
    PROVE  AgreesInv'
  BY AttemptsStay, JobsStay, NobodyAgrees

LEMMA BatchListOrLookupAgrees ==
    ASSUME IInv, AgreesInv, NEW b \in Batches,
           \/ \E r \in Rows : ListPendingCandidate(b, r)
           \/ BatchLookup(b) \/ BatchLookupReturns(b)
    PROVE  AgreesInv'
<1>1. row' = row /\ UNCHANGED <<job, att, wk, now, unheard>>
  BY DEF ListPendingCandidate, BatchLookup, BatchLookupReturns
<1>2. QED
  BY <1>1, RowsStay, BatchAgrees

LEMMA SweepExhaustedAgrees ==
    ASSUME IInv, Params, AgreesInv, NEW b \in Batches, SweepExhausted(b)
    PROVE  AgreesInv'
<1>1. PICK z \in Process : z = bt[b] /\ BatchFit(z) /\ z.pc = "listed"
  BY BatchHas DEF SweepExhausted
<1>2. PICK r \in Rows : r = z.row
  BY <1>1 DEF BatchFit
<1>3. PICK guard \in BOOLEAN :
        guard = (/\ row[r].status = "PENDING"
                 /\ row[r].attemptCount >= MaxAttempts
                 /\ LeaseFree(r, z.since))
  OBVIOUS
<1>4. UpdateRowIf(guard, r, ClosedRow(r, "DEAD_LETTER"))
  BY <1>1, <1>2, <1>3 DEF SweepExhausted
<1>5. RowsMove
  <2>1. RowsKeep
    BY <1>3, <1>4, RowCloses
  <2>2. RowsFinal
    BY BatchStepIsFinal DEF Final, BatchStep
  <2>3. "DEAD_LETTER" \notin Answers
    BY DEF Answers
  <2>4. QED
    BY <1>4, <2>1, <2>2, <2>3, NewStatus, NoAnswerWritten
<1>6. QED
  BY <1>5, BatchAgrees DEF SweepExhausted

LEMMA BatchClaimAgrees ==
    ASSUME IInv, Params, AgreesInv, NEW b \in Batches, BatchClaim(b)
    PROVE  AgreesInv'
<1>1. PICK z \in Process : z = bt[b] /\ BatchFit(z) /\ z.pc = "listed"
  BY BatchHas DEF BatchClaim
<1>2. PICK r \in Rows : r = z.row
  BY <1>1 DEF BatchFit
<1>3. PICK asOf \in 0..MaxTime : asOf = z.since
  BY DEF Process
<1>4. RowsMove
  <2>1. CASE Claimable(r, asOf) /\ row[r].attemptCount < MaxAttempts
    <3>1. row[r].claims < MaxClaims /\ row' = [row EXCEPT ![r] = ClaimedRow(r, asOf)]
      BY <1>1, <1>2, <1>3, <2>1 DEF BatchClaim
    <3>2. RowsKeep
      BY <2>1, <3>1, RowIsClaimed
    <3>3. RowsFinal
      BY BatchStepIsFinal DEF Final, BatchStep
    <3>4. UpdateRowIf(TRUE, r, ClaimedRow(r, asOf))
      BY <3>1 DEF UpdateRowIf
    <3>5. QED
      BY <3>2, <3>3, <3>4, NewStatus, NoAnswerWritten
  <2>2. CASE ~(Claimable(r, asOf) /\ row[r].attemptCount < MaxAttempts)
    <3>1. row' = row
      BY <1>1, <1>2, <1>3, <2>2 DEF BatchClaim
    <3>2. QED
      BY <3>1, RowsStay
  <2>3. QED
    BY <2>1, <2>2
<1>5. QED
  BY <1>4, BatchAgrees DEF BatchClaim

LEMMA BatchEndAgrees ==
    ASSUME IInv, Params, AgreesInv, NEW b \in Batches,
           BatchCancelled(b) \/ BatchComplete(b) \/ BatchRetryOrBury(b)
    PROVE  AgreesInv'
<1>1. PICK z \in Process : z = bt[b] /\ BatchFit(z) /\ z.pc \in {"claimed", "calling", "answered"}
  BY BatchHas DEF BatchCancelled, BatchComplete, BatchRetryOrBury
<1>2. PICK r \in Rows : r = z.row
  BY <1>1 DEF BatchFit
<1>3. /\ z.token \in Claims /\ z.token > 0 /\ Unheld(r, z.token)
      /\ z.since + Delay \in Times
  BY <1>1, <1>2, Bounds DEF BatchFit, Process
<1>4. RowsFinal
  BY BatchStepIsFinal DEF Final, BatchStep
<1>5. ASSUME NEW refund \in {0, 1},
             UpdateRowIf(Owns(r, z.token), r, ReleasedRow(r, z.since + Delay, refund))
      PROVE  RowsMove
  <2>1. RowsKeep
    BY <1>3, <1>5, RowIsReleased
  <2>2. QED
    BY <1>4, <1>5, <2>1, NewStatus, NoAnswerWritten
<1>6. ASSUME NEW status \in Answers \cup {"DEAD_LETTER"},
             UpdateRowIf(Owns(r, z.token), r, ClosedRow(r, status))
      PROVE  RowsKeep
  <2>1. PICK guard \in BOOLEAN : guard = Owns(r, z.token)
    BY DEF Owns
  <2>2. UpdateRowIf(guard, r, ClosedRow(r, status))
    BY <1>6, <2>1
  <2>3. QED
    BY <2>1, <2>2, RowCloses DEF Owns
<1>7. CASE BatchCancelled(b)
  <2>1. UpdateRowIf(Owns(r, z.token), r, ReleasedRow(r, z.since + Delay, 1))
    BY <1>1, <1>2, <1>7 DEF BatchCancelled
  <2>2. QED
    BY <1>5, <1>7, <2>1, BatchAgrees DEF BatchCancelled
<1>8. CASE BatchComplete(b)
  <2>1. UpdateRowIf(Owns(r, z.token), r, ClosedRow(r, z.seen)) /\ z.pc = "answered"
    BY <1>1, <1>2, <1>8 DEF BatchComplete
  <2>2. z.seen \in Answers
    BY <1>1, <2>1, Params DEF BatchFit, ParamsAssumption
  <2>3. RowsKeep
    BY <1>6, <2>1, <2>2
  <2>4. ASSUME NEW s \in Rows, row[s].status \notin Answers, row'[s].status \in Answers
        PROVE  Answering(s)
    <3>1. s = r /\ Owns(r, z.token)
      BY <2>1, <2>4 DEF UpdateRowIf, IInv, Fits, TypeOK
    <3>2. QED
      BY <1>1, <1>2, <2>1, <3>1 DEF Answering
  <2>5. RowsMove
    BY <1>4, <2>3, <2>4, RowsMoveBy
  <2>6. QED
    BY <1>8, <2>5, BatchAgrees DEF BatchComplete
<1>9. CASE BatchRetryOrBury(b)
  <2>1. \/ UpdateRowIf(Owns(r, z.token), r, ClosedRow(r, "DEAD_LETTER"))
        \/ UpdateRowIf(Owns(r, z.token), r, ReleasedRow(r, z.since + Delay, 0))
    BY <1>1, <1>2, <1>9 DEF BatchRetryOrBury, UpdateRowIf
  <2>2. RowsMove
    <3>1. CASE UpdateRowIf(Owns(r, z.token), r, ClosedRow(r, "DEAD_LETTER"))
      <4>1. RowsKeep
        BY <1>6, <3>1
      <4>2. "DEAD_LETTER" \notin Answers
        BY DEF Answers
      <4>3. QED
        BY <1>4, <3>1, <4>1, <4>2, NewStatus, NoAnswerWritten
    <3>2. CASE UpdateRowIf(Owns(r, z.token), r, ReleasedRow(r, z.since + Delay, 0))
      BY <1>5, <3>2
    <3>3. QED
      BY <2>1, <3>1, <3>2
  <2>3. QED
    BY <1>9, <2>2, BatchAgrees DEF BatchRetryOrBury
<1>10. QED
  BY <1>7, <1>8, <1>9

\* Time passes for a worker only while it may be held up, or within the bound of its lookup.
LEMMA TickAgrees ==
    ASSUME IInv, Params, AgreesInv, Tick
    PROVE  AgreesInv'
<1>1. /\ row' = row /\ job' = job /\ att' = att /\ wk' = wk /\ now' = now + 1
      /\ unheard' = unheard
  BY DEF Tick
<1>2. RowsMove /\ WorkersMove /\ AttemptsMove /\ JobsMove /\ NoContact
  BY <1>1, RowsStay, WorkersStay, AttemptsStay, JobsStay
<1>3. ASSUME NEW w \in Workers
      PROVE  Tells(wk[w])'
  <2>1. PICK x \in Process : /\ x = wk[w] /\ WorkerFit(x)
                             /\ Linked(x) /\ Punctual(x) /\ Alone(x) /\ Informed(x)
    BY WorkerHas DEF AgreesInv, WorkersTell, Tells
  <2>2. Linked(x)'
    BY <1>1, <2>1 DEF Linked
  <2>3. Informed(x)'
    <3>1. x.pc # "idle" => x.row \in Rows
      BY <2>1 DEF WorkerFit
    <3>2. Doubts(x) => x.pc # "idle"
      BY DEF Doubts
    <3>3. Doubts(x) => x.job \in unheard \/ Answerless(x.row)'
      BY <1>2, <2>1, <3>1, <3>2, AnswerlessStays DEF Informed
    <3>4. QED
      BY <1>1, <2>1, <3>3 DEF Informed, Doubts
  <2>4. Punctual(x)'
    <3>1. x.pc \in MayPause \/ (x.pc = "calling" /\ now < x.since + LookupMax)
      BY <2>1 DEF Tick
    <3>2. CASE x.pc \in MayPause
      BY <3>2 DEF Punctual, MayPause, Asking
    <3>3. CASE x.pc = "calling" /\ now < x.since + LookupMax
      <4>1. now \in Nat /\ x.since \in Nat /\ LookupMax \in Nat
        BY <2>1, CrashesStay, Params DEF Process, ParamsAssumption
      <4>2. now + 1 <= x.since + LookupMax
        BY <3>3, <4>1
      <4>3. /\ att[<<x.job, x.n>>].state # "NONE" /\ att[<<x.job, x.n>>].contactedProvider
            /\ att[<<x.job, x.n>>].startedAt = x.since
        BY <2>1, <3>3 DEF Punctual, Asking
      <4>4. QED
        BY <1>1, <3>3, <4>2, <4>3 DEF Punctual
    <3>4. QED
      BY <3>1, <3>2, <3>3
  <2>5. Alone(x)'
    BY <1>1, <2>1 DEF Alone, Heard, Contacted
  <2>6. wk'[w] = x
    BY <1>1, <2>1
  <2>7. QED
    BY <2>2, <2>3, <2>4, <2>5, <2>6 DEF Tells, Linked, Punctual, Alone, Informed, Doubts
<1>4. QED
  BY <1>1, <1>2, <1>3, ContactsStand, JobsTell DEF AgreesInv, WorkersTell, Tells

LEMMA AgreesHolds ==
    ASSUME IInv, Params, AgreesInv, [Next]_vars
    PROVE  AgreesInv'
<1>1. ASSUME NEW w \in Workers, TargetedStep(w)
      PROVE  AgreesInv'
  BY <1>1, ListTargetedCandidateAgrees, ClaimTargetedAgrees, RefuseBeforeLookupAgrees,
     ReserveTargetedAgrees, ContactAgrees, ContactUnheardAgrees, ReleaseAndReturnAgrees,
     StartTargetedLookupAgrees, TargetedLookupReturnsAgrees, TargetedLookupFailsAgrees, CompleteTargetedAgrees, FinalizeCompletedAgrees, BuryRowAgrees,
     FinalizeAbandonedAgrees, SettleJobAgrees
  DEF TargetedStep
<1>2. ASSUME NEW w \in Workers, RecoveryStep(w)
      PROVE  AgreesInv'
  BY <1>2, ReconcileDelegatedJobAgrees, SweepReadAgrees, SweepWriteAgrees, RetireHeldRowAgrees
  DEF RecoveryStep
<1>3. ASSUME NEW b \in Batches, BatchStep(b)
      PROVE  AgreesInv'
  BY <1>3, BatchListOrLookupAgrees, SweepExhaustedAgrees, BatchClaimAgrees, BatchEndAgrees
  DEF BatchStep
<1>4. ASSUME NEW w \in Workers, WorkerCrash(w)
      PROVE  AgreesInv'
  BY <1>4, RowsStay, AttemptsStay, JobsStay, RestAgrees DEF WorkerCrash
<1>5. ASSUME NEW b \in Batches, BatchCrash(b)
      PROVE  AgreesInv'
  BY <1>5, RowsStay, BatchAgrees DEF BatchCrash
<1>6. CASE UNCHANGED vars
  BY <1>6, RowsStay, BatchAgrees DEF vars
<1>7. QED
  BY <1>1, <1>2, <1>3, <1>4, <1>5, <1>6, AskAgrees, TickAgrees DEF Next

\* A job that was settled says what its delegate says, or was refused before any call; and one
\* that was given up has a delegate without an answer that none can reach any more, unless a
\* write of its own worker committed and was answered with an error: whoever crashes, whichever
\* statement fails, however long a lease is, and whichever of the recovery passes comes first.
THEOREM JobsSayWhatDelegatesSay == Spec => []JobAgreesWithDelegate
<1>1. Init => AgreesInv
  <2> SUFFICES ASSUME Init
               PROVE  AgreesInv
    OBVIOUS
  <2>1. WorkersTell
    BY DEF Init, WorkersTell, Tells, Linked, Punctual, Alone, Informed, Doubts, Idle, Asking
  <2>2. ContactsHold
    BY DEF Init, ContactsHold, Heard, Contacted, NoAttempt
  <2>3. \A j \in Jobs : JobTells(j)
    BY JobVerdicts DEF Init, JobTells, NoJob
  <2>4. QED
    BY <2>1, <2>2, <2>3 DEF AgreesInv
<1>2. IInv /\ AgreesInv /\ [Next]_vars => AgreesInv'
  BY Params, AgreesHolds
<1>3. AgreesInv => JobAgreesWithDelegate
  BY DEF AgreesInv, JobTells, Answerless, JobAgreesWithDelegate
<1>4. QED
  BY <1>1, <1>2, <1>3, Invariance, PTL DEF Spec
=============================================================================
