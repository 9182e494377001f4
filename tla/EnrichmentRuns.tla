--------------------------- MODULE EnrichmentRuns ---------------------------
(***************************************************************************)
(* Enrichment runs: one finding's request to be enriched, its decision for *)
(* each target, and the lookup jobs that several requests share.           *)
(*                                                                         *)
(* A request finds or creates the run of its idempotency key, writes the   *)
(* items the run still lacks, and derives the run's state from its items.  *)
(* Nothing of this is in a transaction: two requests under one key, and a  *)
(* request that died half way, converge by unique constraints alone.  The  *)
(* workers that settle the jobs derive the states of all affected runs     *)
(* again, and a general pass finds the runs that were missed.              *)
(*                                                                         *)
(* How a job is worked off is the matter of DirectLookup and               *)
(* DelegatedLookup; here it is claimed, given back and settled.  Each      *)
(* action is one statement.                                                *)
(***************************************************************************)
EXTENDS Integers, FiniteSets

CONSTANTS
    Runs,        \* the idempotency keys, each the name of its run
    NTargets,    \* (provider, subject) pairs, numbered in the order they are assembled
    Scope,       \* the targets of each key: requestScopeHash is part of the key
    Forced,      \* the keys that bypass freshness
    Refused,     \* the targets each key is refused: unsupported, unconfigured, no budget
    Delegated,   \* the targets whose work another queue does
    Requests,    \* processes that create a run
    Workers,     \* enrichment worker processes
    MaxJobs,     \* bound on the jobs of one target
    MaxReturns,  \* bound on the leases given back to the queue
    MaxDeaths    \* bound on the processes that die, or whose statement fails

VARIABLES
    run,         \* the FindingEnrichmentRun rows
    item,        \* the FindingEnrichmentRunItem rows, by run and target
    job,         \* the ProviderLookupJob rows, by target and age
    rq,          \* each request's program counter and local variables
    wk,          \* each worker's
    returns,     \* leases given back so far
    deaths       \* deaths so far

runVars == <<run, item, job, rq, wk, returns, deaths>>

Targets == 1..NTargets
Jobs == Targets \X (1..MaxJobs)
NoJobId == <<0, 0>>

Open == {"PENDING", "LEASED", "WAITING_ON_DELEGATE"}
Closed == {"SUCCEEDED", "FAILED"}
TerminalRunStates == {"SUCCEEDED", "PARTIAL", "FAILED", "SKIPPED"}
RunStates == {"PENDING", "RUNNING"} \cup TerminalRunStates
Decisions == {"ELIGIBLE", "SKIPPED"}

\* "settled" is history: the jobs that were settled when the run was asked for.
Run == [state: {"ABSENT"} \cup RunStates, settled: SUBSET Jobs]
Item == [decision: {"ABSENT"} \cup Decisions, job: Jobs \cup {NoJobId}]
\* SUCCEEDED stands for NO_RECORD too, FAILED for every other terminal state.
Job == [state: {"ABSENT"} \cup Open \cup Closed, fresh: BOOLEAN]

NoRun == [state |-> "ABSENT", settled |-> {}]
NoItem == [decision |-> "ABSENT", job |-> NoJobId]
NoJob == [state |-> "ABSENT", fresh |-> FALSE]

\* todo are the targets a request has still to deal with in its present loop.
RequestPCs == {"idle", "routing", "finding", "creating", "listing", "resolving", "delegating",
               "opening", "colliding", "writing", "storing", "answered", "failed"}
Request == [pc: RequestPCs, run: Runs \cup {"none"}, todo: SUBSET Targets,
            route: [Targets -> Decisions], item: Item, state: {"ABSENT"} \cup RunStates]
NewRequest == [pc |-> "idle", run |-> "none", todo |-> {}, route |-> [t \in Targets |-> "SKIPPED"],
               item |-> NoItem, state |-> "ABSENT"]

Worker == [pc: {"idle", "listing", "refreshing", "storing"}, job: Jobs \cup {NoJobId},
           runs: SUBSET Runs, run: Runs \cup {"none"}, state: {"ABSENT"} \cup RunStates]
IdleWorker == [pc |-> "idle", job |-> NoJobId, runs |-> {}, run |-> "none", state |-> "ABSENT"]

RunParamsAssumption ==
    /\ NTargets \in Nat /\ MaxJobs \in Nat /\ MaxReturns \in Nat /\ MaxDeaths \in Nat
    /\ "none" \notin Runs
    /\ Scope \in [Runs -> SUBSET (1..NTargets)]
    /\ Refused \in [Runs -> SUBSET (1..NTargets)]
    /\ Forced \subseteq Runs
    /\ Delegated \subseteq 1..NTargets
ASSUME RunParams == RunParamsAssumption

RunInit ==
    /\ run = [k \in Runs |-> NoRun]
    /\ item = [i \in Runs \X Targets |-> NoItem]
    /\ job = [j \in Jobs |-> NoJob]
    /\ rq = [q \in Requests |-> NewRequest]
    /\ wk = [w \in Workers |-> IdleWorker]
    /\ returns = 0
    /\ deaths = 0

-----------------------------------------------------------------------------
(* Reads.                                                                  *)

IsOpen(j) == job[j].state \in Open
IsSettled(j) == job[j].state \in Closed
OpenJobs(t) == {j \in Jobs : j[1] = t /\ IsOpen(j)}
HasFresh(t) == \E j \in Jobs : j[1] = t /\ job[j].fresh
Present(k) == {t \in Targets : item[<<k, t>>].decision # "ABSENT"}
Eligible(k) == {t \in Targets : item[<<k, t>>].decision = "ELIGIBLE"}
JobsOf(k) == {item[<<k, t>>].job : t \in Eligible(k)}
First(S) == CHOOSE t \in S : \A u \in S : t <= u

\* The state of a run is a function of its items and their jobs.
RecomputeRunState(k) ==
    LET states == {job[j].state : j \in JobsOf(k)} IN
    CASE states = {}               -> "SKIPPED"
      [] "LEASED" \in states       -> "RUNNING"
      [] states \cap Open # {}     -> "PENDING"
      [] states = {"SUCCEEDED"}    -> "SUCCEEDED"
      [] states = {"FAILED"}       -> "FAILED"
      [] OTHER                     -> "PARTIAL"

\* Slip: an item without a job counts as unfinished.
StaleIgnoringSkips(k) ==
    /\ run[k].state \in {"PENDING", "RUNNING"}
    /\ Present(k) # {} /\ Present(k) = Eligible(k)
    /\ \A j \in JobsOf(k) : IsSettled(j)

\* A run that is reported unfinished while all its work is done.  One without items is
\* still being created.
StaleNonTerminal(k) ==
    /\ run[k].state \in {"PENDING", "RUNNING"}
    /\ Present(k) # {}
    /\ \A j \in JobsOf(k) : IsSettled(j)

-----------------------------------------------------------------------------
(* A request.                                                              *)

Local(q, new) == rq' = [rq EXCEPT ![q] = new]
Goto(q, pc) == rq' = [rq EXCEPT ![q].pc = pc]
End(q, pc) == Local(q, [NewRequest EXCEPT !.pc = pc, !.run = rq[q].run])

Ask(q, k) ==
    /\ rq[q].pc = "idle"
    /\ Local(q, [rq[q] EXCEPT !.pc = "routing", !.run = k, !.todo = Scope[k]])
    /\ UNCHANGED <<run, item, job, wk, returns, deaths>>

\* Whether work is warranted: not for a target that is refused, nor for one with a fresh
\* answer unless the request forces a new one.
Route(k, t) ==
    IF t \in Refused[k] \/ (HasFresh(t) /\ k \notin Forced) THEN "SKIPPED" ELSE "ELIGIBLE"

RouteTarget(q) ==
    LET t == First(rq[q].todo) IN
    /\ rq[q].pc = "routing" /\ rq[q].todo # {}
    /\ Local(q, [rq[q] EXCEPT !.todo = @ \ {t}, !.route[t] = Route(rq[q].run, t)])
    /\ UNCHANGED <<run, item, job, wk, returns, deaths>>

\* The run of the key, if there is one; otherwise one is created, and a collision looks
\* again.
FindRun(q) ==
    /\ \/ rq[q].pc = "routing" /\ rq[q].todo = {}
       \/ rq[q].pc = "finding"
    /\ Goto(q, IF run[rq[q].run].state = "ABSENT" THEN "creating" ELSE "listing")
    /\ UNCHANGED <<run, item, job, wk, returns, deaths>>

CreateRun(q) ==
    LET k == rq[q].run IN
    /\ rq[q].pc = "creating"
    /\ IF run[k].state = "ABSENT"
       THEN /\ run' = [run EXCEPT ![k] = [state |-> "PENDING", settled |-> {j \in Jobs : IsSettled(j)}]]
            /\ Goto(q, "listing")
       ELSE Goto(q, "finding") /\ UNCHANGED run
    /\ UNCHANGED <<item, job, wk, returns, deaths>>

\* Slip: only the creator of a run, or one that finds it empty, writes its items.
ListItemsWhenEmpty(q) ==
    LET k == rq[q].run IN
    /\ rq[q].pc = "listing"
    /\ Local(q, [rq[q] EXCEPT !.pc = "resolving", !.todo = IF Present(k) = {} THEN Scope[k] ELSE {}])
    /\ UNCHANGED <<run, item, job, wk, returns, deaths>>

\* Every request attempts the complete set and writes what is missing.
ListItems(q) ==
    LET k == rq[q].run IN
    /\ rq[q].pc = "listing"
    /\ Local(q, [rq[q] EXCEPT !.pc = "resolving", !.todo = Scope[k] \ Present(k)])
    /\ UNCHANGED <<run, item, job, wk, returns, deaths>>

Share(j) == [decision |-> "ELIGIBLE", job |-> j]
Skip == [decision |-> "SKIPPED", job |-> NoJobId]

\* Slip: the latest job of the target is shared, settled or not.
ResolveWithLatest(q) ==
    LET t == First(rq[q].todo)
        known == {j \in Jobs : j[1] = t /\ job[j].state # "ABSENT"} IN
    /\ rq[q].pc = "resolving" /\ rq[q].todo # {}
    /\ Local(q, CASE rq[q].route[t] = "SKIPPED" -> [rq[q] EXCEPT !.pc = "writing", !.item = Skip]
                  [] known # {} /\ rq[q].route[t] = "ELIGIBLE" ->
                         [rq[q] EXCEPT !.pc = "writing",
                            !.item = Share(CHOOSE j \in known : \A i \in known : i[2] <= j[2])]
                  [] OTHER -> [rq[q] EXCEPT !.pc = IF t \in Delegated THEN "delegating" ELSE "opening"])
    /\ UNCHANGED <<run, item, job, wk, returns, deaths>>

\* Whether work is possible: an open job of the same work identity is shared, whoever
\* asked for it.
ResolveTarget(q) ==
    LET t == First(rq[q].todo) IN
    /\ rq[q].pc = "resolving" /\ rq[q].todo # {}
    /\ Local(q, CASE rq[q].route[t] = "SKIPPED" -> [rq[q] EXCEPT !.pc = "writing", !.item = Skip]
                  [] OpenJobs(t) # {} /\ rq[q].route[t] = "ELIGIBLE" ->
                         [rq[q] EXCEPT !.pc = "writing",
                                       !.item = Share(CHOOSE j \in OpenJobs(t) : TRUE)]
                  [] OTHER -> [rq[q] EXCEPT !.pc = IF t \in Delegated THEN "delegating" ELSE "opening"])
    /\ UNCHANGED <<run, item, job, wk, returns, deaths>>

\* The other queue answers from its cache (never to a forced request), cannot take the
\* question, or has a row for the job to wait on.
EstablishDelegate(q) ==
    /\ rq[q].pc = "delegating"
    /\ \/ Local(q, [rq[q] EXCEPT !.pc = "writing", !.item = Skip])
       \/ Goto(q, "opening")
    /\ UNCHANGED <<run, item, job, wk, returns, deaths>>

\* activeLookupKey admits one open job of a target.
CreateJob(q) ==
    LET t == First(rq[q].todo)
        n == Cardinality({j \in Jobs : j[1] = t /\ job[j].state # "ABSENT"}) + 1 IN
    /\ rq[q].pc = "opening"
    /\ IF OpenJobs(t) = {}
       THEN /\ n <= MaxJobs
            /\ job' = [job EXCEPT ![<<t, n>>].state =
                           IF t \in Delegated THEN "WAITING_ON_DELEGATE" ELSE "PENDING"]
            /\ Local(q, [rq[q] EXCEPT !.pc = "writing", !.item = Share(<<t, n>>)])
       ELSE Goto(q, "colliding") /\ UNCHANGED job
    /\ UNCHANGED <<run, item, wk, returns, deaths>>

\* The job that won is shared, unless it has been settled since: then the request fails.
ReadWinner(q) ==
    LET open == OpenJobs(First(rq[q].todo)) IN
    /\ rq[q].pc = "colliding"
    /\ IF open # {}
       THEN Local(q, [rq[q] EXCEPT !.pc = "writing", !.item = Share(CHOOSE j \in open : TRUE)])
       ELSE End(q, "failed")
    /\ UNCHANGED <<run, item, job, wk, returns, deaths>>

\* An item that somebody else has written stays as it is.
WriteItem(q) ==
    LET t == First(rq[q].todo)
        i == <<rq[q].run, t>> IN
    /\ rq[q].pc = "writing"
    /\ item' = IF item[i] = NoItem THEN [item EXCEPT ![i] = rq[q].item] ELSE item
    /\ Local(q, [rq[q] EXCEPT !.pc = "resolving", !.todo = @ \ {t}, !.item = NoItem,
                             !.route[t] = "SKIPPED"])
    /\ UNCHANGED <<run, job, wk, returns, deaths>>

\* refreshRunState: a reading of the items, and an update that nothing guards.
ReadItems(q) ==
    /\ rq[q].pc = "resolving" /\ rq[q].todo = {}
    /\ Local(q, [rq[q] EXCEPT !.pc = "storing", !.state = RecomputeRunState(rq[q].run)])
    /\ UNCHANGED <<run, item, job, wk, returns, deaths>>

StoreState(q) ==
    /\ rq[q].pc = "storing"
    /\ run' = [run EXCEPT ![rq[q].run].state = rq[q].state]
    /\ End(q, "answered")
    /\ UNCHANGED <<item, job, wk, returns, deaths>>

RequestFails(q) ==
    /\ rq[q].pc \notin {"idle", "answered", "failed"}
    /\ deaths < MaxDeaths
    /\ deaths' = deaths + 1
    /\ End(q, "failed")
    /\ UNCHANGED <<run, item, job, wk, returns>>

-----------------------------------------------------------------------------
(* The jobs and the workers.                                               *)

ClaimJob(j) ==
    /\ job[j].state = "PENDING"
    /\ job' = [job EXCEPT ![j].state = "LEASED"]
    /\ UNCHANGED <<run, item, rq, wk, returns, deaths>>

ReturnJob(j) ==
    /\ job[j].state = "LEASED"
    /\ returns < MaxReturns
    /\ job' = [job EXCEPT ![j].state = "PENDING"]
    /\ returns' = returns + 1
    /\ UNCHANGED <<run, item, rq, wk, deaths>>

Settled(j, state, fresh) == job' = [job EXCEPT ![j].state = state, ![j].fresh = fresh]

\* A lease given up with the last attempt closes the job, and no run is refreshed.
ExhaustJob(j) ==
    /\ job[j].state = "LEASED"
    /\ Settled(j, "FAILED", FALSE)
    /\ UNCHANGED <<run, item, rq, wk, returns, deaths>>

\* Every other way a job is settled refreshes the runs that hold an item of it.
SettleJob(w, j) ==
    /\ wk[w].pc = "idle"
    /\ job[j].state \in {"LEASED", "WAITING_ON_DELEGATE"}
    /\ \E state \in Closed, fresh \in BOOLEAN :
          (fresh => state = "SUCCEEDED") /\ Settled(j, state, fresh)
    /\ wk' = [wk EXCEPT ![w] = [IdleWorker EXCEPT !.pc = "listing", !.job = j]]
    /\ UNCHANGED <<run, item, rq, returns, deaths>>

\* freshUntil passes.
AnswerExpires(j) ==
    /\ job[j].fresh
    /\ job' = [job EXCEPT ![j].fresh = FALSE]
    /\ UNCHANGED <<run, item, rq, wk, returns, deaths>>

ListRunIdsForJob(w) ==
    LET runs == {k \in Runs : wk[w].job \in JobsOf(k)} IN
    /\ wk[w].pc = "listing"
    /\ wk' = [wk EXCEPT ![w] = IF runs = {} THEN IdleWorker
                               ELSE [IdleWorker EXCEPT !.pc = "refreshing", !.runs = runs]]
    /\ UNCHANGED <<run, item, job, rq, returns, deaths>>

\* reconcileRunStates: the general pass.
ListStaleRuns(w) ==
    LET runs == {k \in Runs : StaleNonTerminal(k)} IN
    /\ wk[w].pc = "idle"
    /\ runs # {}
    /\ wk' = [wk EXCEPT ![w] = [IdleWorker EXCEPT !.pc = "refreshing", !.runs = runs]]
    /\ UNCHANGED <<run, item, job, rq, returns, deaths>>

RefreshRead(w, k) ==
    /\ wk[w].pc = "refreshing" /\ k \in wk[w].runs
    /\ wk' = [wk EXCEPT ![w].pc = "storing", ![w].run = k, ![w].state = RecomputeRunState(k)]
    /\ UNCHANGED <<run, item, job, rq, returns, deaths>>

RefreshStore(w) ==
    LET left == wk[w].runs \ {wk[w].run} IN
    /\ wk[w].pc = "storing"
    /\ run' = [run EXCEPT ![wk[w].run].state = wk[w].state]
    /\ wk' = [wk EXCEPT ![w] = IF left = {} THEN IdleWorker
                               ELSE [IdleWorker EXCEPT !.pc = "refreshing", !.runs = left]]
    /\ UNCHANGED <<item, job, rq, returns, deaths>>

WorkerCrash(w) ==
    /\ wk[w].pc # "idle"
    /\ deaths < MaxDeaths
    /\ deaths' = deaths + 1
    /\ wk' = [wk EXCEPT ![w] = IdleWorker]
    /\ UNCHANGED <<run, item, job, rq, returns>>

-----------------------------------------------------------------------------
RequestStep(q) ==
    \/ RouteTarget(q) \/ FindRun(q) \/ CreateRun(q) \/ ListItems(q) \/ ResolveTarget(q)
    \/ EstablishDelegate(q) \/ CreateJob(q) \/ ReadWinner(q) \/ WriteItem(q)
    \/ ReadItems(q) \/ StoreState(q)

WorkerStep(w) ==
    \/ ListRunIdsForJob(w) \/ ListStaleRuns(w) \/ RefreshStore(w)
    \/ \E k \in Runs : RefreshRead(w, k)

JobStep(j) == ClaimJob(j) \/ ReturnJob(j) \/ ExhaustJob(j) \/ AnswerExpires(j)

RunNext ==
    \/ \E q \in Requests : RequestStep(q) \/ RequestFails(q) \/ \E k \in Runs : Ask(q, k)
    \/ \E w \in Workers : WorkerStep(w) \/ WorkerCrash(w) \/ \E j \in Jobs : SettleJob(w, j)
    \/ \E j \in Jobs : JobStep(j)

RunSpec == RunInit /\ [][RunNext]_runVars

\* Requests run on, workers tick for ever, and what they hold they settle: DirectLookup
\* checks that a job does not stay open.
Fairness ==
    /\ \A q \in Requests : WF_runVars(RequestStep(q))
    /\ \A w \in Workers : WF_runVars(WorkerStep(w))
    /\ \A j \in Jobs : WF_runVars(ClaimJob(j)) /\ SF_runVars(\E w \in Workers : SettleJob(w, j))

FairRunSpec == RunSpec /\ Fairness

-----------------------------------------------------------------------------
(* What must hold.                                                         *)

\* Every row keeps to the values its columns allow.
RunTypeOK ==
    /\ run \in [Runs -> Run]
    /\ item \in [Runs \X Targets -> Item]
    /\ job \in [Jobs -> Job]
    /\ rq \in [Requests -> Request]
    /\ wk \in [Workers -> Worker]
    /\ returns \in 0..MaxReturns
    /\ deaths \in 0..MaxDeaths

\* A request that was answered leaves no target undecided, even one that joined a run
\* whose creator died between two items, or is still writing them.
AnsweredRunIsWhole ==
    \A q \in Requests : rq[q].pc = "answered" => Present(rq[q].run) = Scope[rq[q].run]

\* The work of a run is its own target's, and was not over before the run was asked for:
\* no request, and none that forces a new answer, is given an old one as if it were new.
WorkIsNew ==
    \A k \in Runs, t \in Targets :
        item[<<k, t>>].decision = "ELIGIBLE" =>
            item[<<k, t>>].job[1] = t /\ item[<<k, t>>].job \notin run[k].settled

\* No run is reported unfinished for ever while all of its work has finished: neither one
\* whose refresh was lost in a crash, nor one that a late refresh set back.
RunsConclude ==
    \A k \in Runs : Present(k) # {} ~> [](run[k].state \in TerminalRunStates)

-----------------------------------------------------------------------------
(* What comments of the code say and these steps do not keep.              *)

Busy(k) == \/ \E q \in Requests : rq[q].run = k /\ rq[q].pc \notin {"answered", "failed"}
           \/ \E w \in Workers : wk[w].pc = "listing" \/ k \in wk[w].runs

\* "Without this guard a run whose items are not yet visible could be settled out from
\* under its own creation": when nobody is at work on a run that is reported finished,
\* and nobody died, the report is what its items say.
FinishedRunIsTrue ==
    \A k \in Runs : /\ run[k].state \in TerminalRunStates
                    /\ ~Busy(k) /\ deaths = 0
                    => run[k].state = RecomputeRunState(k)
=============================================================================
