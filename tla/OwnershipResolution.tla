------------------------- MODULE OwnershipResolution -------------------------
(***************************************************************************)
(* Who owns a finding: the registry of asset mappings, the ownership row   *)
(* the resolver derives from it for each finding, the analyst's override,  *)
(* and the paged sweep that decides again after a mapping was changed.     *)
(*                                                                         *)
(* A finding is resolved in a serializable transaction: a snapshot of its  *)
(* row and of the registry, and a commit that is refused when the row was  *)
(* replaced meanwhile.  The registry is written by plain statements, which *)
(* no serializable transaction conflicts with.  A sweep reads its page,    *)
(* outside any transaction, from two sources, and resolves the findings of *)
(* the page one by one.                                                    *)
(*                                                                         *)
(* Times are left out: a mapping counts as enabled from its creation to    *)
(* its disabling.  Every finding has an IPv4 address.                      *)
(***************************************************************************)
EXTENDS Integers, FiniteSetsExt

CONSTANTS
    Findings,    \* finding ids, positive: the cursor of a sweep runs over them
    Mappings,    \* asset mapping ids, positive: the lowest one names a decision
    Orgs,        \* organizations
    Tier,        \* the precedence of each mapping: AsnTier, then CIDRs by length, then exact
    Inside,      \* the findings whose address lies in the range of each mapping
    Prefixed,    \* those the octet prefixes of the range select in the database
    ReportedAs,  \* the findings reported under the AS number of each ASN mapping
    Requests,    \* requests of admins, analysts and report ingestion
    Take,        \* the batch size of a sweep
    MaxTries,    \* attempts of one serializable transaction
    MaxDeaths    \* bound on the processes that die

VARIABLES
    reg,         \* the AssetMapping rows
    found,       \* the findings that exist
    own,         \* the current FindingOwnership row of each finding
    req,         \* each request's program counter and local variables
    deaths,      \* processes that died so far
    excused      \* history: findings whose row is stale for one of the reasons in Excuses

vars == <<reg, found, own, req, deaths, excused>>

AsnTier == 0
NoOrg == "none"
NoMapping == 0

\* A mapping that was not created yet is never enabled.
Mapping == [made: BOOLEAN, enabled: BOOLEAN, org: Orgs \cup {NoOrg}]
NotMade == [made |-> FALSE, enabled |-> FALSE, org |-> NoOrg]

Statuses == {"RESOLVED", "AMBIGUOUS", "UNRESOLVED", "OVERRIDDEN"}

\* What the resolver decides.  The tier stands for confidence, matched prefix length,
\* reason and ISP attribution; count is candidateCount.
Decision(status, org, m, tier, count) ==
    [status |-> status, org |-> org, mapping |-> m, tier |-> tier, count |-> count]
Unresolved == Decision("UNRESOLVED", NoOrg, NoMapping, -1, 0)
Overridden(org) == Decision("OVERRIDDEN", org, NoMapping, -1, 1)

\* The id counts the rows the finding has had; 0 is no row.
NoRow == [id |-> 0, is |-> Unresolved]

Kinds == {"CREATE", "UPDATE", "DISABLE", "SWEEP", "INGEST", "OVERRIDE", "CLEAR"}
RequestPCs == {"idle", "changing", "selecting", "working", "resolving",
               "truncated", "done", "dead"}
Unread == {-1}
NewRequest ==
    [pc |-> "idle", kind |-> "SWEEP", mapping |-> NoMapping, before |-> NotMade, asn |-> FALSE,
     cursor |-> 0, range |-> Unread, prior |-> Unread, page |-> {}, next |-> 0, more |-> FALSE,
     snapshot |-> [m \in Mappings |-> NotMade], row |-> NoRow, tries |-> 0]

ParamsAssumption ==
    /\ Findings \subseteq Nat \ {0} /\ IsFiniteSet(Findings)
    /\ Mappings \subseteq Nat \ {0} /\ IsFiniteSet(Mappings)
    /\ NoOrg \notin Orgs
    /\ Tier \in [Mappings -> Nat]
    /\ Inside \in [Mappings -> SUBSET Findings]
    /\ Prefixed \in [Mappings -> SUBSET Findings]
    /\ ReportedAs \in [Mappings -> SUBSET Findings]
    /\ \A m \in Mappings : /\ Inside[m] \subseteq Prefixed[m]
                           /\ Tier[m] = AsnTier => Prefixed[m] = {}
    /\ Take \in Nat \ {0}
    /\ MaxTries \in Nat \ {0}
    /\ MaxDeaths \in Nat

ASSUME Params == ParamsAssumption

-----------------------------------------------------------------------------
(* The resolver. *)

Covers(m, f, asn) ==
    IF Tier[m] = AsnTier THEN asn /\ f \in ReportedAs[m] ELSE f \in Inside[m]

Hits(f, registry, asn) == {m \in Mappings : registry[m].enabled /\ Covers(m, f, asn)}

\* An exact address goes before a range, a longer prefix before a shorter one, and any of
\* them before an AS number: only the best tier decides, and there only if it is of one mind.
BestTier(hits) == {m \in hits : \A k \in hits : Tier[k] <= Tier[m]}

Decide(f, registry, asn) ==
    LET best == BestTier(Hits(f, registry, asn))
        orgs == {registry[m].org : m \in best}
        tier == Tier[Min(best)]
    IN  IF best = {} THEN Unresolved
        ELSE IF Cardinality(orgs) = 1
             THEN Decision("RESOLVED", CHOOSE o \in orgs : TRUE, Min(best), tier, 1)
             ELSE Decision("AMBIGUOUS", NoOrg, NoMapping, tier, Cardinality(orgs))

\* An override is fed back into the resolver, and wins.
Resolve(f, registry, row, asn) ==
    IF row.is.status = "OVERRIDDEN" THEN row.is ELSE Decide(f, registry, asn)

\* The issues of the consistency check that the resolver's rows can have: the mapping
\* the row names is disabled, or the row is not what the resolver would now decide.
IsIspAttribution(row) == row.is.tier = AsnTier
Inconsistent(f) ==
    LET row == own[f]
    IN  /\ row.id > 0
        /\ row.is.status # "OVERRIDDEN"
        /\ \/ row.is.mapping \in Mappings /\ ~reg[row.is.mapping].enabled
           \/ ~IsIspAttribution(row) /\ row.is # Decide(f, reg, FALSE)

-----------------------------------------------------------------------------
(* Writing the registry. *)

\* An answered request keeps nothing but what it was.
Finished(q, pc) == [NewRequest EXCEPT !.pc = pc, !.kind = q.kind]

Set(r, fields) == req' = [req EXCEPT ![r] = fields]

\* The runBoundedReResolution that follows a mutation starts behind id 0.
Sweeping(q, cursor) ==
    [q EXCEPT !.pc = "selecting", !.cursor = cursor, !.range = Unread, !.prior = Unread]

\* createAssetMapping, then the sweep.
CreateMapping(r) ==
    /\ req[r].pc = "idle"
    /\ \E m \in Mappings, org \in Orgs :
          /\ ~reg[m].made
          /\ reg' = [reg EXCEPT ![m] = [made |-> TRUE, enabled |-> TRUE, org |-> org]]
          /\ Set(r, Sweeping([req[r] EXCEPT !.kind = "CREATE", !.mapping = m], 0))
    /\ UNCHANGED <<found, own, deaths, excused>>

\* updateAssetMapping and disableAssetMapping read the row first ...
ReadMapping(r) ==
    /\ req[r].pc = "idle"
    /\ \E m \in Mappings, kind \in {"UPDATE", "DISABLE"} :
          /\ reg[m].made
          /\ Set(r, [req[r] EXCEPT !.pc = "changing", !.kind = kind, !.mapping = m,
                                   !.before = reg[m]])
    /\ UNCHANGED <<reg, found, own, deaths, excused>>

\* ... and write it with a statement of its own.  The findings a mapping may decide:
Affected(m) == Inside[m] \cup {f \in Findings : own[f].is.mapping = m}

\* isPrecedenceRelevantChange compares with what was read.
UpdateMapping(r) ==
    LET m == req[r].mapping IN
    /\ req[r].pc = "changing" /\ req[r].kind = "UPDATE"
    /\ \E org \in Orgs :
          /\ reg' = [reg EXCEPT ![m].org = org]
          /\ IF org # req[r].before.org
             THEN /\ Set(r, Sweeping(req[r], 0))
                  /\ UNCHANGED excused
             ELSE /\ Set(r, Finished(req[r], "done"))
                  /\ excused' = IF org # reg[m].org THEN excused \cup Affected(m) ELSE excused
    /\ UNCHANGED <<found, own, deaths>>

DisableMapping(r) ==
    LET m == req[r].mapping IN
    /\ req[r].pc = "changing" /\ req[r].kind = "DISABLE"
    /\ IF req[r].before.enabled
       THEN /\ reg' = [reg EXCEPT ![m].enabled = FALSE]
            /\ Set(r, Sweeping(req[r], 0))
       ELSE /\ Set(r, Finished(req[r], "done"))
            /\ UNCHANGED reg
    /\ UNCHANGED <<found, own, deaths, excused>>

-----------------------------------------------------------------------------
(* The sweep: one page of findings that a mapping may decide. *)

\* An admin asks for a sweep, or continues one with the token the last page was
\* answered with; no token is issued for a cursor that is still 0.
AskForSweep(r) ==
    /\ req[r].pc = "idle"
    /\ \E m \in Mappings :
          /\ reg[m].made
          /\ Set(r, Sweeping([req[r] EXCEPT !.kind = "SWEEP", !.mapping = m], 0))
    /\ UNCHANGED <<reg, found, own, deaths, excused>>

ContinueSweep(r) ==
    /\ req[r].pc = "truncated"
    /\ req[r].next > 0
    /\ Set(r, Sweeping(req[r], req[r].next))
    /\ UNCHANGED <<reg, found, own, deaths, excused>>

\* ORDER BY id ASC, with a limit.
Lowest(ids, n) == {f \in ids : Cardinality({g \in ids : g < f}) < n}

SelectRange(r) ==
    LET q == req[r] IN
    /\ q.pc = "selecting" /\ q.range = Unread
    /\ Set(r, [q EXCEPT !.range = Lowest({f \in Prefixed[q.mapping] \cap found : f > q.cursor}, Take)])
    /\ UNCHANGED <<reg, found, own, deaths, excused>>

SelectPrior(r) ==
    LET q == req[r] IN
    /\ q.pc = "selecting" /\ q.prior = Unread
    /\ Set(r, [q EXCEPT !.prior =
                 Lowest({f \in Findings : own[f].is.mapping = q.mapping /\ f > q.cursor}, Take)])
    /\ UNCHANGED <<reg, found, own, deaths, excused>>

\* Slip: the cursor goes to the end of what was read, not of what fits the page.
MergePageOvershooting(r) ==
    LET q == req[r]
        ids == (q.range \cap Inside[q.mapping]) \cup q.prior
        page == Lowest(ids, Take)
    IN  /\ q.pc = "selecting" /\ q.range # Unread /\ q.prior # Unread
        /\ Set(r, [q EXCEPT !.pc = "working", !.page = page, !.before = NotMade,
                            !.more = \/ Cardinality(ids) > Take
                                     \/ Cardinality(q.range) = Take
                                     \/ Cardinality(q.prior) = Take,
                            !.next = IF ids = {} THEN q.cursor ELSE Max(ids)])
        /\ UNCHANGED <<reg, found, own, deaths, excused>>

MergePage(r) ==
    LET q == req[r]
        ids == (q.range \cap Inside[q.mapping]) \cup q.prior
        page == Lowest(ids, Take)
    IN  /\ q.pc = "selecting" /\ q.range # Unread /\ q.prior # Unread
        /\ Set(r, [q EXCEPT !.pc = "working", !.page = page, !.before = NotMade,
                            !.more = \/ Cardinality(ids) > Take
                                     \/ Cardinality(q.range) = Take
                                     \/ Cardinality(q.prior) = Take,
                            !.next = IF page = {} THEN q.cursor ELSE Max(page)])
        /\ UNCHANGED <<reg, found, own, deaths, excused>>

\* The page is worked off: the answer says whether candidates are left.
AnswerSweep(r) ==
    /\ req[r].pc = "working" /\ req[r].page = {}
    /\ Set(r, IF req[r].more THEN [req[r] EXCEPT !.pc = "truncated"] ELSE Finished(req[r], "done"))
    /\ UNCHANGED <<reg, found, own, deaths, excused>>

-----------------------------------------------------------------------------
(* One finding: resolved, overridden, cleared. *)

\* A report row is committed as a finding, new or known, and then resolved with the
\* AS number the row has, if it has one.
Ingest(r) ==
    /\ req[r].pc = "idle"
    /\ \E f \in Findings, asn \in BOOLEAN :
          /\ found' = found \cup {f}
          /\ Set(r, [req[r] EXCEPT !.pc = "working", !.kind = "INGEST", !.page = {f}, !.asn = asn])
    /\ UNCHANGED <<reg, own, deaths, excused>>

\* An analyst clears an override; what follows is the same transaction.
AskForClear(r) ==
    /\ req[r].pc = "idle"
    /\ \E f \in found :
          Set(r, [req[r] EXCEPT !.pc = "working", !.kind = "CLEAR", !.page = {f}])
    /\ UNCHANGED <<reg, found, own, deaths, excused>>

\* The finding a request works on: a page is worked off in the order of its ids.
Subject(r) == Min(req[r].page)

\* The transaction takes its snapshot.  Clearing what is not overridden is refused.
BeginResolve(r) ==
    LET f == Subject(r) IN
    /\ req[r].pc = "working" /\ req[r].page # {}
    /\ IF req[r].kind = "CLEAR" /\ own[f].is.status # "OVERRIDDEN"
       THEN Set(r, [req[r] EXCEPT !.page = {}])
       ELSE Set(r, [req[r] EXCEPT !.pc = "resolving", !.snapshot = reg, !.row = own[f],
                                  !.tries = @ + 1])
    /\ UNCHANGED <<reg, found, own, deaths, excused>>

\* What the transaction would write.
Result(r) ==
    LET q == req[r] IN
    IF q.kind = "CLEAR" THEN Decide(Subject(r), q.snapshot, FALSE)
    ELSE Resolve(Subject(r), q.snapshot, q.row, q.asn)

\* effectiveFieldsEqual; clearing always writes a row.
Unchanged(r) == req[r].kind # "CLEAR" /\ req[r].row.id > 0 /\ req[r].row.is = Result(r)

\* The registry was written since the snapshot in a way that matters to f.
Torn(r) == Decide(Subject(r), req[r].snapshot, req[r].asn) # Decide(Subject(r), reg, req[r].asn)

NextSubject(q) ==
    [q EXCEPT !.pc = "working", !.page = @ \ {Min(q.page)}, !.tries = 0,
              !.snapshot = NewRequest.snapshot, !.row = NoRow]

Excuse(r) == IF Torn(r) THEN excused \cup {Subject(r)} ELSE excused \ {Subject(r)}

\* A transaction that writes nothing conflicts with nothing.
KeepOwnership(r) ==
    /\ req[r].pc = "resolving"
    /\ Unchanged(r)
    /\ excused' = IF own[Subject(r)] = req[r].row THEN Excuse(r) ELSE excused
    /\ Set(r, NextSubject(req[r]))
    /\ UNCHANGED <<reg, found, own, deaths>>

\* Slip: the row is replaced whatever became of it since the snapshot.
PersistUnchecked(r) ==
    LET f == Subject(r) IN
    /\ req[r].pc = "resolving"
    /\ ~Unchanged(r)
    /\ own' = [own EXCEPT ![f] = [id |-> own[f].id + 1, is |-> Result(r)]]
    /\ excused' = Excuse(r)
    /\ Set(r, NextSubject(req[r]))
    /\ UNCHANGED <<reg, found, deaths>>

\* persistIfChanged: the current row is superseded and its successor created.
PersistOwnership(r) ==
    LET f == Subject(r) IN
    /\ req[r].pc = "resolving"
    /\ ~Unchanged(r)
    /\ own[f] = req[r].row
    /\ own' = [own EXCEPT ![f] = [id |-> own[f].id + 1, is |-> Result(r)]]
    /\ excused' = Excuse(r)
    /\ Set(r, NextSubject(req[r]))
    /\ UNCHANGED <<reg, found, deaths>>

\* The commit is refused, as the row was replaced: the transaction is tried again, and
\* in the end given up.  A sweep counts the failure and goes on.
ConflictOnCommit(r) ==
    LET f == Subject(r) IN
    /\ req[r].pc = "resolving"
    /\ ~Unchanged(r)
    /\ own[f] # req[r].row
    /\ IF req[r].tries < MaxTries
       THEN /\ Set(r, [req[r] EXCEPT !.pc = "working"])
            /\ UNCHANGED excused
       ELSE /\ Set(r, NextSubject(req[r]))
            /\ excused' = excused \cup {f}
    /\ UNCHANGED <<reg, found, own, deaths>>

\* An analyst names the owner: always a new row, and the registry is not read.
ApplyOverride(r) ==
    /\ req[r].pc = "idle"
    /\ \E f \in found, org \in Orgs :
          /\ own' = [own EXCEPT ![f] = [id |-> own[f].id + 1, is |-> Overridden(org)]]
          /\ Set(r, Finished([req[r] EXCEPT !.kind = "OVERRIDE"], "done"))
    /\ UNCHANGED <<reg, found, deaths, excused>>

-----------------------------------------------------------------------------
(* The environment, and the specification. *)

Answered == {"done", "dead"}

\* The findings a request has still to resolve.
Remaining(r) ==
    CASE req[r].pc = "selecting" -> {f \in Affected(req[r].mapping) : f > req[r].cursor}
      [] req[r].pc \in {"working", "resolving", "truncated"} ->
            req[r].page \cup (IF req[r].more THEN {f \in Affected(req[r].mapping) : f > req[r].next}
                              ELSE {})
      [] OTHER -> {}

\* The process dies between two statements, or a statement fails.
Die(r) ==
    /\ deaths < MaxDeaths
    /\ req[r].pc \notin {"idle"} \cup Answered
    /\ deaths' = deaths + 1
    /\ excused' = excused \cup Remaining(r)
    /\ Set(r, Finished(req[r], "dead"))
    /\ UNCHANGED <<reg, found, own>>

\* The registry stands, and the findings that exist were resolved under it.
Init ==
    /\ reg \in [Mappings -> {NotMade} \cup [made: {TRUE}, enabled: {TRUE}, org: Orgs]]
    /\ found \in SUBSET Findings
    /\ own = [f \in Findings |-> IF f \in found THEN [id |-> 1, is |-> Decide(f, reg, TRUE)]
                                 ELSE NoRow]
    /\ req = [r \in Requests |-> NewRequest]
    /\ deaths = 0
    /\ excused = {}

Next ==
    \E r \in Requests :
        \/ CreateMapping(r) \/ ReadMapping(r) \/ UpdateMapping(r) \/ DisableMapping(r)
        \/ AskForSweep(r) \/ ContinueSweep(r) \/ SelectRange(r) \/ SelectPrior(r)
        \/ MergePage(r) \/ AnswerSweep(r)
        \/ Ingest(r) \/ AskForClear(r) \/ ApplyOverride(r)
        \/ BeginResolve(r) \/ KeepOwnership(r) \/ PersistOwnership(r) \/ ConflictOnCommit(r)
        \/ Die(r)

Spec == Init /\ [][Next]_vars

-----------------------------------------------------------------------------
(* Properties. *)

\* When nothing is under way, the consistency check finds a row stale only where a
\* transaction read the registry before it was written, gave up, or never came; or
\* where an update took its write for no change.  In particular mutations of
\* overlapping mappings, sweeps that interleave and findings that come in meanwhile
\* leave no finding behind, where the octet prefixes of a range select no other finding
\* than the range (elsewhere a page can skip one, see PageSkipsNone).
StaleOnlyWhenExcused ==
    (\A r \in Requests : req[r].pc \in {"idle"} \cup Answered)
        => \A f \in found \ excused : ~Inconsistent(f)

\* Only an analyst replaces an override: no sweep and no report does, whatever the
\* moment at which it was applied.
OverrideStands ==
    [][\A f \in Findings :
          own[f].is.status = "OVERRIDDEN" /\ own'[f] # own[f]
              => \E r \in Requests : req[r] # req'[r] /\ req'[r].kind \in {"OVERRIDE", "CLEAR"}]_vars

-----------------------------------------------------------------------------
(* What a comment of the code says and these steps do not keep. *)

\* "the merged slice can never skip an id that either source would have produced":
\* the findings between the cursor and the end of a page that the mapping contains are
\* all on the page.
PageSkipsNone ==
    [][\A r \in Requests :
          req[r].pc = "selecting" /\ req'[r].pc = "working"
              => \A f \in Inside[req[r].mapping] \cap found :
                    f > req[r].cursor /\ f <= req'[r].next => f \in req'[r].page]_vars
=============================================================================
