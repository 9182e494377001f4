---------------------- MODULE OwnershipResolutionProofs ----------------------
(***************************************************************************)
(* Two properties of OwnershipResolution for every registry, every set of  *)
(* findings and any number of requests.                                    *)
(*                                                                         *)
(* OverrideStands.  A request that did not come from an analyst writes the *)
(* row it read in its snapshot only if that row is still the current one.  *)
(* When it is an override, the resolver is fed with it and decides the     *)
(* same row again, so that there is nothing to write.  This needs that an  *)
(* override always is a row that was written, which is what the inductive  *)
(* invariant adds to the form of rows and requests.                        *)
(*                                                                         *)
(* StaleOnlyWhenExcused, where the ranges end at octets.  A stale row that *)
(* nothing excuses waits for a request that has still to resolve it; the   *)
(* second invariant says where the request is with it: its finding is not  *)
(* selected yet, and a page will have it or end before it, or it is on the *)
(* page, or it is left to the next one.                                    *)
(***************************************************************************)
EXTENDS OwnershipResolution, FiniteSetTheorems, WellFoundedInduction, TLAPS

\* A row has an id and a decision, and an override was written.
RowFits(row) ==
    /\ row = [id |-> row.id, is |-> row.is]
    /\ row.id \in Nat
    /\ row.is.status = "OVERRIDDEN" => row.id > 0

RowsFit ==
    /\ own = [f \in Findings |-> own[f]]
    /\ \A f \in Findings : RowFits(own[f])

\* A request has the fields of NewRequest, whatever it keeps in them.
Shaped(q) ==
    q \in [pc : RequestPCs, kind : Kinds, mapping : {q.mapping}, before : {q.before},
           asn : {q.asn}, cursor : {q.cursor}, range : {q.range}, prior : {q.prior},
           page : {q.page}, next : {q.next}, more : {q.more}, snapshot : {q.snapshot},
           row : {q.row}, tries : {q.tries}]

RequestsFit ==
    /\ req = [r \in Requests |-> req[r]]
    /\ \A r \in Requests : Shaped(req[r])

IInv == RowsFit /\ RequestsFit

-----------------------------------------------------------------------------
(* The forms the steps build. *)

LEMMA NewRequestShaped == Shaped(NewRequest)
BY DEF Shaped, NewRequest, RequestPCs, Kinds

LEMMA FinishedShaped ==
    ASSUME NEW q, Shaped(q), NEW pc \in RequestPCs
    PROVE  /\ Shaped(Finished(q, pc))
           /\ Finished(q, pc).pc = pc
           /\ Finished(q, pc).kind = q.kind
BY DEF Shaped, Finished, NewRequest, RequestPCs, Kinds

LEMMA SweepingShaped ==
    ASSUME NEW q, Shaped(q), NEW cursor
    PROVE  Shaped(Sweeping(q, cursor))
BY DEF Shaped, Sweeping, RequestPCs, Kinds

LEMMA NextSubjectShaped ==
    ASSUME NEW q, Shaped(q)
    PROVE  /\ Shaped(NextSubject(q))
           /\ NextSubject(q).pc = "working"
           /\ NextSubject(q).kind = q.kind
<1> DEFINE page == q.page \ {Min(q.page)}
<1> DEFINE snapshot == NewRequest.snapshot
<1> HIDE DEF page, snapshot
<1>1. NextSubject(q) = [q EXCEPT !.pc = "working", !.page = page, !.tries = 0,
                                 !.snapshot = snapshot, !.row = NoRow]
  BY DEF NextSubject, page, snapshot
<1> QED BY <1>1 DEF Shaped, RequestPCs, Kinds

\* A step that sets one request keeps the others.
LEMMA SetKeepsShape ==
    ASSUME RequestsFit, NEW r \in Requests, NEW q, Shaped(q), Set(r, q)
    PROVE  RequestsFit' /\ req'[r] = q
BY DEF RequestsFit, Set

-----------------------------------------------------------------------------
(* The invariant. *)

LEMMA InitIsFit == Init => IInv
<1> SUFFICES ASSUME Init PROVE IInv
  OBVIOUS
<1>1. RowsFit
  <2>1. \A d : RowFits([id |-> 1, is |-> d])
    BY DEF RowFits
  <2>2. RowFits(NoRow)
    BY DEF RowFits, NoRow, Unresolved, Decision
  <2> DEFINE First(f) == IF f \in found THEN [id |-> 1, is |-> Decide(f, reg, TRUE)] ELSE NoRow
  <2>3. own = [f \in Findings |-> First(f)]
    BY DEF Init
  <2>4. \A f \in Findings : RowFits(First(f))
    BY <2>1, <2>2
  <2> HIDE DEF First
  <2> QED BY <2>3, <2>4 DEF RowsFit
<1>2. RequestsFit
  BY NewRequestShaped DEF Init, RequestsFit
<1> QED BY <1>1, <1>2 DEF IInv

\* A step that writes the row of one finding writes a row.
LEMMA WrittenRowsFit ==
    ASSUME RowsFit, NEW f, NEW d, own' = [own EXCEPT ![f] = [id |-> own[f].id + 1, is |-> d]]
    PROVE  RowsFit'
<1>1. own' = [g \in Findings |-> own'[g]]
  BY DEF RowsFit
<1>2. ASSUME NEW g \in Findings, g # f PROVE RowFits(own'[g])
  BY <1>2 DEF RowsFit
<1>3. ASSUME f \in Findings PROVE RowFits(own'[f])
  <2>1. own[f].id \in Nat
    BY <1>3 DEF RowsFit, RowFits
  <2>2. own'[f] = [id |-> own[f].id + 1, is |-> d]
    BY <1>3 DEF RowsFit
  <2> QED BY <2>1, <2>2 DEF RowFits
<1> QED BY <1>1, <1>2, <1>3 DEF RowsFit

\* What a request is when it has been set to q.
LEMMA SetShaped ==
    ASSUME RequestsFit, NEW r \in Requests, NEW q, Shaped(q), Set(r, q)
    PROVE  RequestsFit'
BY SetKeepsShape

\* The fields a request changes on its way, by the step that changes them.
LEMMA StepsKeepShape ==
    ASSUME RequestsFit, NEW r \in Requests,
           \/ CreateMapping(r) \/ ReadMapping(r) \/ UpdateMapping(r) \/ DisableMapping(r)
           \/ AskForSweep(r) \/ ContinueSweep(r) \/ SelectRange(r) \/ SelectPrior(r)
           \/ MergePage(r) \/ AnswerSweep(r) \/ Ingest(r) \/ AskForClear(r)
           \/ BeginResolve(r)
    PROVE  RequestsFit'
<1> DEFINE q == req[r]
<1>1. Shaped(q)
  BY DEF RequestsFit
<1>2. CASE CreateMapping(r)
  <2>1. PICK m \in Mappings : Set(r, Sweeping([q EXCEPT !.kind = "CREATE", !.mapping = m], 0))
    BY <1>2 DEF CreateMapping
  <2>2. Shaped([q EXCEPT !.kind = "CREATE", !.mapping = m])
    BY <1>1 DEF Shaped, Kinds
  <2> QED BY <2>1, <2>2, SweepingShaped, SetShaped
<1>3. CASE ReadMapping(r)
  <2>1. PICK m \in Mappings, kind \in {"UPDATE", "DISABLE"} :
           Set(r, [q EXCEPT !.pc = "changing", !.kind = kind, !.mapping = m, !.before = reg[m]])
    BY <1>3 DEF ReadMapping
  <2>2. Shaped([q EXCEPT !.pc = "changing", !.kind = kind, !.mapping = m, !.before = reg[m]])
    BY <1>1 DEF Shaped, RequestPCs, Kinds
  <2> QED BY <2>1, <2>2, SetShaped
<1>4. CASE UpdateMapping(r)
  <2>1. Set(r, Sweeping(q, 0)) \/ Set(r, Finished(q, "done"))
    BY <1>4 DEF UpdateMapping
  <2>2. Shaped(Sweeping(q, 0)) /\ Shaped(Finished(q, "done"))
    BY <1>1, SweepingShaped, FinishedShaped DEF RequestPCs
  <2> QED BY <2>1, <2>2, SetShaped
<1>5. CASE DisableMapping(r)
  <2>1. Set(r, Sweeping(q, 0)) \/ Set(r, Finished(q, "done"))
    BY <1>5 DEF DisableMapping
  <2>2. Shaped(Sweeping(q, 0)) /\ Shaped(Finished(q, "done"))
    BY <1>1, SweepingShaped, FinishedShaped DEF RequestPCs
  <2> QED BY <2>1, <2>2, SetShaped
<1>6. CASE AskForSweep(r)
  <2>1. PICK m \in Mappings : Set(r, Sweeping([q EXCEPT !.kind = "SWEEP", !.mapping = m], 0))
    BY <1>6 DEF AskForSweep
  <2>2. Shaped([q EXCEPT !.kind = "SWEEP", !.mapping = m])
    BY <1>1 DEF Shaped, Kinds
  <2> QED BY <2>1, <2>2, SweepingShaped, SetShaped
<1>7. CASE ContinueSweep(r)
  BY <1>1, <1>7, SweepingShaped, SetShaped DEF ContinueSweep
<1>8. CASE SelectRange(r) \/ SelectPrior(r)
  <2>1. PICK ids : Set(r, [q EXCEPT !.range = ids]) \/ Set(r, [q EXCEPT !.prior = ids])
    BY <1>8 DEF SelectRange, SelectPrior
  <2>2. Shaped([q EXCEPT !.range = ids]) /\ Shaped([q EXCEPT !.prior = ids])
    BY <1>1 DEF Shaped
  <2> QED BY <2>1, <2>2, SetShaped
<1>9. CASE MergePage(r)
  <2>1. PICK page, more, next :
           Set(r, [q EXCEPT !.pc = "working", !.page = page, !.before = NotMade,
                            !.more = more, !.next = next])
    BY <1>9 DEF MergePage
  <2>2. Shaped([q EXCEPT !.pc = "working", !.page = page, !.before = NotMade,
                         !.more = more, !.next = next])
    BY <1>1 DEF Shaped, RequestPCs
  <2> QED BY <2>1, <2>2, SetShaped
<1>10. CASE AnswerSweep(r)
  <2>1. Set(r, [q EXCEPT !.pc = "truncated"]) \/ Set(r, Finished(q, "done"))
    BY <1>10 DEF AnswerSweep
  <2>2. Shaped([q EXCEPT !.pc = "truncated"])
    BY <1>1 DEF Shaped, RequestPCs
  <2>3. Shaped(Finished(q, "done"))
    BY <1>1, FinishedShaped DEF RequestPCs
  <2> QED BY <2>1, <2>2, <2>3, SetShaped
<1>11. CASE Ingest(r)
  <2>1. PICK f \in Findings, asn \in BOOLEAN :
           Set(r, [q EXCEPT !.pc = "working", !.kind = "INGEST", !.page = {f}, !.asn = asn])
    BY <1>11 DEF Ingest
  <2>2. Shaped([q EXCEPT !.pc = "working", !.kind = "INGEST", !.page = {f}, !.asn = asn])
    BY <1>1 DEF Shaped, RequestPCs, Kinds
  <2> QED BY <2>1, <2>2, SetShaped
<1>12. CASE AskForClear(r)
  <2>1. PICK f \in found : Set(r, [q EXCEPT !.pc = "working", !.kind = "CLEAR", !.page = {f}])
    BY <1>12 DEF AskForClear
  <2>2. Shaped([q EXCEPT !.pc = "working", !.kind = "CLEAR", !.page = {f}])
    BY <1>1 DEF Shaped, RequestPCs, Kinds
  <2> QED BY <2>1, <2>2, SetShaped
<1>13. CASE BeginResolve(r)
  <2>1. PICK row, tries :
           \/ Set(r, [q EXCEPT !.page = {}])
           \/ Set(r, [q EXCEPT !.pc = "resolving", !.snapshot = reg, !.row = row, !.tries = tries])
    BY <1>13 DEF BeginResolve
  <2>2. Shaped([q EXCEPT !.page = {}])
    BY <1>1 DEF Shaped
  <2>3. Shaped([q EXCEPT !.pc = "resolving", !.snapshot = reg, !.row = row, !.tries = tries])
    BY <1>1 DEF Shaped, RequestPCs
  <2> QED BY <2>1, <2>2, <2>3, SetShaped
<1> QED BY <1>2, <1>3, <1>4, <1>5, <1>6, <1>7, <1>8, <1>9, <1>10, <1>11, <1>12, <1>13

LEMMA EndsKeepShape ==
    ASSUME RequestsFit, NEW r \in Requests,
           KeepOwnership(r) \/ PersistOwnership(r) \/ ConflictOnCommit(r)
           \/ ApplyOverride(r) \/ Die(r)
    PROVE  RequestsFit'
<1> DEFINE q == req[r]
<1>1. Shaped(q)
  BY DEF RequestsFit
<1>2. Shaped(NextSubject(q)) /\ Shaped(Finished(q, "dead")) /\ Shaped([q EXCEPT !.pc = "working"])
  <2>1. Shaped([q EXCEPT !.pc = "working"])
    BY <1>1 DEF Shaped, RequestPCs
  <2> QED BY <1>1, <2>1, NextSubjectShaped, FinishedShaped DEF RequestPCs
<1>3. Shaped(Finished([q EXCEPT !.kind = "OVERRIDE"], "done"))
  <2>1. Shaped([q EXCEPT !.kind = "OVERRIDE"])
    BY <1>1 DEF Shaped, Kinds
  <2> QED BY <2>1, FinishedShaped DEF RequestPCs
<1>4. \/ Set(r, NextSubject(q)) \/ Set(r, Finished(q, "dead")) \/ Set(r, [q EXCEPT !.pc = "working"])
      \/ Set(r, Finished([q EXCEPT !.kind = "OVERRIDE"], "done"))
  BY DEF KeepOwnership, PersistOwnership, ConflictOnCommit, ApplyOverride, Die
<1> QED BY <1>2, <1>3, <1>4, SetShaped

LEMMA NextKeepsFit == IInv /\ [Next]_vars => IInv'
<1> SUFFICES ASSUME IInv, [Next]_vars PROVE IInv'
  OBVIOUS
<1>1. ASSUME NEW r \in Requests, PersistOwnership(r) PROVE IInv'
  <2>1. RowsFit'
    BY <1>1, WrittenRowsFit DEF IInv, PersistOwnership
  <2> QED BY <1>1, <2>1, EndsKeepShape DEF IInv
<1>2. ASSUME NEW r \in Requests, ApplyOverride(r) PROVE IInv'
  <2>1. PICK f \in found, org \in Orgs :
           own' = [own EXCEPT ![f] = [id |-> own[f].id + 1, is |-> Overridden(org)]]
    BY <1>2 DEF ApplyOverride
  <2>2. RowsFit'
    BY <2>1, WrittenRowsFit DEF IInv
  <2> QED BY <1>2, <2>2, EndsKeepShape DEF IInv
<1>3. ASSUME NEW r \in Requests, KeepOwnership(r) \/ ConflictOnCommit(r) \/ Die(r) PROVE IInv'
  <2>1. UNCHANGED own
    BY <1>3 DEF KeepOwnership, ConflictOnCommit, Die
  <2>2. RowsFit'
    BY <2>1 DEF IInv, RowsFit
  <2> QED BY <1>3, <2>2, EndsKeepShape DEF IInv
<1>4. ASSUME NEW r \in Requests,
             \/ CreateMapping(r) \/ ReadMapping(r) \/ UpdateMapping(r) \/ DisableMapping(r)
             \/ AskForSweep(r) \/ ContinueSweep(r) \/ SelectRange(r) \/ SelectPrior(r)
             \/ MergePage(r) \/ AnswerSweep(r) \/ Ingest(r) \/ AskForClear(r)
             \/ BeginResolve(r)
      PROVE  IInv'
  <2>1. UNCHANGED own
    BY <1>4 DEF CreateMapping, ReadMapping, UpdateMapping, DisableMapping, AskForSweep,
                ContinueSweep, SelectRange, SelectPrior, MergePage, AnswerSweep, Ingest,
                AskForClear, BeginResolve
  <2>2. RowsFit'
    BY <2>1 DEF IInv, RowsFit
  <2> QED BY <1>4, <2>2, StepsKeepShape DEF IInv
<1>5. CASE UNCHANGED vars
  BY <1>5 DEF IInv, RowsFit, RequestsFit, vars
<1> QED BY <1>1, <1>2, <1>3, <1>4, <1>5 DEF Next

-----------------------------------------------------------------------------
(* The override. *)

\* A transaction whose snapshot holds an override, and which does not clear it, writes
\* nothing: the resolver is fed with the row, and decides it again.
LEMMA OverrideIsDecidedAgain ==
    ASSUME NEW r \in Requests, req[r].kind # "CLEAR",
           RowFits(req[r].row), req[r].row.is.status = "OVERRIDDEN"
    PROVE  Unchanged(r)
<1>1. Result(r) = req[r].row.is
  BY DEF Result, Resolve
<1>2. req[r].row.id > 0
  BY DEF RowFits
<1> QED BY <1>1, <1>2 DEF Unchanged

\* The request whose commit replaces an override clears it.
LEMMA CommitOverOverrideClears ==
    ASSUME IInv, NEW r \in Requests, PersistOwnership(r),
           NEW f \in Findings, own[f].is.status = "OVERRIDDEN", own'[f] # own[f]
    PROVE  req[r] # req'[r] /\ req'[r].kind = "CLEAR"
<1>1. f = Subject(r)
  BY DEF PersistOwnership, IInv, RowsFit
<1>2. own[f] = req[r].row
  BY <1>1 DEF PersistOwnership
<1>3. req[r].kind = "CLEAR"
  <2>1. RowFits(own[f])
    BY DEF IInv, RowsFit
  <2>2. ~Unchanged(r)
    BY DEF PersistOwnership
  <2> QED BY <1>2, <2>1, <2>2, OverrideIsDecidedAgain
<1>4. req'[r] = NextSubject(req[r]) /\ Shaped(req[r])
  BY DEF PersistOwnership, Set, IInv, RequestsFit
<1>5. req'[r].pc = "working" /\ req'[r].kind = req[r].kind
  BY <1>4, NextSubjectShaped
<1>6. req[r].pc = "resolving"
  BY DEF PersistOwnership
<1> QED BY <1>3, <1>5, <1>6

\* The request that writes an override is an analyst's.
LEMMA OverrideIsAsked ==
    ASSUME IInv, NEW r \in Requests, ApplyOverride(r)
    PROVE  req[r] # req'[r] /\ req'[r].kind = "OVERRIDE"
<1> DEFINE q == [req[r] EXCEPT !.kind = "OVERRIDE"]
<1>1. Shaped(req[r])
  BY DEF IInv, RequestsFit
<1>2. Shaped(q) /\ q.kind = "OVERRIDE"
  BY <1>1 DEF Shaped, Kinds
<1>3. req'[r] = Finished(q, "done") /\ req[r].pc = "idle"
  BY DEF ApplyOverride, Set, IInv, RequestsFit
<1>4. Finished(q, "done").pc = "done" /\ Finished(q, "done").kind = q.kind
  <2> HIDE DEF q
  <2> QED BY <1>2, FinishedShaped DEF RequestPCs
<1> QED BY <1>2, <1>3, <1>4

\* What OverrideStands says of one step.
Stands ==
    \A f \in Findings :
        own[f].is.status = "OVERRIDDEN" /\ own'[f] # own[f]
            => \E r \in Requests : req[r] # req'[r] /\ req'[r].kind \in {"OVERRIDE", "CLEAR"}

LEMMA StepStands == IInv /\ [Next]_vars => Stands
<1> SUFFICES ASSUME IInv, [Next]_vars, NEW f \in Findings,
                    own[f].is.status = "OVERRIDDEN", own'[f] # own[f]
             PROVE  \E r \in Requests : req[r] # req'[r] /\ req'[r].kind \in {"OVERRIDE", "CLEAR"}
  BY DEF Stands
<1>1. \E r \in Requests : PersistOwnership(r) \/ ApplyOverride(r)
  BY DEF Next, vars, CreateMapping, ReadMapping, UpdateMapping, DisableMapping, AskForSweep,
         ContinueSweep, SelectRange, SelectPrior, MergePage, AnswerSweep, Ingest,
         AskForClear, BeginResolve, KeepOwnership, ConflictOnCommit, Die
<1>2. PICK r \in Requests : PersistOwnership(r) \/ ApplyOverride(r)
  BY <1>1
<1>3. CASE PersistOwnership(r)
  BY <1>3, CommitOverOverrideClears
<1>4. CASE ApplyOverride(r)
  BY <1>4, OverrideIsAsked
<1> QED BY <1>2, <1>3, <1>4

-----------------------------------------------------------------------------
\* No sweep and no report replaces an override, at whatever moment it was applied: in
\* findingOwnershipService.js the transaction that read it decides it again, and the
\* commit of one that did not read it is refused.
THEOREM AnalystsOverridesStand == Spec => OverrideStands
<1>1. Spec => []IInv
  <2>1. IInv /\ [Next]_vars => IInv'
    BY NextKeepsFit
  <2> QED BY InitIsFit, <2>1, PTL DEF Spec
<1>2. IInv /\ [Next]_vars => [Stands]_vars
  BY StepStands
<1> QED BY <1>1, <1>2, PTL DEF Spec, OverrideStands, Stands


-----------------------------------------------------------------------------
(* What a stale row waits for.                                             *)

\* The range of every mapping ends at an octet, or it is an exact address: its prefixes
\* select in the database what lies in it, and nothing beside it.
OctetAligned == \A m \in Mappings : Prefixed[m] \subseteq Inside[m]

\* What a source of a page tells of a finding beyond the cursor: it was not read yet, it
\* has the finding, or it was cut off before it came to the finding.
ComesTo(ids, f) ==
    \/ ids = Unread
    \/ f \in ids
    \/ /\ Cardinality(ids) = Take
       /\ \A g \in ids : g < f

\* A request has still to resolve f: the page it selects will have f or end before it, or
\* f is on its page, or it is left to a page that follows.  A transaction whose snapshot
\* of the row of f is out of date does not count.
Selects(q, f) ==
    /\ q.pc = "selecting"
    /\ f > q.cursor
    /\ \/ f \in Inside[q.mapping] /\ ComesTo(q.range, f)
       \/ own[f].is.mapping = q.mapping /\ ComesTo(q.prior, f)

Left(q, f) == q.more /\ f > q.next /\ f \in Affected(q.mapping)

WorksOn(q, f) ==
    /\ q.pc \in {"working", "truncated"}
    /\ f \in q.page \/ Left(q, f)

Resolves(q, f) ==
    /\ q.pc = "resolving"
    /\ \/ f \in q.page /\ (f = Min(q.page) => own[f] = q.row)
       \/ Left(q, f)

Pending(q, f) == q.kind # "CLEAR" /\ (Selects(q, f) \/ WorksOn(q, f) \/ Resolves(q, f))

\* What was read for a page are findings that exist, those of the range among the ones its
\* prefixes select; and only a report tells an AS number.
SelectionFits(q) ==
    q.pc = "selecting" =>
        /\ q.mapping \in Mappings
        /\ q.range # Unread => q.range \subseteq Prefixed[q.mapping] \cap found
        /\ q.prior # Unread => q.prior \subseteq found

PageFits(q) ==
    /\ q.page \subseteq found
    /\ q.pc = "resolving" => q.page # {}
    /\ q.pc = "truncated" => q.page = {}

FlagsFit(q) ==
    /\ q.asn \in BOOLEAN /\ q.more \in BOOLEAN
    /\ q.pc = "idle" => ~q.asn /\ ~q.more
    /\ q.asn => q.kind = "INGEST"
    /\ q.more \/ q.pc \in {"changing", "truncated"} => q.mapping \in Mappings

WorkFits(q) == SelectionFits(q) /\ PageFits(q) /\ FlagsFit(q)

\* A finding has a row only if it exists.
OwnersExist ==
    /\ found \subseteq Findings
    /\ \A f \in Findings : own[f] # NoRow => f \in found

RegistryFits == reg \in [Mappings -> Mapping]

\* A stale row that nothing excuses waits for a request.
Awaited(f) == \E r \in Requests : Pending(req[r], f)
StaleAreAwaited == \A f \in found \ excused : Inconsistent(f) => Awaited(f)

SInv ==
    /\ IInv
    /\ \A r \in Requests : WorkFits(req[r])
    /\ OwnersExist
    /\ RegistryFits
    /\ StaleAreAwaited

-----------------------------------------------------------------------------
(* Least and greatest ids. *)

LEMMA LeastNatural ==
    ASSUME NEW T \in SUBSET Nat, T # {}
    PROVE  \E x \in T : \A y \in T : x <= y
<1> DEFINE Below == {p \in Nat \X Nat : p[1] < p[2]}
<1>1. IsWellFoundedOn(Below, Nat)
  BY NatLessThanWellFounded DEF OpToRel
<1>2. \A y, x \in Nat : <<y, x>> \in Below <=> y < x
  OBVIOUS
<1> HIDE DEF Below
<1>3. PICK x \in T : \A y \in T : ~ (<<y, x>> \in Below)
  BY <1>1, WFMin
<1>4. ASSUME NEW y \in T PROVE x <= y
  <2>1. x \in Nat /\ y \in Nat
    OBVIOUS
  <2>2. ~ (y < x)
    BY <1>2, <1>3, <2>1
  <2> QED BY <2>1, <2>2
<1> QED BY <1>4

LEMMA MinIsLeast ==
    ASSUME NEW T \in SUBSET Nat, T # {}
    PROVE  Min(T) \in T /\ \A y \in T : Min(T) <= y
BY LeastNatural DEF Min

\* A set of ids without a greatest one is not finite: take away one id of a smallest
\* such set.
LEMMA MaxIsGreatest ==
    ASSUME NEW T \in SUBSET Nat, IsFiniteSet(T), T # {}
    PROVE  Max(T) \in T /\ \A y \in T : y <= Max(T)
<1> DEFINE Topped(U) == \E x \in U : \A y \in U : y <= x
<1> DEFINE Bare == {U \in SUBSET T : U # {} /\ ~ Topped(U)}
<1>1. ASSUME Bare # {} PROVE FALSE
  <2> DEFINE Sizes == {Cardinality(U) : U \in Bare}
  <2>1. \A U \in SUBSET T : IsFiniteSet(U) /\ Cardinality(U) \in Nat
    BY FS_Subset, FS_CardinalityType
  <2>2. Sizes \in SUBSET Nat /\ Sizes # {}
    BY <1>1, <2>1
  <2>3. PICK n \in Sizes : \A k \in Sizes : n <= k
    BY <2>2, LeastNatural
  <2>4. PICK U \in Bare : Cardinality(U) = n
    BY <2>3
  <2>5. PICK x \in U : TRUE
    BY <2>4
  <2> DEFINE V == U \ {x}
  <2>6. IsFiniteSet(U) /\ Cardinality(U) \in Nat /\ V \in SUBSET T
    BY <2>1, <2>4
  <2>7. Cardinality(V) = Cardinality(U) - 1
    BY <2>5, <2>6, FS_RemoveElement
  <2>8. V \notin Bare
    <3>1. SUFFICES ASSUME V \in Bare PROVE FALSE
      OBVIOUS
    <3>2. Cardinality(V) \in Sizes
      BY <3>1
    <3> HIDE DEF V, Sizes, Bare
    <3> QED BY <2>3, <2>4, <2>6, <2>7, <3>2
  <2>9. U \subseteq Nat /\ x \in Nat
    BY <2>6, <2>4, <2>5
  <2>10. CASE V = {}
    <3>1. \A y \in U : y <= x
      BY <2>9, <2>10
    <3> QED BY <2>4, <3>1
  <2>11. CASE V # {}
    <3>1. PICK z \in V : \A y \in V : y <= z
      BY <2>6, <2>8, <2>11
    <3>2. CASE x <= z
      <4>1. \A y \in U : y <= z
        BY <3>1, <3>2
      <4> QED BY <2>4, <4>1
    <3>3. CASE z <= x
      <4>1. \A y \in U : y <= x
        BY <2>9, <3>1, <3>3
      <4> QED BY <2>4, <4>1
    <3>4. x \in Nat /\ z \in Nat
      BY <2>9
    <3> QED BY <3>2, <3>3, <3>4
  <2> QED BY <2>10, <2>11
<1>2. \E x \in T : \A y \in T : x >= y
  <2>1. PICK x \in T : \A y \in T : y <= x
    BY <1>1
  <2>2. \A y \in T : x >= y
    BY <2>1
  <2> QED BY <2>2
<1>3. Max(T) \in T /\ \A y \in T : Max(T) >= y
  BY <1>2 DEF Max
<1> QED BY <1>3

LEMMA IdsCount ==
    ASSUME NEW ids \in SUBSET Findings
    PROVE  IsFiniteSet(ids) /\ Cardinality(ids) \in Nat /\ ids \subseteq Nat
BY Params, FS_Subset, FS_CardinalityType DEF ParamsAssumption

LEMMA MoreIdsCountMore ==
    ASSUME NEW ids \in SUBSET Findings, NEW some \in SUBSET ids
    PROVE  Cardinality(some) <= Cardinality(ids)
BY IdsCount, FS_Subset

\* What a limit cuts off comes after all it lets through, of which there are as many as
\* the limit allows.
LEMMA CutOffIsBehind ==
    ASSUME NEW ids \in SUBSET Findings, NEW n \in Nat \ {0}, NEW f \in ids, f \notin Lowest(ids, n)
    PROVE  /\ Cardinality(Lowest(ids, n)) = n
           /\ \A g \in Lowest(ids, n) : g < f
<1> DEFINE low == Lowest(ids, n)
<1> DEFINE under(x) == {g \in ids : g < x}
<1> DEFINE rest == ids \ low
<1> DEFINE u == Min(rest)
<1>1. low \in SUBSET ids /\ rest \in SUBSET ids /\ ids \in SUBSET Nat /\ f \in rest
  BY IdsCount DEF Lowest
<1>2. u \in rest /\ \A y \in rest : u <= y
  <2> HIDE DEF rest
  <2> QED BY <1>1, MinIsLeast
<1>3. \A x \in ids : x \in low <=> Cardinality(under(x)) < n
  BY DEF Lowest
<1>4. \A x \in ids : under(x) \in SUBSET Findings /\ Cardinality(under(x)) \in Nat
  BY IdsCount
<1> HIDE DEF u
<1>5. under(u) \subseteq low
  <2> SUFFICES ASSUME NEW g \in ids, g < u, g \notin low PROVE FALSE
    OBVIOUS
  <2>1. u <= g
    BY <1>2
  <2>2. u \in Nat /\ g \in Nat
    BY <1>1, <1>2
  <2> QED BY <2>1, <2>2
<1>6. \A x \in low : x < u
  <2> SUFFICES ASSUME NEW x \in low, ~ (x < u) PROVE FALSE
    OBVIOUS
  <2>1. x \in Nat /\ u \in Nat /\ x \in ids /\ u \in ids
    BY <1>1, <1>2
  <2>2. under(u) \subseteq under(x)
    <3>1. \A g \in Nat : g < u => g < x
      BY <2>1
    <3> QED BY <1>1, <3>1
  <2>3. Cardinality(under(u)) <= Cardinality(under(x))
    BY <1>4, <2>1, <2>2, MoreIdsCountMore
  <2>4. Cardinality(under(x)) < n /\ ~ (Cardinality(under(u)) < n)
    BY <1>1, <1>2, <1>3
  <2>5. Cardinality(under(x)) \in Nat /\ Cardinality(under(u)) \in Nat
    BY <1>4, <2>1
  <2> HIDE DEF under
  <2> QED BY <2>3, <2>4, <2>5
<1>7. low = under(u)
  <2> HIDE DEF low
  <2> QED BY <1>1, <1>5, <1>6
<1>8. Cardinality(low) \in Nat /\ Cardinality(low) >= n
  <2>1. Cardinality(under(u)) \in Nat /\ ~ (Cardinality(under(u)) < n)
    BY <1>1, <1>2, <1>3, <1>4
  <2> HIDE DEF low, under
  <2> QED BY <1>7, <2>1
<1>9. low # {} /\ low \in SUBSET Findings
  <2>1. low # {}
    BY <1>8, FS_EmptySet
  <2> QED BY <1>1, <2>1
<1> DEFINE y == Max(low)
<1>10. y \in low /\ \A x \in low : x <= y
  <2> HIDE DEF low
  <2> QED BY <1>9, IdsCount, MaxIsGreatest
<1> HIDE DEF y
<1>11. low = under(y) \cup {y} /\ y \notin under(y)
  <2>1. y \in Nat /\ u \in Nat /\ y < u
    BY <1>1, <1>2, <1>6, <1>10
  <2>2. \A g \in ids : g \in Nat
    BY <1>1
  <2>3. \A g \in low : g # y => g \in under(y)
    BY <1>1, <1>10, <2>1, <2>2
  <2>4. under(y) \subseteq low
    <3>1. \A g \in Nat : g < y => g < u
      BY <2>1
    <3>2. \A g \in under(y) : g \in under(u)
      BY <2>2, <3>1
    <3> QED BY <1>7, <3>2
  <2>5. y \notin under(y)
    BY <2>1
  <2> HIDE DEF low, under
  <2> QED BY <1>10, <2>3, <2>4, <2>5
<1>12. Cardinality(low) <= n
  <2>1. y \in ids /\ IsFiniteSet(under(y)) /\ Cardinality(under(y)) \in Nat
    BY <1>1, <1>10, <1>4, IdsCount
  <2>2. Cardinality(under(y)) < n
    BY <1>10, <1>3, <2>1
  <2>3. Cardinality(under(y) \cup {y}) = Cardinality(under(y)) + 1
    <3> HIDE DEF under
    <3> QED BY <1>11, <2>1, FS_AddElement
  <2> HIDE DEF low, under
  <2> QED BY <1>11, <2>1, <2>2, <2>3
<1>13. \A g \in low : g < f
  <2>1. \A g \in low : g \in Nat /\ g < u
    BY <1>1, <1>6
  <2>2. u <= f /\ u \in Nat /\ f \in Nat
    BY <1>1, <1>2
  <2> HIDE DEF low
  <2> QED BY <2>1, <2>2
<1>14. Cardinality(low) = n
  <2> HIDE DEF low
  <2> QED BY <1>8, <1>12
<1> QED BY <1>13, <1>14

\* A page merged from a source that was cut off ends where that source does, or before.
LEMMA PageStopsWithItsSource ==
    ASSUME NEW ids \in SUBSET Findings, NEW source \in SUBSET ids, Cardinality(source) = Take,
           NEW f \in Nat, \A g \in source : g < f
    PROVE  /\ Lowest(ids, Take) # {}
           /\ \A g \in Lowest(ids, Take) : g < f
<1> DEFINE under(x) == {g \in ids : g < x}
<1>1. Take \in Nat /\ Take > 0
  BY Params DEF ParamsAssumption
<1>2. \A x \in ids : under(x) \in SUBSET Findings /\ Cardinality(under(x)) \in Nat
  BY IdsCount
<1>3. ids # {} /\ ids \in SUBSET Nat
  <2>1. source # {}
    BY <1>1, FS_EmptySet
  <2> QED BY <2>1, IdsCount
<1>4. Lowest(ids, Take) # {}
  <2>1. Min(ids) \in ids /\ \A y \in ids : Min(ids) <= y
    BY <1>3, MinIsLeast
  <2>2. under(Min(ids)) = {}
    <3> SUFFICES ASSUME NEW g \in ids, g < Min(ids) PROVE FALSE
      OBVIOUS
    <3>1. g \in Nat /\ Min(ids) \in Nat /\ Min(ids) <= g
      BY <1>3, <2>1
    <3> QED BY <3>1
  <2>3. Cardinality(under(Min(ids))) < Take
    BY <1>1, <2>2, FS_EmptySet
  <2> QED BY <2>1, <2>3 DEF Lowest
<1>5. ASSUME NEW p \in Lowest(ids, Take), ~ (p < f) PROVE FALSE
  <2>1. p \in ids /\ p \in Nat /\ Cardinality(under(p)) < Take
    BY <1>3 DEF Lowest
  <2>2. source \subseteq under(p)
    <3>1. \A g \in source : g \in Nat /\ g < f /\ g \in ids
      BY <1>3
    <3> QED BY <1>5, <2>1, <3>1
  <2>3. Cardinality(source) <= Cardinality(under(p))
    BY <1>2, <2>1, <2>2, MoreIdsCountMore
  <2>4. Cardinality(under(p)) \in Nat
    BY <1>2, <2>1
  <2> HIDE DEF under
  <2> QED BY <1>1, <2>1, <2>3, <2>4
<1> QED BY <1>4, <1>5

-----------------------------------------------------------------------------
(* What the resolver decides. *)

\* A decision is taken from the mappings of the best tier and from whose they are.
Verdict(best, orgs) ==
    IF best = {} THEN Unresolved
    ELSE IF Cardinality(orgs) = 1
         THEN Decision("RESOLVED", CHOOSE o \in orgs : TRUE, Min(best), Tier[Min(best)], 1)
         ELSE Decision("AMBIGUOUS", NoOrg, NoMapping, Tier[Min(best)], Cardinality(orgs))

LEMMA BestTierDecides ==
    ASSUME NEW f, NEW registry, NEW asn
    PROVE  Decide(f, registry, asn)
             = Verdict(BestTier(Hits(f, registry, asn)),
                       {registry[m].org : m \in BestTier(Hits(f, registry, asn))})
BY DEF Decide, Verdict

\* An AS number decides only where no address does: with it and without it, the resolver
\* decides the same unless it decides by the number.
LEMMA NumberYieldsToAddress ==
    ASSUME NEW f \in Findings, NEW registry
    PROVE  \/ Decide(f, registry, TRUE) = Decide(f, registry, FALSE)
           \/ Decide(f, registry, TRUE).tier = AsnTier
<1> DEFINE all == Hits(f, registry, TRUE)
<1> DEFINE some == Hits(f, registry, FALSE)
<1> DEFINE best == BestTier(all)
<1>1. some \in SUBSET all /\ all \in SUBSET Mappings /\ all \in SUBSET Nat
  BY Params DEF Hits, Covers, ParamsAssumption
<1>2. \A m \in all : Tier[m] # AsnTier => m \in some
  BY DEF Hits, Covers
<1>3. \A m \in some : Tier[m] # AsnTier
  BY DEF Hits, Covers
<1>4. \A m \in all : Tier[m] \in Nat /\ Tier[m] >= AsnTier
  <2> SUFFICES ASSUME NEW m \in all PROVE Tier[m] \in Nat /\ Tier[m] >= AsnTier
    OBVIOUS
  <2>1. m \in Mappings
    BY <1>1
  <2>2. Tier[m] \in Nat
    BY <2>1, Params DEF ParamsAssumption
  <2> QED BY <2>2 DEF AsnTier
<1>5. BestTier(some) \subseteq best
  <2> SUFFICES ASSUME NEW m \in BestTier(some), NEW k \in all PROVE Tier[k] <= Tier[m]
    BY <1>1 DEF BestTier
  <2>1. m \in some /\ \A j \in some : Tier[j] <= Tier[m]
    BY DEF BestTier
  <2>2. CASE Tier[k] # AsnTier
    BY <1>2, <2>1, <2>2
  <2>3. CASE Tier[k] = AsnTier
    BY <1>1, <1>4, <2>1, <2>3
  <2> QED BY <2>2, <2>3
<1>6. CASE best = {}
  <2>1. BestTier(some) = {}
    BY <1>5, <1>6
  <2> QED BY <1>6, <2>1 DEF Decide
<1>7. CASE best # {} /\ Tier[Min(best)] = AsnTier
  BY <1>7 DEF Decide, Decision
<1>8. CASE best # {} /\ Tier[Min(best)] # AsnTier
  <2>1. best \in SUBSET all /\ best \in SUBSET Nat
    BY <1>1 DEF BestTier
  <2>2. Min(best) \in best
    <3> HIDE DEF best
    <3> QED BY <1>8, <2>1, MinIsLeast
  <2>3. best \subseteq some
    <3> SUFFICES ASSUME NEW m \in best PROVE Tier[m] # AsnTier
      BY <1>2, <2>1
    <3>1. Tier[Min(best)] <= Tier[m] /\ Tier[m] <= Tier[Min(best)]
      BY <2>2 DEF BestTier
    <3>2. Tier[m] \in Nat /\ Tier[Min(best)] \in Nat
      BY <1>4, <2>1, <2>2
    <3> HIDE DEF best
    <3> QED BY <1>8, <3>1, <3>2
  <2>4. best \subseteq BestTier(some)
    BY <1>1, <2>3 DEF BestTier
  <2>5. best = BestTier(some)
    BY <1>5, <2>4
  <2> QED BY <2>5, BestTierDecides
<1> QED BY <1>6, <1>7, <1>8

\* A decision names a mapping that is enabled, or none.
LEMMA DecisionNamesEnabled ==
    ASSUME NEW f \in Findings, NEW registry, NEW asn
    PROVE  LET m == Decide(f, registry, asn).mapping
           IN  m \in Mappings => registry[m].enabled
<1> DEFINE best == BestTier(Hits(f, registry, asn))
<1>1. best \in SUBSET Nat /\ \A m \in best : registry[m].enabled
  BY Params DEF BestTier, Hits, ParamsAssumption
<1>2. NoMapping \notin Mappings
  BY Params DEF ParamsAssumption, NoMapping
<1>3. best # {} => Min(best) \in best
  <2> HIDE DEF best
  <2> QED BY <1>1, MinIsLeast
<1>4. Decide(f, registry, asn).mapping \in {NoMapping} \cup (IF best = {} THEN {} ELSE {Min(best)})
  BY DEF Decide, Decision, Unresolved
<1> HIDE DEF best
<1> QED BY <1>1, <1>2, <1>3, <1>4

\* A row that says what the resolver decides now is not stale, be the AS number known or
\* not; nor is an override.
LEMMA FreshIsConsistent ==
    ASSUME NEW f \in Findings, NEW asn \in BOOLEAN,
           \/ own[f].is = Decide(f, reg, asn)
           \/ own[f].is.status = "OVERRIDDEN"
    PROVE  ~Inconsistent(f)
<1>1. CASE own[f].is.status = "OVERRIDDEN"
  BY <1>1 DEF Inconsistent
<1>2. CASE own[f].is = Decide(f, reg, asn)
  <2>1. own[f].is.mapping \in Mappings => reg[own[f].is.mapping].enabled
    BY <1>2, DecisionNamesEnabled
  <2>2. own[f].is = Decide(f, reg, FALSE) \/ own[f].is.tier = AsnTier
    BY <1>2, NumberYieldsToAddress
  <2> QED BY <2>1, <2>2 DEF Inconsistent, IsIspAttribution
<1> QED BY <1>1, <1>2

\* Writing one mapping changes what the resolver decides without a number only for the
\* findings in its range.
LEMMA OnlyItsRangeIsDecidedAnew ==
    ASSUME NEW m \in Mappings, NEW f \in Findings, f \notin Inside[m],
           \A k \in Mappings \ {m} : reg'[k] = reg[k]
    PROVE  Decide(f, reg', FALSE) = Decide(f, reg, FALSE)
<1>1. Hits(f, reg', FALSE) = Hits(f, reg, FALSE)
  BY DEF Hits, Covers
<1>2. m \notin BestTier(Hits(f, reg, FALSE))
  BY DEF BestTier, Hits, Covers
<1>3. BestTier(Hits(f, reg, FALSE)) \subseteq Mappings
  BY DEF BestTier, Hits
<1>4. {reg'[k].org : k \in BestTier(Hits(f, reg, FALSE))}
        = {reg[k].org : k \in BestTier(Hits(f, reg, FALSE))}
  BY <1>2, <1>3
<1> QED BY <1>1, <1>4, BestTierDecides

\* What a write of the registry makes stale, it affects.
LEMMA OnlyAffectedBecomeStale ==
    ASSUME NEW m \in Mappings, \A k \in Mappings \ {m} : reg'[k] = reg[k], UNCHANGED own,
           NEW f \in Findings, Inconsistent(f)', ~Inconsistent(f)
    PROVE  f \in Affected(m)
<1> SUFFICES ASSUME f \notin Inside[m], own[f].is.mapping # m PROVE FALSE
  BY DEF Affected
<1>1. Decide(f, reg', FALSE) = Decide(f, reg, FALSE)
  BY OnlyItsRangeIsDecidedAnew
<1>2. own[f].is.mapping \in Mappings => reg'[own[f].is.mapping] = reg[own[f].is.mapping]
  OBVIOUS
<1> QED BY <1>1, <1>2 DEF Inconsistent

-----------------------------------------------------------------------------
(* The fields of a request on its way. *)

LEMMA SweepingFields ==
    ASSUME NEW q, Shaped(q), NEW cursor
    PROVE  LET s == Sweeping(q, cursor)
           IN  /\ s.pc = "selecting" /\ s.cursor = cursor
               /\ s.range = Unread /\ s.prior = Unread
               /\ s.kind = q.kind /\ s.mapping = q.mapping /\ s.asn = q.asn
               /\ s.page = q.page /\ s.more = q.more /\ s.next = q.next
BY DEF Shaped, Sweeping

LEMMA NextSubjectFields ==
    ASSUME NEW q, Shaped(q)
    PROVE  LET s == NextSubject(q)
           IN  /\ s.pc = "working" /\ s.page = q.page \ {Min(q.page)}
               /\ s.kind = q.kind /\ s.mapping = q.mapping /\ s.asn = q.asn
               /\ s.more = q.more /\ s.next = q.next
<1> DEFINE page == q.page \ {Min(q.page)}
<1> DEFINE snapshot == NewRequest.snapshot
<1>1. NextSubject(q) = [q EXCEPT !.pc = "working", !.page = page, !.tries = 0,
                                 !.snapshot = snapshot, !.row = NoRow]
  BY DEF NextSubject
<1> HIDE DEF page, snapshot
<1>2. LET s == NextSubject(q)
      IN  /\ s.pc = "working" /\ s.page = page
          /\ s.kind = q.kind /\ s.mapping = q.mapping /\ s.asn = q.asn
          /\ s.more = q.more /\ s.next = q.next
  BY <1>1 DEF Shaped
<1> QED BY <1>2 DEF page

\* An idle request, and one that reads a mapping, has nothing to resolve.
Unconcerned(q) == q.pc \in {"idle", "changing", "done", "dead"}

\* A step hands on what waits for its request: f is excused, or the row of f is written,
\* or f is not stale, or f still waits for the request.
HandsOn(r) ==
    \A f \in found \ excused' :
        Inconsistent(f) /\ own'[f] = own[f] /\ Pending(req[r], f) => Pending(req[r], f)'

LEMMA UnconcernedHandsOn ==
    ASSUME NEW r \in Requests, Unconcerned(req[r])
    PROVE  HandsOn(r)
BY DEF HandsOn, Unconcerned, Pending, Selects, WorksOn, Resolves

LEMMA FinishedFits ==
    ASSUME NEW r \in Requests, NEW q, NEW pc \in {"done", "dead"}, req'[r] = Finished(q, pc)
    PROVE  WorkFits(req[r])'
<1>1. /\ req'[r].pc \in {"done", "dead"} /\ req'[r].asn = FALSE
      /\ req'[r].more = FALSE /\ req'[r].page = {}
  BY DEF Finished, NewRequest
<1> QED BY <1>1 DEF WorkFits, SelectionFits, PageFits, FlagsFit

LEMMA OthersFit ==
    ASSUME NEW r \in Requests, req'[r] = req[r], found \subseteq found', WorkFits(req[r])
    PROVE  WorkFits(req[r])'
BY DEF WorkFits, SelectionFits, PageFits, FlagsFit

LEMMA OthersWait ==
    ASSUME NEW r \in Requests, req'[r] = req[r],
           NEW f \in Findings, own'[f] = own[f], Pending(req[r], f)
    PROVE  Pending(req[r], f)'
BY DEF Pending, Selects, ComesTo, WorksOn, Resolves, Left, Affected

\* A request that begins a sweep of m.
Begins(r, m) ==
    /\ req'[r].pc = "selecting" /\ req'[r].cursor = 0
    /\ req'[r].range = Unread /\ req'[r].prior = Unread
    /\ req'[r].mapping = m /\ req'[r].kind # "CLEAR"

LEMMA BeginningWaits ==
    ASSUME NEW r \in Requests, NEW m \in Mappings, Begins(r, m), UNCHANGED own,
           NEW f \in Affected(m)
    PROVE  Pending(req[r], f)'
<1>1. f \in Findings
  BY Params DEF Affected, ParamsAssumption
<1>2. f > 0
  BY <1>1, Params DEF ParamsAssumption
<1>3. f \in Inside[m] \/ own'[f].is.mapping = m
  BY DEF Affected
<1> QED BY <1>2, <1>3 DEF Begins, Pending, Selects, ComesTo

-----------------------------------------------------------------------------
(* Requests that write the registry. *)

LEMMA SweepingFits ==
    ASSUME NEW r \in Requests, NEW s, Shaped(s), NEW cursor, req'[r] = Sweeping(s, cursor),
           s.page \subseteq found, UNCHANGED found, s.mapping \in Mappings,
           s.asn \in BOOLEAN, s.asn => s.kind = "INGEST", s.more \in BOOLEAN
    PROVE  WorkFits(req[r])'
<1>1. /\ req'[r].pc = "selecting" /\ req'[r].range = Unread /\ req'[r].prior = Unread
      /\ req'[r].kind = s.kind /\ req'[r].mapping = s.mapping /\ req'[r].asn = s.asn
      /\ req'[r].page = s.page /\ req'[r].more = s.more
  BY SweepingFields
<1> QED BY <1>1 DEF WorkFits, SelectionFits, PageFits, FlagsFit

LEMMA SweepingBegins ==
    ASSUME NEW r \in Requests, NEW s, Shaped(s), req'[r] = Sweeping(s, 0), s.kind # "CLEAR"
    PROVE  Begins(r, s.mapping)
BY SweepingFields DEF Begins

\* What is known of the request that takes a step, and of what it becomes.
LEMMA Stepping ==
    ASSUME SInv, NEW r \in Requests, NEW s, Set(r, s)
    PROVE  /\ Shaped(req[r]) /\ WorkFits(req[r])
           /\ req'[r] = s
           /\ \A o \in Requests \ {r} : req'[o] = req[o]
<1>1. RequestsFit
  BY DEF SInv, IInv
<1> QED BY <1>1 DEF SInv, RequestsFit, Set

\* A write that needs no sweep is for no change, or what it affects is excused.
Settles(r) ==
    \A f \in found \ excused' :
        Inconsistent(f)' /\ ~Inconsistent(f) /\ own'[f] = own[f] => Pending(req[r], f)'

LEMMA BeginningSettles ==
    ASSUME NEW r \in Requests, NEW m \in Mappings, Begins(r, m), UNCHANGED own,
           OwnersExist, \A k \in Mappings \ {m} : reg'[k] = reg[k]
    PROVE  Settles(r)
<1> SUFFICES ASSUME NEW f \in found \ excused', Inconsistent(f)', ~Inconsistent(f)
             PROVE  Pending(req[r], f)'
  BY DEF Settles
<1>1. f \in Findings
  BY DEF OwnersExist
<1>2. f \in Affected(m)
  BY <1>1, OnlyAffectedBecomeStale
<1> QED BY <1>2, BeginningWaits

LEMMA CreationSettles ==
    ASSUME SInv, NEW r \in Requests, CreateMapping(r)
    PROVE  /\ WorkFits(req[r])' /\ HandsOn(r)
           /\ Settles(r)
           /\ RegistryFits'
<1> DEFINE q == req[r]
<1>1. PICK m \in Mappings, org \in Orgs :
         /\ reg' = [reg EXCEPT ![m] = [made |-> TRUE, enabled |-> TRUE, org |-> org]]
         /\ Set(r, Sweeping([q EXCEPT !.kind = "CREATE", !.mapping = m], 0))
  BY DEF CreateMapping
<1>2. q.pc = "idle" /\ UNCHANGED <<own, found>>
  BY DEF CreateMapping
<1> DEFINE s == [q EXCEPT !.kind = "CREATE", !.mapping = m]
<1>3. Shaped(q) /\ WorkFits(q) /\ req'[r] = Sweeping(s, 0)
  BY <1>1, Stepping
<1>4. /\ Shaped(s) /\ s.kind = "CREATE" /\ s.mapping = m
      /\ s.page = q.page /\ s.asn = q.asn /\ s.more = q.more
  BY <1>3 DEF Shaped, Kinds
<1>5. q.page \subseteq found /\ q.asn = FALSE /\ q.more = FALSE
  BY <1>2, <1>3 DEF WorkFits, PageFits, FlagsFit
<1> HIDE DEF s
<1>6. WorkFits(req[r])'
  BY <1>2, <1>3, <1>4, <1>5, SweepingFits
<1>7. Begins(r, m)
  BY <1>3, <1>4, SweepingBegins
<1>8. reg \in [Mappings -> Mapping] /\ OwnersExist
  BY DEF SInv, RegistryFits
<1>9. Settles(r)
  BY <1>1, <1>2, <1>7, <1>8, BeginningSettles
<1>10. HandsOn(r)
  BY <1>2, UnconcernedHandsOn DEF Unconcerned
<1>11. RegistryFits'
  BY <1>1, <1>8 DEF RegistryFits, Mapping
<1> QED BY <1>6, <1>9, <1>10, <1>11

LEMMA UpdateSettles ==
    ASSUME SInv, NEW r \in Requests, UpdateMapping(r)
    PROVE  /\ WorkFits(req[r])' /\ HandsOn(r)
           /\ Settles(r)
           /\ RegistryFits'
<1> DEFINE q == req[r]
<1> DEFINE m == q.mapping
<1>1. PICK org \in Orgs :
         /\ reg' = [reg EXCEPT ![m].org = org]
         /\ \/ Set(r, Sweeping(q, 0))
            \/ /\ Set(r, Finished(q, "done"))
               /\ excused' = IF org # reg[m].org THEN excused \cup Affected(m) ELSE excused
  BY DEF UpdateMapping
<1>2. q.pc = "changing" /\ q.kind = "UPDATE" /\ UNCHANGED <<own, found>>
  BY DEF UpdateMapping
<1>3. Shaped(q) /\ WorkFits(q)
  BY <1>1, Stepping
<1>4. /\ q.page \subseteq found /\ q.asn = FALSE /\ q.more \in BOOLEAN
      /\ m \in Mappings
  BY <1>2, <1>3 DEF WorkFits, PageFits, FlagsFit
<1>5. reg \in [Mappings -> Mapping] /\ OwnersExist
  BY DEF SInv, RegistryFits
<1>6. \A k \in Mappings \ {m} : reg'[k] = reg[k]
  BY <1>1, <1>5
<1>7. CASE Set(r, Sweeping(q, 0))
  <2>1. req'[r] = Sweeping(q, 0)
    BY <1>7, Stepping
  <2>2. WorkFits(req[r])'
    BY <1>2, <1>3, <1>4, <2>1, SweepingFits
  <2>3. Begins(r, m)
    BY <1>2, <1>3, <2>1, SweepingBegins
  <2>4. Settles(r)
    BY <1>2, <1>4, <1>5, <1>6, <2>3, BeginningSettles
  <2> QED BY <1>4, <2>2, <2>4, <1>1, <1>5, <1>2, UnconcernedHandsOn
          DEF Unconcerned, RegistryFits, Mapping
<1>8. CASE /\ Set(r, Finished(q, "done"))
           /\ excused' = IF org # reg[m].org THEN excused \cup Affected(m) ELSE excused
  <2>1. req'[r] = Finished(q, "done")
    BY <1>8, Stepping
  <2>2. WorkFits(req[r])'
    BY <2>1, FinishedFits
  <2>3. Settles(r)
    <3> SUFFICES ASSUME NEW f \in found \ excused', Inconsistent(f)', ~Inconsistent(f)
                 PROVE  FALSE
      BY DEF Settles
    <3>1. f \in Affected(m)
      BY <1>2, <1>4, <1>5, <1>6, OnlyAffectedBecomeStale DEF OwnersExist
    <3>2. org = reg[m].org
      BY <1>8, <3>1
    <3>3. reg' = reg
      BY <1>1, <1>4, <1>5, <3>2 DEF Mapping
    <3> QED BY <1>2, <3>3 DEF Inconsistent
  <2> QED BY <1>4, <2>2, <2>3, <1>1, <1>5, <1>2, UnconcernedHandsOn
          DEF Unconcerned, RegistryFits, Mapping
<1> QED BY <1>1, <1>7, <1>8

LEMMA DisablingSettles ==
    ASSUME SInv, NEW r \in Requests, DisableMapping(r)
    PROVE  /\ WorkFits(req[r])' /\ HandsOn(r)
           /\ Settles(r)
           /\ RegistryFits'
<1> DEFINE q == req[r]
<1> DEFINE m == q.mapping
<1>1. \/ reg' = [reg EXCEPT ![m].enabled = FALSE] /\ Set(r, Sweeping(q, 0))
      \/ UNCHANGED reg /\ Set(r, Finished(q, "done"))
  BY DEF DisableMapping
<1>2. q.pc = "changing" /\ q.kind = "DISABLE" /\ UNCHANGED <<own, found>>
  BY DEF DisableMapping
<1>3. Shaped(q) /\ WorkFits(q)
  BY <1>1, Stepping
<1>4. /\ q.page \subseteq found /\ q.asn = FALSE /\ q.more \in BOOLEAN
      /\ m \in Mappings
  BY <1>2, <1>3 DEF WorkFits, PageFits, FlagsFit
<1>5. reg \in [Mappings -> Mapping] /\ OwnersExist
  BY DEF SInv, RegistryFits
<1>6. HandsOn(r)
  BY <1>2, UnconcernedHandsOn DEF Unconcerned
<1>7. RegistryFits'
  BY <1>1, <1>5 DEF RegistryFits, Mapping
<1>8. CASE reg' = [reg EXCEPT ![m].enabled = FALSE] /\ Set(r, Sweeping(q, 0))
  <2>1. req'[r] = Sweeping(q, 0)
    BY <1>8, Stepping
  <2>2. WorkFits(req[r])'
    BY <1>2, <1>3, <1>4, <2>1, SweepingFits
  <2>3. Begins(r, m)
    BY <1>2, <1>3, <2>1, SweepingBegins
  <2>4. \A k \in Mappings \ {m} : reg'[k] = reg[k]
    BY <1>5, <1>8
  <2>5. Settles(r)
    BY <1>2, <1>4, <1>5, <2>3, <2>4, BeginningSettles
  <2> QED BY <1>4, <1>6, <1>7, <2>2, <2>5
<1>9. CASE UNCHANGED reg /\ Set(r, Finished(q, "done"))
  <2>1. req'[r] = Finished(q, "done")
    BY <1>9, Stepping
  <2>2. WorkFits(req[r])'
    BY <2>1, FinishedFits
  <2>3. Settles(r)
    BY <1>2, <1>9 DEF Settles, Inconsistent
  <2> QED BY <1>4, <1>6, <1>7, <2>2, <2>3
<1> QED BY <1>1, <1>8, <1>9

-----------------------------------------------------------------------------
(* Requests that begin, and sweeps that select their page. *)

LEMMA ReadingFits ==
    ASSUME SInv, NEW r \in Requests, ReadMapping(r)
    PROVE  WorkFits(req[r])' /\ HandsOn(r)
<1> DEFINE q == req[r]
<1>1. PICK m \in Mappings, kind \in {"UPDATE", "DISABLE"} :
         Set(r, [q EXCEPT !.pc = "changing", !.kind = kind, !.mapping = m, !.before = reg[m]])
  BY DEF ReadMapping
<1>2. q.pc = "idle" /\ UNCHANGED found
  BY DEF ReadMapping
<1>3. /\ Shaped(q) /\ WorkFits(q)
      /\ req'[r] = [q EXCEPT !.pc = "changing", !.kind = kind, !.mapping = m, !.before = reg[m]]
  BY <1>1, Stepping
<1>4. /\ req'[r].pc = "changing" /\ req'[r].mapping = m
      /\ req'[r].page = q.page /\ req'[r].asn = q.asn /\ req'[r].more = q.more
  BY <1>3 DEF Shaped
<1>5. WorkFits(req[r])'
  BY <1>2, <1>3, <1>4 DEF WorkFits, SelectionFits, PageFits, FlagsFit
<1> QED BY <1>2, <1>5, UnconcernedHandsOn DEF Unconcerned

LEMMA AskingFits ==
    ASSUME SInv, NEW r \in Requests, AskForSweep(r)
    PROVE  WorkFits(req[r])' /\ HandsOn(r)
<1> DEFINE q == req[r]
<1>1. PICK m \in Mappings : Set(r, Sweeping([q EXCEPT !.kind = "SWEEP", !.mapping = m], 0))
  BY DEF AskForSweep
<1>2. q.pc = "idle" /\ UNCHANGED found
  BY DEF AskForSweep
<1> DEFINE s == [q EXCEPT !.kind = "SWEEP", !.mapping = m]
<1>3. Shaped(q) /\ WorkFits(q) /\ req'[r] = Sweeping(s, 0)
  BY <1>1, Stepping
<1>4. /\ Shaped(s) /\ s.kind = "SWEEP" /\ s.mapping = m
      /\ s.page = q.page /\ s.asn = q.asn /\ s.more = q.more
  BY <1>3 DEF Shaped, Kinds
<1>5. q.page \subseteq found /\ q.asn = FALSE /\ q.more = FALSE
  BY <1>2, <1>3 DEF WorkFits, PageFits, FlagsFit
<1> HIDE DEF s
<1>6. WorkFits(req[r])'
  BY <1>2, <1>3, <1>4, <1>5, SweepingFits
<1> QED BY <1>2, <1>6, UnconcernedHandsOn DEF Unconcerned

LEMMA IngestFits ==
    ASSUME SInv, NEW r \in Requests, Ingest(r)
    PROVE  WorkFits(req[r])' /\ HandsOn(r)
<1> DEFINE q == req[r]
<1>1. PICK f \in Findings, asn \in BOOLEAN :
         /\ found' = found \cup {f}
         /\ Set(r, [q EXCEPT !.pc = "working", !.kind = "INGEST", !.page = {f}, !.asn = asn])
  BY DEF Ingest
<1>2. q.pc = "idle"
  BY DEF Ingest
<1>3. /\ Shaped(q) /\ WorkFits(q)
      /\ req'[r] = [q EXCEPT !.pc = "working", !.kind = "INGEST", !.page = {f}, !.asn = asn]
  BY <1>1, Stepping
<1>4. /\ req'[r].pc = "working" /\ req'[r].kind = "INGEST"
      /\ req'[r].page = {f} /\ req'[r].asn = asn /\ req'[r].more = q.more
  BY <1>3 DEF Shaped
<1>5. q.more = FALSE
  BY <1>2, <1>3 DEF WorkFits, FlagsFit
<1>6. WorkFits(req[r])'
  BY <1>1, <1>4, <1>5 DEF WorkFits, SelectionFits, PageFits, FlagsFit
<1> QED BY <1>2, <1>6, UnconcernedHandsOn DEF Unconcerned

LEMMA ClearingFits ==
    ASSUME SInv, NEW r \in Requests, AskForClear(r)
    PROVE  WorkFits(req[r])' /\ HandsOn(r)
<1> DEFINE q == req[r]
<1>1. PICK f \in found : Set(r, [q EXCEPT !.pc = "working", !.kind = "CLEAR", !.page = {f}])
  BY DEF AskForClear
<1>2. q.pc = "idle" /\ UNCHANGED found
  BY DEF AskForClear
<1>3. /\ Shaped(q) /\ WorkFits(q)
      /\ req'[r] = [q EXCEPT !.pc = "working", !.kind = "CLEAR", !.page = {f}]
  BY <1>1, Stepping
<1>4. /\ req'[r].pc = "working"
      /\ req'[r].page = {f} /\ req'[r].asn = q.asn /\ req'[r].more = q.more
  BY <1>3 DEF Shaped
<1>5. q.more = FALSE /\ q.asn = FALSE
  BY <1>2, <1>3 DEF WorkFits, FlagsFit
<1>6. WorkFits(req[r])'
  BY <1>1, <1>2, <1>4, <1>5 DEF WorkFits, SelectionFits, PageFits, FlagsFit
<1> QED BY <1>2, <1>6, UnconcernedHandsOn DEF Unconcerned

LEMMA ContinuingFits ==
    ASSUME SInv, NEW r \in Requests, ContinueSweep(r)
    PROVE  WorkFits(req[r])' /\ HandsOn(r)
<1> DEFINE q == req[r]
<1>1. q.pc = "truncated" /\ UNCHANGED <<own, found>> /\ Set(r, Sweeping(q, q.next))
  BY DEF ContinueSweep
<1>2. Shaped(q) /\ WorkFits(q) /\ req'[r] = Sweeping(q, q.next)
  BY <1>1, Stepping
<1>3. /\ q.page = {} /\ q.mapping \in Mappings
      /\ q.asn \in BOOLEAN /\ q.more \in BOOLEAN /\ (q.asn => q.kind = "INGEST")
  BY <1>1, <1>2 DEF WorkFits, PageFits, FlagsFit
<1>4. WorkFits(req[r])'
  BY <1>1, <1>2, <1>3, SweepingFits
<1>5. /\ req'[r].pc = "selecting" /\ req'[r].cursor = q.next
      /\ req'[r].range = Unread /\ req'[r].prior = Unread
      /\ req'[r].kind = q.kind /\ req'[r].mapping = q.mapping
  BY <1>2, SweepingFields
<1>6. HandsOn(r)
  <2> SUFFICES ASSUME NEW f \in found \ excused', own'[f] = own[f], Pending(q, f)
               PROVE  Pending(req[r], f)'
    BY DEF HandsOn
  <2>1. q.kind # "CLEAR" /\ f > q.next /\ f \in Affected(q.mapping)
    BY <1>1, <1>3 DEF Pending, Selects, WorksOn, Resolves, Left
  <2>2. f \in Inside[q.mapping] \/ own[f].is.mapping = q.mapping
    BY <2>1 DEF Affected
  <2> QED BY <1>1, <1>5, <2>1, <2>2 DEF Pending, Selects, ComesTo
<1> QED BY <1>4, <1>6

LEMMA SelectedRangeFits ==
    ASSUME SInv, NEW r \in Requests, SelectRange(r)
    PROVE  WorkFits(req[r])' /\ HandsOn(r)
<1> DEFINE q == req[r]
<1> DEFINE source == {f \in Prefixed[q.mapping] \cap found : f > q.cursor}
<1> DEFINE ids == Lowest(source, Take)
<1>1. /\ q.pc = "selecting" /\ q.range = Unread /\ UNCHANGED <<own, found>>
      /\ Set(r, [q EXCEPT !.range = ids])
  BY DEF SelectRange
<1>2. Shaped(q) /\ WorkFits(q) /\ req'[r] = [q EXCEPT !.range = ids]
  BY <1>1, Stepping
<1>3. /\ req'[r].pc = q.pc /\ req'[r].cursor = q.cursor /\ req'[r].range = ids
      /\ req'[r].prior = q.prior /\ req'[r].kind = q.kind /\ req'[r].mapping = q.mapping
      /\ req'[r].page = q.page /\ req'[r].asn = q.asn /\ req'[r].more = q.more
  <2> HIDE DEF ids
  <2> QED BY <1>2 DEF Shaped
<1>4. /\ source \in SUBSET Findings /\ ids \subseteq source
      /\ source \subseteq Prefixed[q.mapping] \cap found
      /\ found \subseteq Findings
  BY DEF SInv, OwnersExist, Lowest
<1>5. WorkFits(req[r])'
  <2> HIDE DEF ids, source
  <2> QED BY <1>1, <1>2, <1>3, <1>4 DEF WorkFits, SelectionFits, PageFits, FlagsFit
<1>6. HandsOn(r)
  <2> SUFFICES ASSUME NEW f \in found \ excused', own'[f] = own[f], Pending(q, f)
               PROVE  Pending(req[r], f)'
    BY DEF HandsOn
  <2>1. /\ q.kind # "CLEAR" /\ f > q.cursor
        /\ \/ f \in Inside[q.mapping]
           \/ own[f].is.mapping = q.mapping /\ ComesTo(q.prior, f)
    BY <1>1 DEF Pending, Selects, WorksOn, Resolves
  <2>2. CASE own[f].is.mapping = q.mapping /\ ComesTo(q.prior, f)
    BY <1>1, <1>3, <2>1, <2>2 DEF Pending, Selects, ComesTo
  <2>3. CASE f \in Inside[q.mapping]
    <3>1. q.mapping \in Mappings
      BY <1>1, <1>2 DEF WorkFits, SelectionFits
    <3>2. f \in source
      BY <2>1, <2>3, <3>1, Params DEF ParamsAssumption
    <3>3. Take \in Nat \ {0}
      BY Params DEF ParamsAssumption
    <3>4. ComesTo(ids, f)
      <4> HIDE DEF source
      <4> QED BY <1>4, <3>2, <3>3, CutOffIsBehind DEF ComesTo
    <3> HIDE DEF ids
    <3> QED BY <1>1, <1>3, <2>1, <2>3, <3>4 DEF Pending, Selects, ComesTo
  <2> QED BY <2>1, <2>2, <2>3
<1> QED BY <1>5, <1>6

LEMMA SelectedPriorFits ==
    ASSUME SInv, NEW r \in Requests, SelectPrior(r)
    PROVE  WorkFits(req[r])' /\ HandsOn(r)
<1> DEFINE q == req[r]
<1> DEFINE source == {f \in Findings : own[f].is.mapping = q.mapping /\ f > q.cursor}
<1> DEFINE ids == Lowest(source, Take)
<1>1. /\ q.pc = "selecting" /\ q.prior = Unread /\ UNCHANGED <<own, found>>
      /\ Set(r, [q EXCEPT !.prior = ids])
  BY DEF SelectPrior
<1>2. Shaped(q) /\ WorkFits(q) /\ req'[r] = [q EXCEPT !.prior = ids]
  BY <1>1, Stepping
<1>3. /\ req'[r].pc = q.pc /\ req'[r].cursor = q.cursor /\ req'[r].prior = ids
      /\ req'[r].range = q.range /\ req'[r].kind = q.kind /\ req'[r].mapping = q.mapping
      /\ req'[r].page = q.page /\ req'[r].asn = q.asn /\ req'[r].more = q.more
  <2> HIDE DEF ids
  <2> QED BY <1>2 DEF Shaped
<1>4. source \in SUBSET Findings /\ ids \subseteq source /\ source \subseteq found
  <2>1. ASSUME NEW f \in source PROVE f \in found
    <3>1. own[f].is.mapping \in Mappings
      BY <1>1, <1>2 DEF WorkFits, SelectionFits
    <3>2. NoRow.is.mapping \notin Mappings
      BY Params DEF NoRow, Unresolved, Decision, NoMapping, ParamsAssumption
    <3> QED BY <3>1, <3>2 DEF SInv, OwnersExist
  <2> HIDE DEF source
  <2>2. ids \subseteq source
    BY DEF Lowest
  <2> QED BY <2>1, <2>2 DEF source
<1>5. WorkFits(req[r])'
  <2> HIDE DEF ids, source
  <2> QED BY <1>1, <1>2, <1>3, <1>4 DEF WorkFits, SelectionFits, PageFits, FlagsFit
<1>6. HandsOn(r)
  <2> SUFFICES ASSUME NEW f \in found \ excused', own'[f] = own[f], Pending(q, f)
               PROVE  Pending(req[r], f)'
    BY DEF HandsOn
  <2>1. /\ q.kind # "CLEAR" /\ f > q.cursor
        /\ \/ f \in Inside[q.mapping] /\ ComesTo(q.range, f)
           \/ own[f].is.mapping = q.mapping
    BY <1>1 DEF Pending, Selects, WorksOn, Resolves
  <2>2. CASE f \in Inside[q.mapping] /\ ComesTo(q.range, f)
    BY <1>1, <1>3, <2>1, <2>2 DEF Pending, Selects, ComesTo
  <2>3. CASE own[f].is.mapping = q.mapping
    <3>1. f \in source
      BY <2>1, <2>3 DEF SInv, OwnersExist
    <3>2. Take \in Nat \ {0}
      BY Params DEF ParamsAssumption
    <3>3. ComesTo(ids, f)
      <4> HIDE DEF source
      <4> QED BY <1>4, <3>1, <3>2, CutOffIsBehind DEF ComesTo
    <3> HIDE DEF ids
    <3> QED BY <1>1, <1>3, <2>1, <2>3, <3>3 DEF Pending, Selects, ComesTo
  <2> QED BY <2>1, <2>2, <2>3
<1> QED BY <1>5, <1>6

-----------------------------------------------------------------------------
(* The page of a sweep. *)

\* A finding that a source comes to is on the merged page, or is left to one that
\* follows.
LEMMA MergedOrLeft ==
    ASSUME NEW ids \in SUBSET Findings, NEW source \in SUBSET ids, NEW f \in Findings,
           ComesTo(source, f), source # Unread
    PROVE  LET page == Lowest(ids, Take)
           IN  \/ f \in page
               \/ /\ page # {} /\ f > Max(page)
                  /\ Cardinality(ids) > Take \/ Cardinality(source) = Take
<1> DEFINE page == Lowest(ids, Take)
<1>1. Take \in Nat \ {0} /\ f \in Nat
  BY Params DEF ParamsAssumption
<1>2. page \in SUBSET ids /\ page \in SUBSET Findings
  BY DEF Lowest
<1>3. ASSUME page # {}, \A g \in page : g < f PROVE f > Max(page)
  <2>1. page \in SUBSET Nat /\ IsFiniteSet(page)
    BY <1>2, IdsCount
  <2> HIDE DEF page
  <2>2. Max(page) \in page
    BY <1>3, <2>1, MaxIsGreatest
  <2>3. Max(page) \in Nat /\ Max(page) < f
    BY <1>3, <2>1, <2>2
  <2> QED BY <1>1, <2>3
<1>4. CASE f \in ids /\ f \notin page
  <2>1. Cardinality(page) = Take /\ \A g \in page : g < f
    BY <1>1, <1>4, CutOffIsBehind
  <2>2. page # {}
    BY <1>1, <2>1, FS_EmptySet
  <2>3. Cardinality(ids) > Take
    <3>1. /\ Cardinality(page) <= Cardinality(ids)
          /\ Cardinality(ids) = Cardinality(page) => ids = page
          /\ Cardinality(ids) \in Nat
      BY <1>2, IdsCount, FS_Subset
    <3>2. Cardinality(ids) # Cardinality(page)
      BY <1>4, <3>1
    <3> HIDE DEF page
    <3> QED BY <1>1, <2>1, <3>1, <3>2
  <2> HIDE DEF page
  <2> QED BY <1>3, <2>1, <2>2, <2>3 DEF page
<1>5. CASE Cardinality(source) = Take /\ \A g \in source : g < f
  <2>1. page # {} /\ \A g \in page : g < f
    BY <1>1, <1>5, PageStopsWithItsSource
  <2> HIDE DEF page
  <2> QED BY <1>3, <1>5, <2>1 DEF page
<1>6. f \in source => f \in ids
  OBVIOUS
<1> HIDE DEF page
<1>7. \/ f \in page
      \/ f \in ids /\ f \notin page
      \/ Cardinality(source) = Take /\ \A g \in source : g < f
  BY <1>6 DEF ComesTo
<1> QED BY <1>4, <1>5, <1>7 DEF page

LEMMA MergedPageFits ==
    ASSUME OctetAligned, SInv, NEW r \in Requests, MergePage(r)
    PROVE  WorkFits(req[r])' /\ HandsOn(r)
<1> DEFINE q == req[r]
<1> DEFINE ids == (q.range \cap Inside[q.mapping]) \cup q.prior
<1> DEFINE page == Lowest(ids, Take)
<1> DEFINE more == \/ Cardinality(ids) > Take
                   \/ Cardinality(q.range) = Take
                   \/ Cardinality(q.prior) = Take
<1> DEFINE next == IF page = {} THEN q.cursor ELSE Max(page)
<1>1. /\ q.pc = "selecting" /\ q.range # Unread /\ q.prior # Unread
      /\ UNCHANGED <<own, found>>
      /\ Set(r, [q EXCEPT !.pc = "working", !.page = page, !.before = NotMade,
                          !.more = more, !.next = next])
  BY DEF MergePage
<1>2. /\ Shaped(q) /\ WorkFits(q)
      /\ req'[r] = [q EXCEPT !.pc = "working", !.page = page, !.before = NotMade,
                             !.more = more, !.next = next]
  <2> HIDE DEF page, more, next
  <2> QED BY <1>1, Stepping
<1>3. /\ req'[r].pc = "working" /\ req'[r].page = page
      /\ req'[r].more = more /\ req'[r].next = next
      /\ req'[r].kind = q.kind /\ req'[r].mapping = q.mapping /\ req'[r].asn = q.asn
  <2> HIDE DEF page, more, next
  <2> QED BY <1>2 DEF Shaped
<1>4. /\ q.mapping \in Mappings
      /\ q.range \subseteq Prefixed[q.mapping] \cap found /\ q.prior \subseteq found
  BY <1>1, <1>2 DEF WorkFits, SelectionFits
<1>5. found \subseteq Findings /\ ids \in SUBSET found /\ page \subseteq found
  BY <1>4 DEF SInv, OwnersExist, Lowest
<1>6. q.range \in SUBSET ids /\ q.prior \in SUBSET ids
  BY <1>4 DEF OctetAligned
<1>7. more \in BOOLEAN
  OBVIOUS
<1>8. WorkFits(req[r])'
  <2> HIDE DEF page, more, next
  <2> QED BY <1>1, <1>2, <1>3, <1>4, <1>5, <1>7 DEF WorkFits, SelectionFits, PageFits, FlagsFit
<1>9. HandsOn(r)
  <2> SUFFICES ASSUME NEW f \in found \ excused', own'[f] = own[f], Pending(q, f)
               PROVE  Pending(req[r], f)'
    BY DEF HandsOn
  <2>1. /\ q.kind # "CLEAR"
        /\ \/ f \in Inside[q.mapping] /\ ComesTo(q.range, f)
           \/ own[f].is.mapping = q.mapping /\ ComesTo(q.prior, f)
    BY <1>1 DEF Pending, Selects, WorksOn, Resolves
  <2>2. f \in Affected(q.mapping) /\ f \in Findings
    BY <1>5, <2>1 DEF Affected
  <2>3. f \in page \/ (more /\ page # {} /\ f > Max(page))
    <3> HIDE DEF ids
    <3>1. ids \in SUBSET Findings
      BY <1>5
    <3>2. CASE ComesTo(q.range, f)
      <4>1. \/ f \in page
            \/ /\ page # {} /\ f > Max(page)
               /\ Cardinality(ids) > Take \/ Cardinality(q.range) = Take
        BY <1>1, <1>6, <2>2, <3>1, <3>2, MergedOrLeft
      <4> HIDE DEF page
      <4> QED BY <4>1
    <3>3. CASE ComesTo(q.prior, f)
      <4>1. \/ f \in page
            \/ /\ page # {} /\ f > Max(page)
               /\ Cardinality(ids) > Take \/ Cardinality(q.prior) = Take
        BY <1>1, <1>6, <2>2, <3>1, <3>3, MergedOrLeft
      <4> HIDE DEF page
      <4> QED BY <4>1
    <3> QED BY <2>1, <3>2, <3>3
  <2>4. f \in page \/ (more /\ f > next)
    <3> HIDE DEF page, more
    <3> QED BY <2>3
  <2> HIDE DEF page, more, next
  <2>5. f \in req'[r].page \/ (req'[r].more /\ f > req'[r].next)
    BY <1>3, <2>4
  <2> QED BY <1>3, <2>1, <2>2, <1>1, <2>5 DEF Pending, WorksOn, Left, Affected
<1> QED BY <1>8, <1>9

LEMMA AnsweredSweepFits ==
    ASSUME SInv, NEW r \in Requests, AnswerSweep(r)
    PROVE  WorkFits(req[r])' /\ HandsOn(r)
<1> DEFINE q == req[r]
<1>1. /\ q.pc = "working" /\ q.page = {} /\ UNCHANGED <<own, found>>
      /\ \/ q.more /\ Set(r, [q EXCEPT !.pc = "truncated"])
         \/ ~q.more /\ Set(r, Finished(q, "done"))
  BY DEF AnswerSweep
<1>2. CASE q.more /\ Set(r, [q EXCEPT !.pc = "truncated"])
  <2>1. Shaped(q) /\ WorkFits(q) /\ req'[r] = [q EXCEPT !.pc = "truncated"]
    BY <1>2, Stepping
  <2>2. /\ req'[r].pc = "truncated" /\ req'[r].page = q.page
        /\ req'[r].more = q.more /\ req'[r].next = q.next
        /\ req'[r].kind = q.kind /\ req'[r].mapping = q.mapping /\ req'[r].asn = q.asn
    BY <2>1 DEF Shaped
  <2>3. WorkFits(req[r])'
    BY <1>1, <1>2, <2>1, <2>2 DEF WorkFits, SelectionFits, PageFits, FlagsFit
  <2>4. HandsOn(r)
    BY <1>1, <2>2 DEF HandsOn, Pending, Selects, WorksOn, Resolves, Left, Affected
  <2> QED BY <2>3, <2>4
<1>3. CASE ~q.more /\ Set(r, Finished(q, "done"))
  <2>1. req'[r] = Finished(q, "done")
    BY <1>3, Stepping
  <2>2. WorkFits(req[r])'
    BY <2>1, FinishedFits
  <2>3. \A f : ~Pending(q, f)
    BY <1>1, <1>3 DEF Pending, Selects, WorksOn, Resolves, Left
  <2> QED BY <2>2, <2>3 DEF HandsOn
<1> QED BY <1>1, <1>2, <1>3

-----------------------------------------------------------------------------
(* One finding. *)

\* What a step does to the rows: one that is no longer excused, and one that is written
\* and not excused, is not stale.
Renews ==
    \A f \in Findings \ excused' : f \in excused \/ own'[f] # own[f] => ~Inconsistent(f)'

LEMMA NothingToRenew ==
    ASSUME UNCHANGED own, excused \subseteq excused'
    PROVE  Renews
BY DEF Renews

\* FreshIsConsistent as a formula, to be stated of the next state.
FreshRowsAreConsistent ==
    \A f \in Findings : \A asn \in BOOLEAN :
        own[f].is = Decide(f, reg, asn) \/ own[f].is.status = "OVERRIDDEN" => ~Inconsistent(f)

LEMMA FreshRows == FreshRowsAreConsistent
BY FreshIsConsistent DEF FreshRowsAreConsistent

LEMMA SubjectIsOnPage ==
    ASSUME SInv, NEW r \in Requests, req[r].pc = "resolving" \/ req[r].page # {}
    PROVE  /\ Subject(r) = Min(req[r].page) /\ Subject(r) \in req[r].page
           /\ Subject(r) \in found /\ Subject(r) \in Findings
<1>1. req[r].page # {} /\ req[r].page \subseteq found /\ found \in SUBSET Findings
  BY DEF SInv, WorkFits, PageFits, OwnersExist
<1>2. req[r].page \in SUBSET Nat
  BY <1>1, IdsCount
<1>3. Min(req[r].page) \in req[r].page
  BY <1>1, <1>2, MinIsLeast
<1> QED BY <1>1, <1>3 DEF Subject

\* What a transaction decided from its snapshot, it would decide from the registry now,
\* unless the registry was written meanwhile in a way that matters.
LEMMA UntornIsFresh ==
    ASSUME SInv, NEW r \in Requests, ~Torn(r)
    PROVE  \/ \E asn \in BOOLEAN : Result(r) = Decide(Subject(r), reg, asn)
           \/ Result(r).status = "OVERRIDDEN"
<1>1. req[r].asn \in BOOLEAN /\ (req[r].asn => req[r].kind = "INGEST")
  BY DEF SInv, WorkFits, FlagsFit
<1>2. Decide(Subject(r), req[r].snapshot, req[r].asn) = Decide(Subject(r), reg, req[r].asn)
  BY DEF Torn
<1>3. CASE req[r].kind = "CLEAR"
  <2>1. req[r].asn = FALSE
    BY <1>1, <1>3
  <2> QED BY <1>2, <1>3, <2>1 DEF Result
<1>4. CASE req[r].kind # "CLEAR" /\ req[r].row.is.status = "OVERRIDDEN"
  BY <1>4 DEF Result, Resolve
<1>5. CASE req[r].kind # "CLEAR" /\ req[r].row.is.status # "OVERRIDDEN"
  BY <1>1, <1>2, <1>5 DEF Result, Resolve
<1> QED BY <1>3, <1>4, <1>5

LEMMA NextSubjectFits ==
    ASSUME SInv, NEW r \in Requests, Set(r, NextSubject(req[r])), UNCHANGED found,
           req[r].pc = "resolving"
    PROVE  WorkFits(req[r])'
<1> DEFINE q == req[r]
<1>1. Shaped(q) /\ WorkFits(q) /\ req'[r] = NextSubject(q)
  BY Stepping
<1>2. /\ req'[r].pc = "working" /\ req'[r].page = q.page \ {Min(q.page)}
      /\ req'[r].kind = q.kind /\ req'[r].mapping = q.mapping /\ req'[r].asn = q.asn
      /\ req'[r].more = q.more
  BY <1>1, NextSubjectFields
<1> QED BY <1>1, <1>2 DEF WorkFits, SelectionFits, PageFits, FlagsFit

\* The other findings of the page wait on, and those left to the next page.
LEMMA NextSubjectKeepsOthers ==
    ASSUME SInv, NEW r \in Requests, Set(r, NextSubject(req[r])), req[r].pc = "resolving",
           NEW f \in found, f # Subject(r), own'[f] = own[f], Pending(req[r], f)
    PROVE  Pending(req[r], f)'
<1> DEFINE q == req[r]
<1>1. Shaped(q) /\ req'[r] = NextSubject(q)
  BY Stepping
<1>2. /\ req'[r].pc = "working" /\ req'[r].page = q.page \ {Min(q.page)}
      /\ req'[r].kind = q.kind /\ req'[r].mapping = q.mapping
      /\ req'[r].more = q.more /\ req'[r].next = q.next
  BY <1>1, NextSubjectFields
<1>3. q.kind # "CLEAR" /\ (f \in q.page \/ Left(q, f)) /\ f # Min(q.page) /\ f \in Findings
  BY DEF Pending, Selects, WorksOn, Resolves, Subject, SInv, OwnersExist
<1>4. CASE f \in q.page
  BY <1>2, <1>3, <1>4 DEF Pending, WorksOn
<1>5. CASE Left(q, f)
  BY <1>2, <1>3, <1>5 DEF Pending, WorksOn, Left, Affected
<1> QED BY <1>3, <1>4, <1>5

LEMMA BegunResolveFits ==
    ASSUME SInv, NEW r \in Requests, BeginResolve(r)
    PROVE  WorkFits(req[r])' /\ HandsOn(r)
<1> DEFINE q == req[r]
<1> DEFINE tries == q.tries + 1
<1>1. /\ q.pc = "working" /\ q.page # {} /\ UNCHANGED <<own, found>>
      /\ \/ q.kind = "CLEAR" /\ Set(r, [q EXCEPT !.page = {}])
         \/ Set(r, [q EXCEPT !.pc = "resolving", !.snapshot = reg, !.row = own[Subject(r)],
                             !.tries = tries])
  BY DEF BeginResolve
<1> HIDE DEF tries
<1>2. CASE q.kind = "CLEAR" /\ Set(r, [q EXCEPT !.page = {}])
  <2>1. Shaped(q) /\ WorkFits(q) /\ req'[r] = [q EXCEPT !.page = {}]
    BY <1>2, Stepping
  <2>2. /\ req'[r].pc = "working" /\ req'[r].page = {}
        /\ req'[r].more = q.more /\ req'[r].kind = q.kind
        /\ req'[r].mapping = q.mapping /\ req'[r].asn = q.asn
    BY <1>1, <2>1 DEF Shaped
  <2>3. WorkFits(req[r])'
    BY <1>1, <2>1, <2>2 DEF WorkFits, SelectionFits, PageFits, FlagsFit
  <2> QED BY <1>2, <2>3 DEF HandsOn, Pending
<1>3. CASE Set(r, [q EXCEPT !.pc = "resolving", !.snapshot = reg, !.row = own[Subject(r)],
                            !.tries = tries])
  <2>1. /\ Shaped(q) /\ WorkFits(q)
        /\ req'[r] = [q EXCEPT !.pc = "resolving", !.snapshot = reg, !.row = own[Subject(r)],
                               !.tries = tries]
    BY <1>3, Stepping
  <2>2. /\ req'[r].pc = "resolving" /\ req'[r].page = q.page /\ req'[r].row = own[Subject(r)]
        /\ req'[r].more = q.more /\ req'[r].kind = q.kind /\ req'[r].next = q.next
        /\ req'[r].mapping = q.mapping /\ req'[r].asn = q.asn
    BY <2>1 DEF Shaped
  <2>3. WorkFits(req[r])'
    BY <1>1, <2>1, <2>2 DEF WorkFits, SelectionFits, PageFits, FlagsFit
  <2>4. HandsOn(r)
    <3> SUFFICES ASSUME NEW f \in found \ excused', own'[f] = own[f], Pending(q, f)
                 PROVE  Pending(req[r], f)'
      BY DEF HandsOn
    <3>1. q.kind # "CLEAR" /\ (f \in q.page \/ Left(q, f))
      BY <1>1 DEF Pending, Selects, WorksOn, Resolves
    <3>2. CASE f \in q.page
      BY <1>1, <2>2, <3>1, <3>2 DEF Pending, Resolves, Subject
    <3>3. CASE Left(q, f)
      BY <1>1, <2>2, <3>1, <3>3 DEF Pending, Resolves, Left, Affected
    <3> QED BY <3>1, <3>2, <3>3
  <2> QED BY <2>3, <2>4
<1> QED BY <1>1, <1>2, <1>3

LEMMA KeptIsRight ==
    ASSUME SInv, NEW r \in Requests, KeepOwnership(r)
    PROVE  WorkFits(req[r])' /\ HandsOn(r) /\ Renews
<1> DEFINE s == Subject(r)
<1>1. /\ req[r].pc = "resolving" /\ Unchanged(r) /\ UNCHANGED <<reg, own, found>>
      /\ excused' = IF own[s] = req[r].row THEN Excuse(r) ELSE excused
      /\ Set(r, NextSubject(req[r]))
  BY DEF KeepOwnership
<1>2. s = Min(req[r].page) /\ s \in Findings
  BY <1>1, SubjectIsOnPage
<1> HIDE DEF s
<1>3. ASSUME own[s] = req[r].row, s \notin excused' PROVE ~Inconsistent(s)
  <2>1. ~Torn(r)
    BY <1>1, <1>3 DEF Excuse, s
  <2>2. own[s].is = Result(r)
    BY <1>1, <1>3 DEF Unchanged
  <2> QED BY <1>2, <2>1, <2>2, UntornIsFresh, FreshIsConsistent DEF s
<1>4. WorkFits(req[r])'
  BY <1>1, NextSubjectFits
<1>5. HandsOn(r)
  <2> SUFFICES ASSUME NEW f \in found \ excused', Inconsistent(f), own'[f] = own[f],
                      Pending(req[r], f)
               PROVE  Pending(req[r], f)'
    BY DEF HandsOn
  <2>1. CASE f # s
    BY <1>1, <2>1, NextSubjectKeepsOthers DEF s
  <2>2. CASE f = s
    <3>1. own[s] = req[r].row \/ Left(req[r], f)
      BY <1>1, <1>2, <2>2 DEF Pending, Selects, WorksOn, Resolves
    <3>2. CASE own[s] = req[r].row
      BY <1>3, <2>2, <3>2
    <3>3. CASE Left(req[r], f)
      <4>1. /\ req'[r].pc = "working" /\ req'[r].more = req[r].more /\ req'[r].next = req[r].next
            /\ req'[r].mapping = req[r].mapping /\ req'[r].kind = req[r].kind
        BY <1>1, Stepping, NextSubjectFields
      <4> QED BY <1>1, <3>3, <4>1 DEF Pending, WorksOn, Left, Affected
    <3> QED BY <3>1, <3>2, <3>3
  <2> QED BY <2>1, <2>2
<1>6. Renews
  <2> SUFFICES ASSUME NEW f \in Findings \ excused', f \in excused PROVE ~Inconsistent(f)'
    BY <1>1 DEF Renews
  <2>1. own[s] = req[r].row /\ f = s
    BY <1>1 DEF Excuse, s
  <2>2. ~Inconsistent(s)
    BY <1>3, <2>1
  <2> QED BY <1>1, <2>1, <2>2 DEF Inconsistent
<1> QED BY <1>4, <1>5, <1>6

LEMMA PersistedIsRight ==
    ASSUME SInv, NEW r \in Requests, PersistOwnership(r)
    PROVE  WorkFits(req[r])' /\ HandsOn(r) /\ Renews /\ OwnersExist'
<1> DEFINE s == Subject(r)
<1>1. /\ req[r].pc = "resolving" /\ UNCHANGED <<reg, found>>
      /\ own' = [own EXCEPT ![s] = [id |-> own[s].id + 1, is |-> Result(r)]]
      /\ excused' = Excuse(r)
      /\ Set(r, NextSubject(req[r]))
  BY DEF PersistOwnership
<1>2. s = Min(req[r].page) /\ s \in found /\ s \in Findings
  BY <1>1, SubjectIsOnPage
<1> HIDE DEF s
<1>3. RowsFit
  BY DEF SInv, IInv
<1>4. own'[s].is = Result(r) /\ own'[s] # own[s] /\ \A f \in Findings \ {s} : own'[f] = own[f]
  <2>1. own[s].id \in Nat
    BY <1>2, <1>3 DEF RowsFit, RowFits
  <2>2. own'[s] = [id |-> own[s].id + 1, is |-> Result(r)]
    BY <1>1, <1>2, <1>3 DEF RowsFit
  <2> QED BY <1>1, <1>3, <2>1, <2>2 DEF RowsFit
<1>5. WorkFits(req[r])'
  BY <1>1, NextSubjectFits
<1>6. HandsOn(r)
  BY <1>1, <1>4, NextSubjectKeepsOthers DEF HandsOn, s
<1>7. Renews
  <2> SUFFICES ASSUME NEW f \in Findings \ excused', f \in excused \/ own'[f] # own[f]
               PROVE  ~Inconsistent(f)'
    BY DEF Renews
  <2>1. f = s /\ ~Torn(r)
    BY <1>1, <1>4 DEF Excuse, s
  <2>2. \/ \E asn \in BOOLEAN : own'[s].is = Decide(s, reg', asn)
        \/ own'[s].is.status = "OVERRIDDEN"
    BY <1>1, <1>4, <2>1, UntornIsFresh DEF s
  <2>3. FreshRowsAreConsistent'
    BY FreshRows, PTL
  <2> QED BY <2>1, <2>2, <2>3 DEF FreshRowsAreConsistent
<1>8. OwnersExist'
  BY <1>1, <1>2, <1>4 DEF SInv, OwnersExist
<1> QED BY <1>5, <1>6, <1>7, <1>8

LEMMA ConflictIsExcused ==
    ASSUME SInv, NEW r \in Requests, ConflictOnCommit(r)
    PROVE  WorkFits(req[r])' /\ HandsOn(r)
<1> DEFINE q == req[r]
<1>1. /\ q.pc = "resolving" /\ UNCHANGED <<own, found>>
      /\ \/ Set(r, [q EXCEPT !.pc = "working"])
         \/ Set(r, NextSubject(q)) /\ excused' = excused \cup {Subject(r)}
  BY DEF ConflictOnCommit
<1>2. CASE Set(r, [q EXCEPT !.pc = "working"])
  <2>1. Shaped(q) /\ WorkFits(q) /\ req'[r] = [q EXCEPT !.pc = "working"]
    BY <1>2, Stepping
  <2>2. /\ req'[r].pc = "working" /\ req'[r].page = q.page
        /\ req'[r].more = q.more /\ req'[r].next = q.next
        /\ req'[r].kind = q.kind /\ req'[r].mapping = q.mapping /\ req'[r].asn = q.asn
    BY <2>1 DEF Shaped
  <2>3. WorkFits(req[r])'
    BY <1>1, <2>1, <2>2 DEF WorkFits, SelectionFits, PageFits, FlagsFit
  <2>4. HandsOn(r)
    BY <1>1, <2>2 DEF HandsOn, Pending, Selects, WorksOn, Resolves, Left, Affected
  <2> QED BY <2>3, <2>4
<1>3. CASE Set(r, NextSubject(q)) /\ excused' = excused \cup {Subject(r)}
  BY <1>1, <1>3, NextSubjectFits, NextSubjectKeepsOthers DEF HandsOn
<1> QED BY <1>1, <1>2, <1>3

LEMMA OverrideIsRight ==
    ASSUME SInv, NEW r \in Requests, ApplyOverride(r)
    PROVE  WorkFits(req[r])' /\ HandsOn(r) /\ Renews /\ OwnersExist'
<1> DEFINE q == [req[r] EXCEPT !.kind = "OVERRIDE"]
<1>1. PICK s \in found, org \in Orgs :
         /\ own' = [own EXCEPT ![s] = [id |-> own[s].id + 1, is |-> Overridden(org)]]
         /\ Set(r, Finished(q, "done"))
  BY DEF ApplyOverride
<1>2. req[r].pc = "idle" /\ UNCHANGED <<reg, found, excused>>
  BY DEF ApplyOverride
<1>3. req'[r] = Finished(q, "done")
  BY <1>1, Stepping
<1>4. WorkFits(req[r])'
  <2> HIDE DEF q
  <2> QED BY <1>3, FinishedFits
<1>5. HandsOn(r)
  BY <1>2, UnconcernedHandsOn DEF Unconcerned
<1>6. s \in Findings /\ RowsFit
  BY DEF SInv, IInv, OwnersExist
<1>7. own'[s].is.status = "OVERRIDDEN" /\ \A f \in Findings \ {s} : own'[f] = own[f]
  BY <1>1, <1>6 DEF RowsFit, Overridden, Decision
<1>8. Renews
  BY <1>2, <1>7 DEF Renews, Inconsistent
<1>9. OwnersExist'
  BY <1>2, <1>7 DEF SInv, OwnersExist
<1> QED BY <1>4, <1>5, <1>8, <1>9

LEMMA DeathIsExcused ==
    ASSUME SInv, NEW r \in Requests, Die(r)
    PROVE  WorkFits(req[r])' /\ HandsOn(r)
<1> DEFINE q == req[r]
<1>1. excused' = excused \cup Remaining(r) /\ Set(r, Finished(q, "dead"))
  BY DEF Die
<1>2. req'[r] = Finished(q, "dead")
  BY <1>1, Stepping
<1>3. WorkFits(req[r])'
  BY <1>2, FinishedFits
<1>4. ASSUME NEW f \in found, Pending(q, f) PROVE f \in Remaining(r)
  <2>1. f \in Findings
    BY DEF SInv, OwnersExist
  <2>2. CASE Selects(q, f)
    BY <2>1, <2>2 DEF Selects, Remaining, Affected
  <2>3. CASE WorksOn(q, f) \/ Resolves(q, f)
    BY <2>1, <2>3 DEF WorksOn, Resolves, Left, Remaining
  <2> QED BY <1>4, <2>2, <2>3 DEF Pending
<1> QED BY <1>1, <1>3, <1>4 DEF HandsOn

-----------------------------------------------------------------------------
(* Every step keeps what a stale row waits for. *)

\* A step that leaves the registry alone makes a row stale only by writing it.
LEMMA NothingToSettle ==
    ASSUME NEW r \in Requests, UNCHANGED reg
    PROVE  Settles(r)
BY DEF Settles, Inconsistent

\* What a step of r must do for the others to be able to rely on it.
StepKeepsWaiting(r) ==
    /\ WorkFits(req[r])' /\ HandsOn(r) /\ Settles(r) /\ Renews
    /\ OwnersExist' /\ RegistryFits' /\ found \subseteq found'
    /\ \A s \in Requests \ {r} : req'[s] = req[s]

LEMMA RegistryStepsKeepWaiting ==
    ASSUME SInv, NEW r \in Requests,
           CreateMapping(r) \/ UpdateMapping(r) \/ DisableMapping(r)
    PROVE  StepKeepsWaiting(r)
<1>1. UNCHANGED <<found, own>> /\ excused \subseteq excused'
  BY DEF CreateMapping, UpdateMapping, DisableMapping
<1>2. WorkFits(req[r])' /\ HandsOn(r) /\ Settles(r) /\ RegistryFits'
  BY CreationSettles, UpdateSettles, DisablingSettles
<1>3. \E s : Set(r, s)
  BY DEF CreateMapping, UpdateMapping, DisableMapping
<1>4. \A s \in Requests \ {r} : req'[s] = req[s]
  BY <1>3, Stepping
<1>5. OwnersExist'
  BY <1>1 DEF SInv, OwnersExist
<1> QED BY <1>1, <1>2, <1>4, <1>5, NothingToRenew DEF StepKeepsWaiting

LEMMA SelectingStepsKeepWaiting ==
    ASSUME OctetAligned, SInv, NEW r \in Requests,
           \/ ReadMapping(r) \/ AskForSweep(r) \/ ContinueSweep(r) \/ SelectRange(r)
           \/ SelectPrior(r) \/ MergePage(r) \/ AnswerSweep(r) \/ AskForClear(r)
    PROVE  StepKeepsWaiting(r)
<1>1. UNCHANGED <<reg, found, own, excused>>
  BY DEF ReadMapping, AskForSweep, ContinueSweep, SelectRange, SelectPrior, MergePage,
         AnswerSweep, AskForClear
<1>2. WorkFits(req[r])' /\ HandsOn(r)
  BY ReadingFits, AskingFits, ContinuingFits, SelectedRangeFits, SelectedPriorFits,
     MergedPageFits, AnsweredSweepFits, ClearingFits
<1>3. \E s : Set(r, s)
  BY DEF ReadMapping, AskForSweep, ContinueSweep, SelectRange, SelectPrior, MergePage,
         AnswerSweep, AskForClear
<1>4. \A s \in Requests \ {r} : req'[s] = req[s]
  BY <1>3, Stepping
<1>5. OwnersExist' /\ RegistryFits'
  BY <1>1 DEF SInv, OwnersExist, RegistryFits
<1> QED BY <1>1, <1>2, <1>4, <1>5, NothingToRenew, NothingToSettle DEF StepKeepsWaiting

LEMMA ResolvingStepsKeepWaiting ==
    ASSUME SInv, NEW r \in Requests,
           \/ Ingest(r) \/ BeginResolve(r) \/ KeepOwnership(r) \/ PersistOwnership(r)
           \/ ConflictOnCommit(r) \/ ApplyOverride(r) \/ Die(r)
    PROVE  StepKeepsWaiting(r)
<1>1. UNCHANGED reg /\ RegistryFits'
  BY DEF Ingest, BeginResolve, KeepOwnership, PersistOwnership, ConflictOnCommit,
         ApplyOverride, Die, SInv, RegistryFits
<1>2. WorkFits(req[r])' /\ HandsOn(r)
  BY IngestFits, BegunResolveFits, KeptIsRight, PersistedIsRight, ConflictIsExcused,
     OverrideIsRight, DeathIsExcused
<1>3. \E s : Set(r, s)
  BY DEF Ingest, BeginResolve, KeepOwnership, PersistOwnership, ConflictOnCommit,
         ApplyOverride, Die
<1>4. \A s \in Requests \ {r} : req'[s] = req[s]
  BY <1>3, Stepping
<1>5. Settles(r)
  BY <1>1, NothingToSettle
<1>6. CASE Ingest(r)
  <2>1. UNCHANGED <<own, excused>> /\ found \subseteq found' /\ found' \subseteq Findings
    BY <1>6 DEF Ingest, SInv, OwnersExist
  <2>2. OwnersExist'
    BY <2>1 DEF SInv, OwnersExist
  <2> QED BY <1>1, <1>2, <1>4, <1>5, <2>1, <2>2, NothingToRenew DEF StepKeepsWaiting
<1>7. CASE BeginResolve(r) \/ KeepOwnership(r) \/ ConflictOnCommit(r) \/ Die(r)
  <2>1. UNCHANGED <<own, found>>
    BY <1>7 DEF BeginResolve, KeepOwnership, ConflictOnCommit, Die
  <2>2. OwnersExist'
    BY <2>1 DEF SInv, OwnersExist
  <2>3. Renews
    <3>1. CASE KeepOwnership(r)
      BY <3>1, KeptIsRight
    <3>2. CASE BeginResolve(r) \/ ConflictOnCommit(r) \/ Die(r)
      <4>1. excused \subseteq excused'
        BY <3>2 DEF BeginResolve, ConflictOnCommit, Die
      <4> QED BY <2>1, <4>1, NothingToRenew
    <3> QED BY <1>7, <3>1, <3>2
  <2> QED BY <1>1, <1>2, <1>4, <1>5, <2>1, <2>2, <2>3 DEF StepKeepsWaiting
<1>8. CASE PersistOwnership(r) \/ ApplyOverride(r)
  <2>1. UNCHANGED found
    BY <1>8 DEF PersistOwnership, ApplyOverride
  <2> QED BY <1>1, <1>2, <1>4, <1>5, <1>8, <2>1, PersistedIsRight, OverrideIsRight
          DEF StepKeepsWaiting
<1> QED BY <1>6, <1>7, <1>8

LEMMA WaitingIsKept ==
    ASSUME SInv, NEW r \in Requests, StepKeepsWaiting(r), IInv'
    PROVE  SInv'
<1>1. \A s \in Requests : WorkFits(req[s])'
  BY OthersFit DEF StepKeepsWaiting, SInv
<1>2. ASSUME NEW f \in found' \ excused', Inconsistent(f)' PROVE Awaited(f)'
  <2>1. f \in Findings
    BY DEF StepKeepsWaiting, OwnersExist
  <2>2. f \notin excused /\ own'[f] = own[f]
    BY <1>2, <2>1 DEF StepKeepsWaiting, Renews
  <2>3. own[f].id > 0
    BY <1>2, <2>2 DEF Inconsistent
  <2>4. f \in found
    <3>1. own[f] # NoRow
      BY <2>3 DEF NoRow
    <3> QED BY <2>1, <3>1 DEF SInv, OwnersExist
  <2>5. CASE ~Inconsistent(f)
    <3>1. Pending(req[r], f)'
      BY <1>2, <2>2, <2>4, <2>5 DEF StepKeepsWaiting, Settles
    <3> QED BY <3>1 DEF Awaited
  <2>6. CASE Inconsistent(f)
    <3>1. PICK s \in Requests : Pending(req[s], f)
      BY <2>2, <2>4, <2>6 DEF SInv, StaleAreAwaited, Awaited
    <3>2. Pending(req[s], f)'
      <4>1. CASE s = r
        BY <2>2, <2>4, <2>6, <3>1, <4>1 DEF StepKeepsWaiting, HandsOn
      <4>2. CASE s # r
        BY <2>1, <2>2, <3>1, <4>2, OthersWait DEF StepKeepsWaiting
      <4> QED BY <4>1, <4>2
    <3> QED BY <3>2 DEF Awaited
  <2> QED BY <2>5, <2>6
<1>3. StaleAreAwaited'
  BY <1>2 DEF StaleAreAwaited
<1> QED BY <1>1, <1>3 DEF SInv, StepKeepsWaiting

LEMMA InitNothingWaits == Init => SInv
<1> SUFFICES ASSUME Init PROVE SInv
  OBVIOUS
<1>1. IInv
  BY InitIsFit
<1>2. ASSUME NEW r \in Requests PROVE WorkFits(req[r])
  <2>1. req[r].pc = "idle" /\ req[r].page = {} /\ req[r].asn = FALSE /\ req[r].more = FALSE
    BY DEF Init, NewRequest
  <2> QED BY <2>1 DEF WorkFits, SelectionFits, PageFits, FlagsFit
<1> DEFINE First(f) == IF f \in found THEN [id |-> 1, is |-> Decide(f, reg, TRUE)] ELSE NoRow
<1>3. \A f \in Findings : own[f] = First(f)
  BY DEF Init
<1> HIDE DEF First
<1>4. OwnersExist
  BY <1>3 DEF First, Init, OwnersExist
<1>5. RegistryFits
  <2>1. NotMade \in Mapping /\ [made: {TRUE}, enabled: {TRUE}, org: Orgs] \subseteq Mapping
    BY DEF Mapping, NotMade
  <2> QED BY <2>1 DEF Init, RegistryFits
<1>6. ASSUME NEW f \in found PROVE ~Inconsistent(f)
  <2>1. f \in Findings
    BY <1>4 DEF OwnersExist
  <2>2. own[f] = [id |-> 1, is |-> Decide(f, reg, TRUE)]
    BY <1>3, <2>1 DEF First
  <2>3. own[f].is = Decide(f, reg, TRUE)
    BY <2>2
  <2> QED BY <2>1, <2>3, FreshIsConsistent
<1> QED BY <1>1, <1>2, <1>4, <1>5, <1>6 DEF SInv, StaleAreAwaited

LEMMA NextKeepsWaiting ==
    ASSUME OctetAligned
    PROVE  SInv /\ [Next]_vars => SInv'
<1> SUFFICES ASSUME SInv, [Next]_vars PROVE SInv'
  OBVIOUS
<1>1. IInv'
  BY NextKeepsFit DEF SInv
<1>2. CASE UNCHANGED vars
  <2>1. /\ UNCHANGED <<reg, found, own, excused>>
        /\ \A r \in Requests : req'[r] = req[r]
    BY <1>2 DEF vars
  <2>2. \A r \in Requests : WorkFits(req[r])'
    BY <2>1, OthersFit DEF SInv
  <2>3. OwnersExist' /\ RegistryFits'
    BY <2>1 DEF SInv, OwnersExist, RegistryFits
  <2>4. ASSUME NEW f \in found \ excused, Inconsistent(f)' PROVE Awaited(f)'
    <3>1. Inconsistent(f) /\ f \in Findings
      BY <2>1, <2>4 DEF Inconsistent, SInv, OwnersExist
    <3>2. PICK r \in Requests : Pending(req[r], f)
      BY <3>1 DEF SInv, StaleAreAwaited, Awaited
    <3>3. Pending(req[r], f)'
      BY <2>1, <3>1, <3>2, OthersWait
    <3> QED BY <3>3 DEF Awaited
  <2>5. StaleAreAwaited'
    BY <2>1, <2>4 DEF StaleAreAwaited
  <2> QED BY <1>1, <2>2, <2>3, <2>5 DEF SInv
<1>3. CASE Next
  <2>1. PICK r \in Requests :
          \/ CreateMapping(r) \/ ReadMapping(r) \/ UpdateMapping(r) \/ DisableMapping(r)
          \/ AskForSweep(r) \/ ContinueSweep(r) \/ SelectRange(r) \/ SelectPrior(r)
          \/ MergePage(r) \/ AnswerSweep(r)
          \/ Ingest(r) \/ AskForClear(r) \/ ApplyOverride(r)
          \/ BeginResolve(r) \/ KeepOwnership(r) \/ PersistOwnership(r) \/ ConflictOnCommit(r)
          \/ Die(r)
    BY <1>3 DEF Next
  <2>2. StepKeepsWaiting(r)
    BY <2>1, RegistryStepsKeepWaiting, SelectingStepsKeepWaiting, ResolvingStepsKeepWaiting
  <2> QED BY <1>1, <2>2, WaitingIsKept
<1> QED BY <1>2, <1>3

\* When nothing is under way, the consistency check finds a row stale only where something
\* excuses it, for any registry whose ranges end at octets, any findings and any number of
\* requests: in assetMappingService.js every mutation that could make a row stale is
\* followed by a sweep, and neither the pages of a sweep nor what else goes on loses it.
THEOREM StaleRowsAreExcused ==
    ASSUME OctetAligned
    PROVE  Spec => []StaleOnlyWhenExcused
<1>1. Spec => []SInv
  <2>1. SInv /\ [Next]_vars => SInv'
    BY NextKeepsWaiting
  <2> QED BY InitNothingWaits, <2>1, PTL DEF Spec
<1>2. SInv => StaleOnlyWhenExcused
  <2> SUFFICES ASSUME SInv, \A r \in Requests : req[r].pc \in {"idle"} \cup Answered,
                      NEW f \in found \ excused
               PROVE  ~Inconsistent(f)
    BY DEF StaleOnlyWhenExcused
  <2>1. \A r \in Requests : ~Pending(req[r], f)
    BY DEF Pending, Selects, WorksOn, Resolves, Answered
  <2> QED BY <2>1 DEF SInv, StaleAreAwaited, Awaited
<1> QED BY <1>1, <1>2, PTL
=============================================================================
