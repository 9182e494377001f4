---------------------------- MODULE CaseWorkflow ----------------------------
(***************************************************************************)
(* The analyst workflow: triage of findings, cases that hold findings as   *)
(* evidence, closure under review, and the reopening of cases when a       *)
(* remediated exposure is seen again.                                      *)
(*                                                                         *)
(* Every write runs in a SERIALIZABLE transaction that re-reads what it    *)
(* decides on and is re-run as a whole when it loses a race, so it is one  *)
(* action here.  Three handlers decide on something they read before their *)
(* write and do not read again: linking reads the case, recording a        *)
(* response reads the case, and the reopening pass reads the links.  Those *)
(* have a read and a write action, with a handler's memory between them.   *)
(***************************************************************************)
EXTENDS Integers, Sequences, FiniteSets

CONSTANTS
    Cases, Findings, Users, Orgs,
    Requests,     \* CaseClosureRequest rows that may come to exist
    Responses,    \* CaseOrganizationResponse rows that may come to exist
    Occurrences,  \* FindingOccurrence rows whose action is RECURRED
    Handlers,     \* concurrent request handlers and ingestions
    None,         \* a null reference
    OrgOf,        \* Case.organizationId
    FindingOf,    \* FindingOccurrence.findingId
    Managers,     \* users who at some time hold manage:cases
    Reviewers,    \* users who at some time hold review:case-closure: no role but the
                  \* administrator's holds both, but an analyst may be made a reviewer
    SelfApprovers,\* users with override:closure-self-approval
    Reasons,      \* closure reasons in use
    MaxEvents     \* bound on the lifecycle events of a case

VARIABLES
    case,         \* the Case rows
    events,       \* CaseLifecycleEvent, by case, oldest first
    request,      \* CaseClosureRequest
    response,     \* CaseOrganizationResponse
    link,         \* state of the current CaseFinding row, by case and finding
    owner,        \* the organization current ownership settles on, if it does
    triage,       \* decision of the current FindingTriage row, by finding
    ledger,       \* CaseRecurrenceReopen.outcome, by occurrence and case
    handler       \* what each handler read and has not yet acted on

vars == <<case, events, request, response, link, owner, triage, ledger, handler>>

AllowedTransitions ==
    [OPEN            |-> {"WAITING_FOR_ORG", "CLOSURE_PENDING"},
     WAITING_FOR_ORG |-> {"OPEN", "CLOSURE_PENDING"},
     CLOSURE_PENDING |-> {"CLOSED", "OPEN"},
     CLOSED          |-> {"OPEN"}]

States == DOMAIN AllowedTransitions
AnalystSettable == {"OPEN", "WAITING_FOR_ORG"}
Decided == {"APPROVED", "REJECTED"}
Codes == {"CASE_CREATED", "STATE_CHANGED_BY_ANALYST", "CLOSURE_REQUESTED_BY_ANALYST",
          "CLOSURE_APPROVED_BY_REVIEWER", "CLOSURE_REJECTED_BY_REVIEWER",
          "REOPENED_MANUALLY", "REOPENED_BY_RECURRENCE"}

CaseRow == [state: {"ABSENT"} \cup States, closureReason: Reasons \cup {None}, reopenedCount: Nat]
Event == [code: Codes, to: States]
RequestRow == [state: {"ABSENT", "PENDING"} \cup Decided, case: Cases \cup {None},
               reason: Reasons \cup {None}, by: Users \cup {None},
               reviewer: Users \cup {None}, support: Responses \cup {None}]
ResponseRow == [case: Cases \cup {None}, type: {"NONE", "REMEDIATED", "OTHER"}]
Handler == [pc: {"idle", "responding", "linking", "reopening"}, case: Cases \cup {None},
            finding: Findings \cup {None}, occ: Occurrences \cup {None}, todo: SUBSET Cases]

NoHandler == [pc |-> "idle", case |-> None, finding |-> None, occ |-> None, todo |-> {}]
NoRequest == [state |-> "ABSENT", case |-> None, reason |-> None, by |-> None,
              reviewer |-> None, support |-> None]

ParamsAssumption ==
    /\ IsFiniteSet(Cases) /\ IsFiniteSet(Requests)
    /\ OrgOf \in [Cases -> Orgs]
    /\ FindingOf \in [Occurrences -> Findings]
    /\ Managers \subseteq Users /\ Reviewers \subseteq Users /\ SelfApprovers \subseteq Users
    /\ None \notin Cases \cup Findings \cup Users \cup Orgs \cup Responses \cup Occurrences \cup Reasons
    /\ MaxEvents \in Nat
ASSUME Params == ParamsAssumption

Init ==
    /\ case = [c \in Cases |-> [state |-> "ABSENT", closureReason |-> None, reopenedCount |-> 0]]
    /\ events = [c \in Cases |-> <<>>]
    /\ request = [r \in Requests |-> NoRequest]
    /\ response = [p \in Responses |-> [case |-> None, type |-> "NONE"]]
    /\ link = [k \in Cases \X Findings |-> "NONE"]
    /\ owner = [f \in Findings |-> None]
    /\ triage = [f \in Findings |-> "UNTRIAGED"]
    /\ ledger = [k \in Occurrences \X Cases |-> "NONE"]
    /\ handler = [h \in Handlers |-> NoHandler]

-----------------------------------------------------------------------------
(* Cases.                                                                  *)

Log(c, code, to) == events' = [events EXCEPT ![c] = Append(@, [code |-> code, to |-> to])]

\* One transition and its lifecycle event, in one transaction.
Transition(c, to, code, row) ==
    /\ case[c].state # "ABSENT"
    /\ to \in AllowedTransitions[case[c].state]
    /\ Len(events[c]) < MaxEvents
    /\ case' = [case EXCEPT ![c] = [row EXCEPT !.state = to]]
    /\ Log(c, code, to)

CreateCase(c) ==
    /\ case[c].state = "ABSENT"
    /\ Len(events[c]) < MaxEvents
    /\ case' = [case EXCEPT ![c].state = "OPEN"]
    /\ Log(c, "CASE_CREATED", "OPEN")
    /\ UNCHANGED <<request, response, link, owner, triage, ledger, handler>>

\* Slip: only the target is constrained.
ChangeFromAnyState(c, to) ==
    /\ to \in AnalystSettable
    /\ Transition(c, to, "STATE_CHANGED_BY_ANALYST", case[c])
    /\ UNCHANGED <<request, response, link, owner, triage, ledger, handler>>

ChangeCaseState(c, to) ==
    /\ to \in AnalystSettable
    /\ case[c].state \in AnalystSettable
    /\ case[c].state # to
    /\ Transition(c, to, "STATE_CHANGED_BY_ANALYST", case[c])
    /\ UNCHANGED <<request, response, link, owner, triage, ledger, handler>>

Reopened(c) == [case[c] EXCEPT !.closureReason = None, !.reopenedCount = @ + 1]

ReopenCase(c) ==
    /\ case[c].state = "CLOSED"
    /\ Transition(c, "OPEN", "REOPENED_MANUALLY", Reopened(c))
    /\ UNCHANGED <<request, response, link, owner, triage, ledger, handler>>

-----------------------------------------------------------------------------
(* Closure under review.                                                   *)

Remediations(c) == {p \in Responses : response[p] = [case |-> c, type |-> "REMEDIATED"]}

\* The latest REMEDIATED response is the one with the latest time of occurrence,
\* which its reporter chooses: any of them may be it.
RequestClosure(c, r, u, reason) ==
    /\ u \in Managers
    /\ case[c].state \in AnalystSettable
    /\ request[r].state = "ABSENT"
    /\ ~ \E q \in Requests : request[q].case = c /\ request[q].state = "PENDING"
    /\ \E p \in (IF reason = "REMEDIATED" THEN Remediations(c) ELSE {None}) :
         request' = [request EXCEPT ![r] = [state |-> "PENDING", case |-> c, reason |-> reason,
                                            by |-> u, reviewer |-> None, support |-> p]]
    /\ Transition(c, "CLOSURE_PENDING", "CLOSURE_REQUESTED_BY_ANALYST", case[c])
    /\ UNCHANGED <<response, link, owner, triage, ledger, handler>>

Pending(r) == request[r].state = "PENDING"

\* Slip: the requester is compared only where the override is held.
ForbiddenWithOverride(r, u) == u = request[r].by /\ u \in SelfApprovers

SelfApproval(r, u) == u = request[r].by /\ u \notin SelfApprovers

Decide(r, u, decision) ==
    request' = [request EXCEPT ![r].state = decision, ![r].reviewer = u]

ApproveClosure(r, u) ==
    LET c == request[r].case IN
    /\ u \in Reviewers
    /\ Pending(r)
    /\ ~SelfApproval(r, u)
    /\ case[c].state = "CLOSURE_PENDING"
    /\ Decide(r, u, "APPROVED")
    /\ Transition(c, "CLOSED", "CLOSURE_APPROVED_BY_REVIEWER",
                  [case[c] EXCEPT !.closureReason = request[r].reason])
    /\ UNCHANGED <<response, link, owner, triage, ledger, handler>>

RejectClosure(r, u) ==
    LET c == request[r].case IN
    /\ u \in Reviewers
    /\ Pending(r)
    /\ case[c].state = "CLOSURE_PENDING"
    /\ Decide(r, u, "REJECTED")
    /\ Transition(c, "OPEN", "CLOSURE_REJECTED_BY_REVIEWER", case[c])
    /\ UNCHANGED <<response, link, owner, triage, ledger, handler>>

-----------------------------------------------------------------------------
(* Organization responses: the case is read first and the row inserted on   *)
(* its own, in no transaction.                                              *)

Recall(h, pc, c, f) ==
    handler' = [handler EXCEPT ![h] = [NoHandler EXCEPT !.pc = pc, !.case = c, !.finding = f]]
Forget(h) == handler' = [handler EXCEPT ![h] = NoHandler]

ReadCaseForResponse(h, c) ==
    /\ handler[h].pc = "idle"
    /\ case[c].state \notin {"ABSENT", "CLOSED"}
    /\ Recall(h, "responding", c, None)
    /\ UNCHANGED <<case, events, request, response, link, owner, triage, ledger>>

RecordOrganizationResponse(h, p, type) ==
    /\ handler[h].pc = "responding"
    /\ response[p].case = None
    /\ response' = [response EXCEPT ![p] = [case |-> handler[h].case, type |-> type]]
    /\ Forget(h)
    /\ UNCHANGED <<case, events, request, link, owner, triage, ledger>>

-----------------------------------------------------------------------------
(* Evidence and triage.                                                    *)

ReadCaseForLink(h, c, f) ==
    /\ handler[h].pc = "idle"
    /\ case[c].state \in AnalystSettable
    /\ Recall(h, "linking", c, f)
    /\ UNCHANGED <<case, events, request, response, link, owner, triage, ledger>>

\* Slip: ownership is not compared with the case's organization.
AnyOwner(c, f) == owner[f] # None

\* Ownership is RESOLVED or OVERRIDDEN, not an ISP's, and names the case's organization.
LinkEligible(c, f) == owner[f] = OrgOf[c]

Escalated(f) == [triage EXCEPT ![f] = "ESCALATED"]

\* Ownership and the current link are read again here; the case is not.
LinkFinding(h) ==
    LET c == handler[h].case
        f == handler[h].finding IN
    /\ handler[h].pc = "linking"
    /\ IF LinkEligible(c, f) /\ link[<<c, f>>] # "LINKED"
       THEN link' = [link EXCEPT ![<<c, f>>] = "LINKED"] /\ triage' = Escalated(f)
       ELSE UNCHANGED <<link, triage>>
    /\ Forget(h)
    /\ UNCHANGED <<case, events, request, response, owner, ledger>>

UnlinkFinding(c, f) ==
    /\ link[<<c, f>>] = "LINKED"
    /\ link' = [link EXCEPT ![<<c, f>>] = "UNLINKED"]
    /\ UNCHANGED <<case, events, request, response, owner, triage, ledger, handler>>

RecordTriageDecision(f, d) ==
    /\ triage' = [triage EXCEPT ![f] = d]
    /\ UNCHANGED <<case, events, request, response, link, owner, ledger, handler>>

\* Resolution and overrides decide ownership without asking the workflow.
OwnershipChanges(f, o) ==
    /\ owner' = [owner EXCEPT ![f] = o]
    /\ UNCHANGED <<case, events, request, response, link, triage, ledger, handler>>

-----------------------------------------------------------------------------
(* The reopening pass of an ingestion: the links are read once, and each    *)
(* pair of occurrence and case is a transaction of its own.                 *)

ListLinks(h, o) ==
    LET linked == {c \in Cases : link[<<c, FindingOf[o]>>] = "LINKED"} IN
    /\ handler[h].pc = "idle"
    /\ linked # {}
    /\ handler' = [handler EXCEPT ![h] =
                     [NoHandler EXCEPT !.pc = "reopening", !.occ = o, !.todo = linked]]
    /\ UNCHANGED <<case, events, request, response, link, owner, triage, ledger>>

Done(h, c) ==
    handler' = [handler EXCEPT ![h] =
        IF handler[h].todo = {c} THEN NoHandler
        ELSE [handler[h] EXCEPT !.todo = @ \ {c}]]

\* Slip: any closed case is reopened.
AnyClosure(c) == case[c].state = "CLOSED"

QualifiesForReopen(c) == case[c].state = "CLOSED" /\ case[c].closureReason = "REMEDIATED"

\* Slip: the ledger is written and not asked first.
ReopenUnprobed(h, c) ==
    LET o == handler[h].occ IN
    /\ handler[h].pc = "reopening"
    /\ c \in handler[h].todo
    /\ QualifiesForReopen(c)
    /\ Transition(c, "OPEN", "REOPENED_BY_RECURRENCE", Reopened(c))
    /\ triage' = Escalated(FindingOf[o])
    /\ ledger' = [ledger EXCEPT ![<<o, c>>] = "REOPENED"]
    /\ Done(h, c)
    /\ UNCHANGED <<request, response, link, owner>>

ReopenByRecurrence(h, c) ==
    LET o == handler[h].occ IN
    /\ handler[h].pc = "reopening"
    /\ c \in handler[h].todo
    /\ ledger[<<o, c>>] = "NONE"
    /\ QualifiesForReopen(c)
    /\ Transition(c, "OPEN", "REOPENED_BY_RECURRENCE", Reopened(c))
    /\ triage' = Escalated(FindingOf[o])
    /\ ledger' = [ledger EXCEPT ![<<o, c>>] = "REOPENED"]
    /\ Done(h, c)
    /\ UNCHANGED <<request, response, link, owner>>

LedgerOutcome(o, c) ==
    IF ledger[<<o, c>>] # "NONE" THEN ledger[<<o, c>>]
    ELSE IF case[c].state # "CLOSED" THEN "SKIPPED_NOT_CLOSED"
    ELSE "SKIPPED_CLOSURE_REASON_NOT_REMEDIATED"

\* A refusal is written to the ledger too; a pair already there is left alone.
DeclineReopen(h, c) ==
    LET o == handler[h].occ IN
    /\ handler[h].pc = "reopening"
    /\ c \in handler[h].todo
    /\ ledger[<<o, c>>] # "NONE" \/ ~QualifiesForReopen(c)
    /\ ledger' = [ledger EXCEPT ![<<o, c>>] = LedgerOutcome(o, c)]
    /\ Done(h, c)
    /\ UNCHANGED <<case, events, request, response, link, owner, triage>>

\* The transaction of a pair fails for good: it is reported and passed over.
PairFails(h, c) ==
    /\ handler[h].pc = "reopening"
    /\ c \in handler[h].todo
    /\ Done(h, c)
    /\ UNCHANGED <<case, events, request, response, link, owner, triage, ledger>>

\* The write of a handler fails for good, or its process dies.
Abandon(h) ==
    /\ handler[h].pc # "idle"
    /\ Forget(h)
    /\ UNCHANGED <<case, events, request, response, link, owner, triage, ledger>>

CaseStep(c) ==
    \/ CreateCase(c)
    \/ ReopenCase(c)
    \/ \E to \in AnalystSettable : ChangeCaseState(c, to)
    \/ \E r \in Requests, u \in Users, reason \in Reasons : RequestClosure(c, r, u, reason)
    \/ \E f \in Findings : UnlinkFinding(c, f)

ReviewStep(r) == \E u \in Users : ApproveClosure(r, u) \/ RejectClosure(r, u)

FindingStep(f) ==
    \/ \E d \in {"IN_REVIEW", "ESCALATED", "DISMISSED"} : RecordTriageDecision(f, d)
    \/ \E o \in Orgs \cup {None} : OwnershipChanges(f, o)

HandlerStep(h) ==
    \/ \E c \in Cases : \/ ReadCaseForResponse(h, c)
                        \/ \E f \in Findings : ReadCaseForLink(h, c, f)
                        \/ ReopenByRecurrence(h, c) \/ DeclineReopen(h, c) \/ PairFails(h, c)
    \/ \E p \in Responses, type \in {"REMEDIATED", "OTHER"} : RecordOrganizationResponse(h, p, type)
    \/ LinkFinding(h)
    \/ \E o \in Occurrences : ListLinks(h, o)
    \/ Abandon(h)

Next ==
    \/ \E c \in Cases : CaseStep(c)
    \/ \E r \in Requests : ReviewStep(r)
    \/ \E f \in Findings : FindingStep(f)
    \/ \E h \in Handlers : HandlerStep(h)

Spec == Init /\ [][Next]_vars
-----------------------------------------------------------------------------
\* Every row keeps to the values its columns allow.
TypeOK ==
    /\ case \in [Cases -> CaseRow]
    /\ events \in [Cases -> Seq(Event)]
    /\ request \in [Requests -> RequestRow]
    /\ response \in [Responses -> ResponseRow]
    /\ link \in [Cases \X Findings -> {"NONE", "LINKED", "UNLINKED"}]
    /\ owner \in [Findings -> Orgs \cup {None}]
    /\ triage \in [Findings -> {"UNTRIAGED", "IN_REVIEW", "ESCALATED", "DISMISSED"}]
    /\ ledger \in [Occurrences \X Cases -> {"NONE", "REOPENED", "SKIPPED_NOT_CLOSED",
                                            "SKIPPED_CLOSURE_REASON_NOT_REMEDIATED"}]
    /\ handler \in [Handlers -> Handler]

Asked(c, states) == {r \in Requests : request[r].case = c /\ request[r].state \in states}

\* A case awaits review exactly while one request of it is undecided: no analyst
\* step, reopening or second decision leaves an orphaned request, or a case that
\* nobody can decide.
PendingIffUnderReview ==
    \A c \in Cases :
        Cardinality(Asked(c, {"PENDING"})) = IF case[c].state = "CLOSURE_PENDING" THEN 1 ELSE 0

\* Separation of duties: an approval is somebody else's than the requester's unless
\* the approver may override, and a closed case gives the reason of an approved
\* request; one closed as remediated rests on a REMEDIATED response of its own.
ClosureWasReviewed ==
    /\ \A r \in Requests : request[r].state = "APPROVED" =>
         /\ request[r].reviewer \in Reviewers
         /\ request[r].reviewer # request[r].by \/ request[r].reviewer \in SelfApprovers
         /\ request[r].reason = "REMEDIATED" =>
              /\ request[r].support \in Responses
              /\ response[request[r].support] = [case |-> request[r].case, type |-> "REMEDIATED"]
    /\ \A c \in Cases :
         IF case[c].state = "CLOSED"
         THEN \E r \in Asked(c, {"APPROVED"}) : request[r].reason = case[c].closureReason
         ELSE case[c].closureReason = None

Count(c, codes) == Cardinality({i \in DOMAIN events[c] : events[c][i].code \in codes})

\* The timeline accounts for everything else that is stored: its last entry is the
\* state of the case, its requests and decisions are the request rows, its
\* reopenings are the counter, and a recurrence reopens a case once.
TimelineAccounts ==
    \A c \in Cases :
        /\ events[c] # <<>> => events[c][Len(events[c])].to = case[c].state
        /\ Count(c, {"CLOSURE_REQUESTED_BY_ANALYST"}) = Cardinality(Asked(c, {"PENDING"} \cup Decided))
        /\ Count(c, {"CLOSURE_APPROVED_BY_REVIEWER"}) = Cardinality(Asked(c, {"APPROVED"}))
        /\ Count(c, {"CLOSURE_REJECTED_BY_REVIEWER"}) = Cardinality(Asked(c, {"REJECTED"}))
        /\ Count(c, {"REOPENED_MANUALLY", "REOPENED_BY_RECURRENCE"}) = case[c].reopenedCount
        /\ Count(c, {"REOPENED_BY_RECURRENCE"})
             = Cardinality({o \in Occurrences : ledger[<<o, c>>] = "REOPENED"})

\* A decision, a response and a ledger row are evidence: none is ever rewritten.
EvidenceIsPermanent ==
    [][ /\ \A r \in Requests : request[r].state \in Decided => request'[r] = request[r]
        /\ \A p \in Responses : response[p].case # None => response'[p] = response[p]
        /\ \A k \in Occurrences \X Cases : ledger[k] # "NONE" => ledger'[k] = ledger[k] ]_vars

\* A finding becomes evidence only of a case of the organization that owns it at
\* that moment, and is escalated by the same step; so is one that reopens a case.
LinksMatchOwnership ==
    [][ /\ \A c \in Cases, f \in Findings :
             link[<<c, f>>] # "LINKED" /\ link'[<<c, f>>] = "LINKED" => owner[f] = OrgOf[c]
        /\ \A c \in Cases, f \in Findings :
             link[<<c, f>>] # "LINKED" /\ link'[<<c, f>>] = "LINKED" => triage'[f] = "ESCALATED"
        /\ \A o \in Occurrences, c \in Cases :
             ledger[<<o, c>>] # ledger'[<<o, c>>] /\ ledger'[<<o, c>>] = "REOPENED"
                 => triage'[FindingOf[o]] = "ESCALATED" ]_vars

\* A closure that was not for remediation is a human decision: it ends only by a
\* human one, whatever recurs.
HumanClosureStands ==
    [][ \A c \in Cases :
          case[c].state = "CLOSED" /\ case[c].closureReason # "REMEDIATED" /\ case'[c] # case[c]
              => events'[c][Len(events'[c])].code = "REOPENED_MANUALLY" ]_vars

\* Evidence does not change under a reviewer, nor in a concluded case: a finding is
\* linked only while its case is open.
EvidenceIsFrozenUnderReview ==
    [][ \A c \in Cases, f \in Findings :
          link[<<c, f>>] # "LINKED" /\ link'[<<c, f>>] = "LINKED"
              => case[c].state \in AnalystSettable ]_vars
=============================================================================
