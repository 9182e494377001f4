------------------------- MODULE NotificationReview -------------------------
(***************************************************************************)
(* The drafting, review, export and delivery record of one constituent     *)
(* notification.  No operation reads another notification's rows.          *)
(*                                                                         *)
(* Every decision is a SERIALIZABLE transaction that reads the             *)
(* notification and its current revision again, and so one action.  What   *)
(* a request read before its transaction and still uses in it is in the    *)
(* memory of its handler: the merged content of an edit, and the state and *)
(* the export of a delivery record.  A reviewer decides on what the page   *)
(* showed, which the request does not name.                                *)
(***************************************************************************)
EXTENDS Integers, Sequences, FiniteSets

CONSTANTS
    Users,
    Handlers,      \* concurrent requests
    Texts,         \* stands for the five fields that are not the address
    Addresses,     \* valid recipientEmail values
    None,
    Managers,      \* users who at some time hold manage:, export: and
                   \* record:notification-delivery, which the same roles hold
    Reviewers,     \* users who at some time hold review:notifications
    SelfApprovers, \* users with override:notification-self-approval
    MaxRevisions, MaxExports, MaxDeliveries \* bounds on the rows of each kind

VARIABLES
    state,         \* Notification.lifecycleState
    approval,      \* Notification.approvedRevisionId and approvedByUserId
    revisions,     \* NotificationRevision, by revisionNumber; the last is current
    events,        \* NotificationLifecycleEvent
    exports,       \* NotificationExport
    deliveries,    \* NotificationDeliveryEvent
    handler        \* what a request has read and will still use

vars == <<state, approval, revisions, events, exports, deliveries, handler>>

ParamsAssumption ==
    /\ None \notin Users \cup Addresses
    /\ Managers \cup Reviewers \subseteq Users
    /\ MaxRevisions \in Nat /\ MaxExports \in Nat /\ MaxDeliveries \in Nat
ASSUME Params == ParamsAssumption

Fields == {"text", "recipient"}
Content == [text: Texts, recipient: Addresses \cup {None}]
NoApproval == [revision |-> 0, by |-> None]
NoHandler == [pc |-> "idle", by |-> None, sent |-> {}, content |-> None,
              revision |-> 0, state |-> "ABSENT", export |-> 0]

Latest == Len(revisions)
Current == revisions[Latest]

Init ==
    /\ state = "ABSENT"
    /\ approval = NoApproval
    /\ revisions = <<>>
    /\ events = <<>>
    /\ exports = <<>>
    /\ deliveries = <<>>
    /\ handler = [h \in Handlers |-> NoHandler]

-----------------------------------------------------------------------------
(* Transitions and their events.                                           *)

Record(type, from, to, revision, actor) ==
    events' = Append(events, [type |-> type, from |-> from, to |-> to,
                              revision |-> revision, actor |-> actor])

\* Slip: a transition to the same state is not recorded.
RecordedIfMoved(to, approved, type, revision, actor) ==
    /\ state' = to
    /\ approval' = approved
    /\ IF to = state THEN events' = events ELSE Record(type, state, to, revision, actor)

\* The state and the approval change in one statement, the event in the same transaction.
Transition(to, approved, type, revision, actor) ==
    /\ state' = to
    /\ approval' = approved
    /\ Record(type, state, to, revision, actor)

Remember(h, memory) ==
    /\ handler[h].pc = "idle"
    /\ handler' = [handler EXCEPT ![h] = memory]
    /\ UNCHANGED <<state, approval, revisions, events, exports, deliveries>>

Forget(h) == handler' = [handler EXCEPT ![h] = NoHandler]

-----------------------------------------------------------------------------
(* Drafting.                                                               *)

\* The organization of the case may have no usable address.
CreateDraftFromCase(u, content) ==
    /\ u \in Managers
    /\ state = "ABSENT"
    /\ revisions' = <<[content |-> content, by |-> u]>>
    /\ Transition("DRAFT", approval, "DRAFT_CREATED", 1, u)
    /\ UNCHANGED <<exports, deliveries, handler>>

\* Slip: a notification can be edited while it is reviewed.
EditableUnderReview == {"DRAFT", "PENDING_REVIEW", "APPROVED", "REJECTED"}

EditableStates == {"DRAFT", "APPROVED", "REJECTED"}

\* A field that was not sent keeps its value.
Merged(content, sent, patch) ==
    [text |-> IF "text" \in sent THEN patch.text ELSE content.text,
     recipient |-> IF "recipient" \in sent THEN patch.recipient ELSE content.recipient]

\* The patch is merged and compared before the transaction; an edit that changes
\* nothing ends here.
BeginEdit(h, u, sent, patch) ==
    /\ u \in Managers
    /\ state \in EditableStates
    /\ Merged(Current.content, sent, patch) # Current.content
    /\ Remember(h, [NoHandler EXCEPT !.pc = "editing", !.by = u, !.sent = sent,
                                     !.content = Merged(Current.content, sent, patch)])

NewRevision(h, approved) ==
    /\ handler[h].pc = "editing"
    /\ Latest < MaxRevisions
    /\ revisions' = Append(revisions, [content |-> handler[h].content, by |-> handler[h].by])
    /\ Transition("DRAFT", approved, "REVISION_CREATED", Latest + 1, handler[h].by)
    /\ Forget(h)
    /\ UNCHANGED <<exports, deliveries>>

\* Slip: the approval outlives the revision it was given to.
WriteEditKeepsApproval(h) == state \in EditableStates /\ NewRevision(h, approval)

WriteEdit(h) == state \in EditableStates /\ NewRevision(h, NoApproval)

SubmitForReview(u) ==
    /\ u \in Managers
    /\ state = "DRAFT"
    /\ Transition("PENDING_REVIEW", approval, "SUBMITTED_FOR_REVIEW", Latest, u)
    /\ UNCHANGED <<revisions, exports, deliveries, handler>>

-----------------------------------------------------------------------------
(* Review.                                                                 *)

\* The reviewer reads the current revision; the request that follows does not name it.
OpenForReview(h, u) ==
    /\ u \in Reviewers
    /\ state = "PENDING_REVIEW"
    /\ Remember(h, [NoHandler EXCEPT !.pc = "reviewing", !.by = u, !.revision = Latest])

\* The code takes the latest submission of the revision; DecidedOnce shows there is no other.
SubmittersOf(r) ==
    {events[i].actor : i \in {j \in DOMAIN events :
        events[j].type = "SUBMITTED_FOR_REVIEW" /\ events[j].revision = r}}

\* Slip: whoever submitted the revision may approve it, unless they wrote it too.
AuthorOnly(u) == u = Current.by /\ u \notin SelfApprovers

SelfApproval(u) == u \in {Current.by} \cup SubmittersOf(Latest) /\ u \notin SelfApprovers

Approve(h) ==
    /\ handler[h].pc = "reviewing"
    /\ state = "PENDING_REVIEW"
    /\ ~SelfApproval(handler[h].by)
    /\ Transition("APPROVED", [revision |-> Latest, by |-> handler[h].by],
                  "APPROVED", Latest, handler[h].by)
    /\ Forget(h)
    /\ UNCHANGED <<revisions, exports, deliveries>>

Reject(h) ==
    /\ handler[h].pc = "reviewing"
    /\ state = "PENDING_REVIEW"
    /\ Transition("REJECTED", NoApproval, "REJECTED", Latest, handler[h].by)
    /\ Forget(h)
    /\ UNCHANGED <<revisions, exports, deliveries>>

-----------------------------------------------------------------------------
(* Export and delivery.                                                    *)

\* The checksum is that of the revision's own content and always matches.
ExportEligible ==
    /\ state = "APPROVED"
    /\ approval.revision = Latest
    /\ approval.by # None
    /\ Current.content.recipient # None

ExportNotification(u) ==
    /\ u \in Managers
    /\ state # "ABSENT"
    /\ ExportEligible
    /\ Len(exports) < MaxExports
    /\ exports' = Append(exports, [revision |-> Latest, by |-> u])
    /\ Record("EXPORTED", state, state, Latest, u)
    /\ UNCHANGED <<state, approval, revisions, deliveries, handler>>

\* The caller names an export of this notification, or gets the newest.
BeginDelivery(h, u, x) ==
    /\ u \in Managers
    /\ x \in DOMAIN exports
    /\ Remember(h, [NoHandler EXCEPT !.pc = "recording", !.by = u, !.export = x, !.state = state])

RecordDeliveryEvent(h) ==
    LET x == handler[h].export
        r == exports[x].revision IN
    /\ handler[h].pc = "recording"
    /\ Len(deliveries) < MaxDeliveries
    /\ deliveries' = Append(deliveries, [export |-> x, revision |-> r])
    /\ Record("DELIVERY_RECORDED", handler[h].state, handler[h].state, r, handler[h].by)
    /\ Forget(h)
    /\ UNCHANGED <<state, approval, revisions, exports>>

\* A request is refused, fails, or its process dies.
Abandon(h) ==
    /\ handler[h].pc # "idle"
    /\ Forget(h)
    /\ UNCHANGED <<state, approval, revisions, events, exports, deliveries>>

UserStep(u) ==
    \/ \E content \in Content : CreateDraftFromCase(u, content)
    \/ SubmitForReview(u)
    \/ ExportNotification(u)

HandlerStep(h) ==
    \/ \E u \in Users :
         \/ \E sent \in SUBSET Fields, patch \in Content : BeginEdit(h, u, sent, patch)
         \/ OpenForReview(h, u)
         \/ \E x \in 1 .. MaxExports : BeginDelivery(h, u, x)
    \/ WriteEdit(h)
    \/ Approve(h) \/ Reject(h)
    \/ RecordDeliveryEvent(h)
    \/ Abandon(h)

Next == (\E u \in Users : UserStep(u)) \/ (\E h \in Handlers : HandlerStep(h))

Spec == Init /\ [][Next]_vars
-----------------------------------------------------------------------------
States == {"ABSENT", "DRAFT", "PENDING_REVIEW", "APPROVED", "REJECTED"}
Decisions == {"APPROVED", "REJECTED"}
Acts == {"EXPORTED", "DELIVERY_RECORDED"}
Event == [type: {"DRAFT_CREATED", "REVISION_CREATED", "SUBMITTED_FOR_REVIEW"} \cup Decisions \cup Acts,
          from: States, to: States \ {"ABSENT"}, revision: Nat \ {0}, actor: Users]
Handler == [pc: {"idle", "editing", "reviewing", "recording"}, by: Users \cup {None},
            sent: SUBSET Fields, content: Content \cup {None}, revision: Nat,
            state: States, export: Nat]

\* Rows are well formed, and refer to rows that exist.
TypeOK ==
    /\ state \in States
    /\ approval \in [revision: Nat, by: Users \cup {None}]
    /\ revisions \in Seq([content: Content, by: Users])
    /\ state = "ABSENT" <=> revisions = <<>>
    /\ events \in Seq(Event)
    /\ \A i \in DOMAIN events : events[i].revision \in DOMAIN revisions
    /\ exports \in Seq([revision: Nat \ {0}, by: Users])
    /\ \A x \in DOMAIN exports : exports[x].revision \in DOMAIN revisions
    /\ deliveries \in Seq([export: Nat \ {0}, revision: Nat \ {0}])
    /\ \A d \in DOMAIN deliveries : /\ deliveries[d].export \in DOMAIN exports
                                    /\ deliveries[d].revision = exports[deliveries[d].export].revision
    /\ handler \in [Handlers -> Handler]

\* The stored approval is that of the current revision, given by the person the
\* timeline names, and there is one exactly while the notification is approved: no
\* edit, rejection or resubmission leaves one behind.
ApprovalIsCurrent ==
    IF state = "APPROVED"
    THEN /\ approval.revision = Latest
         /\ \E i \in DOMAIN events : /\ events[i].type = "APPROVED" /\ events[i].revision = Latest
                                     /\ events[i].actor = approval.by
    ELSE approval = NoApproval

\* What left the system was approved, in that very revision and before it left, by a
\* reviewer who neither wrote nor submitted it, or who may override; and it was
\* addressed to somebody.
ExportsWereApproved ==
    \A e \in DOMAIN events : events[e].type = "EXPORTED" =>
        LET r == events[e].revision IN
        /\ revisions[r].content.recipient # None
        /\ \E i \in 1 .. (e - 1) :
             /\ events[i].type = "APPROVED" /\ events[i].revision = r
             /\ events[i].actor \in Reviewers
             /\ \/ events[i].actor \in SelfApprovers
                \/ events[i].actor \notin {revisions[r].by} \cup SubmittersOf(r)

Indices(types, r) == {i \in DOMAIN events : events[i].type \in types /\ events[i].revision = r}

\* A revision is submitted at most once and decided at most once, in that order: what
\* was rejected does not come back as it was, and a decision is not taken twice.
DecidedOnce ==
    \A r \in DOMAIN revisions :
        /\ \A i, j \in Indices({"SUBMITTED_FOR_REVIEW"}, r) : i = j
        /\ \A i, j \in Indices(Decisions, r) : i = j
        /\ \A i \in Indices(Decisions, r) : \E j \in Indices({"SUBMITTED_FOR_REVIEW"}, r) : j < i

Moves == {i \in DOMAIN events : events[i].type \notin Acts}

\* The timeline explains the notification: its transitions form a chain that ends in the
\* present state, and there is one event for each revision, export and delivery.
TimelineExplains ==
    /\ \A i, j \in Moves :
         i < j /\ (\A k \in Moves : k <= i \/ j <= k) => events[j].from = events[i].to
    /\ Moves = {} <=> state = "ABSENT"
    /\ \A i \in Moves : (\A k \in Moves : k <= i) => state = events[i].to
    /\ \A r \in DOMAIN revisions :
         Cardinality(Indices({"DRAFT_CREATED", "REVISION_CREATED"}, r)) = 1
    /\ \A r \in DOMAIN revisions :
         /\ Cardinality(Indices({"EXPORTED"}, r))
              = Cardinality({x \in DOMAIN exports : exports[x].revision = r})
         /\ Cardinality(Indices({"DELIVERY_RECORDED"}, r))
              = Cardinality({d \in DOMAIN deliveries : deliveries[d].revision = r})

\* Content does not change under a reviewer: until a decision there is no new revision.
ReviewedContentIsFixed ==
    [][ state = "PENDING_REVIEW" => revisions' = revisions ]_vars

\* No edit slips under a decision: a reviewer approves the revision they read, unless
\* somebody has decided on that one in the meantime.
ApprovedAsRead ==
    [][ \A h \in Handlers :
          /\ handler[h].pc = "reviewing" /\ handler'[h].pc = "idle"
          /\ state = "PENDING_REVIEW" /\ state' = "APPROVED"
          => \/ handler[h].revision = approval'.revision
             \/ Indices(Decisions, handler[h].revision) # {} ]_vars

\* An edit changes what was sent and nothing else.
EditsKeepTheRest ==
    [][ \A h \in Handlers :
          handler[h].pc = "editing" /\ handler'[h].pc = "idle" /\ Len(revisions') = Latest + 1
              => \A f \in Fields \ handler[h].sent :
                   revisions'[Latest + 1].content[f] = Current.content[f] ]_vars
=============================================================================
