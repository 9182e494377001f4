---------------------- MODULE NotificationAndRiskProofs ----------------------
(***************************************************************************)
(* Theorems about two components that share nothing but this module.       *)
(*                                                                         *)
(* Those about NotificationReview hold for every number of users,          *)
(* concurrent requests and rows, and for all content.                      *)
(*                                                                         *)
(* Those about RiskSnapshots, from "The risk score" on, hold for any       *)
(* evidence, any instants and any number of requests.  Its inductive       *)
(* invariant says that either a request still owes a rescore, or one was   *)
(* lost, or the stored contributions are those of the evidence; and that   *)
(* what a score has counted is still there to be counted, which bounds     *)
(* from below what a later calculation can find.                           *)
(***************************************************************************)
EXTENDS NotificationReview, RiskSnapshots, FiniteSetTheorems, WellFoundedInduction, TLAPS

-----------------------------------------------------------------------------
(* The inductive invariant.                                                *)

\* What a request remembers is fit for the write that it will make.
Remembers(h) ==
    /\ handler[h].pc = "editing" => handler[h].by \in Users /\ handler[h].content \in Content
    /\ handler[h].pc = "reviewing" => handler[h].by \in Reviewers
    /\ handler[h].pc = "recording" => /\ handler[h].by \in Users /\ handler[h].state # "ABSENT"
                                      /\ handler[h].export \in DOMAIN exports

RequestsRemember == \A h \in Handlers : Remembers(h)

\* The events about the current revision are those of its state.
LatestStage ==
    \A i \in DOMAIN events : events[i].revision = Latest =>
        /\ state = "DRAFT" => events[i].type \notin {"SUBMITTED_FOR_REVIEW"} \cup Decisions
        /\ state = "PENDING_REVIEW" => events[i].type \notin Decisions

PendingWasSubmitted ==
    state = "PENDING_REVIEW" =>
        \E i \in DOMAIN events : events[i].type = "SUBMITTED_FOR_REVIEW" /\ events[i].revision = Latest

\* An approver was entitled, and nobody submits a revision after its approval.
ApproversAreEntitled ==
    \A i \in DOMAIN events : events[i].type = "APPROVED" =>
        /\ events[i].actor \in Reviewers
        /\ events[i].actor \notin SelfApprovers =>
             /\ events[i].actor # revisions[events[i].revision].by
             /\ \A j \in DOMAIN events :
                  /\ events[j].type = "SUBMITTED_FOR_REVIEW"
                  /\ events[j].revision = events[i].revision
                  => events[j].actor # events[i].actor

ExportsFollowApprovals ==
    \A e \in DOMAIN events : events[e].type = "EXPORTED" =>
        /\ revisions[events[e].revision].content.recipient # None
        /\ \E i \in 1 .. (e - 1) : /\ events[i].type = "APPROVED"
                                   /\ events[i].revision = events[e].revision

\* A revision under a reviewer's eyes is the current one and undecided, or was decided.
ReadOrDecided ==
    \A h \in Handlers : handler[h].pc = "reviewing" =>
        \/ handler[h].revision = Latest /\ state = "PENDING_REVIEW"
        \/ \E i \in DOMAIN events : /\ events[i].type \in Decisions
                                    /\ events[i].revision = handler[h].revision

IInv ==
    /\ TypeOK
    /\ RequestsRemember
    /\ ApprovalIsCurrent
    /\ LatestStage /\ PendingWasSubmitted
    /\ ApproversAreEntitled
    /\ ExportsFollowApprovals
    /\ DecidedOnce
    /\ ReadOrDecided

-----------------------------------------------------------------------------
(* Events are only ever appended.                                          *)

LEMMA Logged ==
    ASSUME events \in Seq(Event), NEW e \in Event, events' = Append(events, e)
    PROVE  /\ events' \in Seq(Event)
           /\ Len(events) \in Nat
           /\ DOMAIN events = 1 .. Len(events)
           /\ DOMAIN events' = 1 .. (Len(events) + 1)
           /\ \A i \in DOMAIN events : events'[i] = events[i]
           /\ events'[Len(events) + 1] = e
  OBVIOUS

LEMMA InitHolds == Init => IInv
<1> SUFFICES ASSUME Init
             PROVE  IInv
  OBVIOUS
<1>1. NoApproval \in [revision: Nat, by: Users \cup {None}]
  BY DEF NoApproval
<1>2. NoHandler \in Handler
  BY DEF NoHandler, Handler, States
<1>3. TypeOK
  BY <1>1, <1>2 DEF Init, TypeOK, States
<1>4. RequestsRemember /\ ReadOrDecided
  BY DEF Init, RequestsRemember, Remembers, ReadOrDecided, NoHandler
<1>5. QED
  BY <1>3, <1>4 DEF Init, IInv, ApprovalIsCurrent, LatestStage, PendingWasSubmitted,
     ApproversAreEntitled, ExportsFollowApprovals, DecidedOnce

-----------------------------------------------------------------------------
(* Steps that touch only the memory of a request.                          *)

LEMMA ForgetsOnly ==
    ASSUME handler \in [Handlers -> Handler], NEW h \in Handlers, Forget(h)
    PROVE  /\ handler' \in [Handlers -> Handler]
           /\ \A g \in Handlers : handler'[g] = handler[g] \/ handler'[g].pc = "idle"
<1>1. NoHandler \in Handler /\ NoHandler.pc = "idle"
  BY DEF NoHandler, Handler, States
<1>2. QED
  BY <1>1 DEF Forget

\* What a request remembers stays fit while exports are only added to.
LEMMA StillRemembered ==
    ASSUME RequestsRemember,
           \A g \in Handlers : handler'[g] = handler[g] \/ handler'[g].pc = "idle",
           DOMAIN exports \subseteq DOMAIN exports'
    PROVE  RequestsRemember'
<1> SUFFICES ASSUME NEW g \in Handlers
             PROVE  Remembers(g)'
  BY DEF RequestsRemember
<1>1. CASE handler'[g].pc = "idle"
  BY <1>1 DEF Remembers
<1>2. CASE handler'[g] = handler[g]
  BY <1>2 DEF RequestsRemember, Remembers
<1>3. QED
  BY <1>1, <1>2

LEMMA MemoryStep ==
    ASSUME IInv,
           UNCHANGED <<state, approval, revisions, events, exports, deliveries>>,
           handler' \in [Handlers -> Handler],
           RequestsRemember',
           ReadOrDecided'
    PROVE  IInv'
<1>1. TypeOK' /\ ApprovalIsCurrent' /\ LatestStage' /\ PendingWasSubmitted'
  BY DEF IInv, TypeOK, ApprovalIsCurrent, Latest, LatestStage, PendingWasSubmitted
<1>2. ApproversAreEntitled' /\ ExportsFollowApprovals'
  BY DEF IInv, ApproversAreEntitled, ExportsFollowApprovals
<1>3. DecidedOnce'
  BY DEF IInv, DecidedOnce, Indices
<1>4. QED
  BY <1>1, <1>2, <1>3 DEF IInv

LEMMA AbandonHolds ==
    ASSUME IInv, NEW h \in Handlers, Abandon(h)
    PROVE  IInv'
<1>1. handler \in [Handlers -> Handler]
  BY DEF IInv, TypeOK
<1>2. /\ handler' \in [Handlers -> Handler]
      /\ \A g \in Handlers : handler'[g] = handler[g] \/ handler'[g].pc = "idle"
  BY <1>1, ForgetsOnly DEF Abandon
<1>3. RequestsRemember'
  BY <1>2, StillRemembered DEF IInv, Abandon
<1>4. ReadOrDecided'
  BY <1>2 DEF IInv, ReadOrDecided, Abandon, Latest
<1>5. QED
  BY <1>2, <1>3, <1>4, MemoryStep DEF Abandon

LEMMA RememberHolds ==
    ASSUME IInv, NEW h \in Handlers, NEW m \in Handler, Remember(h, m),
           m.pc = "editing" => m.by \in Users /\ m.content \in Content,
           m.pc = "reviewing" =>
               m.by \in Reviewers /\ m.revision = Latest /\ state = "PENDING_REVIEW",
           m.pc = "recording" =>
               m.by \in Users /\ m.state # "ABSENT" /\ m.export \in DOMAIN exports
    PROVE  IInv'
<1>1. handler' \in [Handlers -> Handler]
  BY DEF Remember, IInv, TypeOK
<1>2. handler'[h] = m /\ \A g \in Handlers \ {h} : handler'[g] = handler[g]
  BY DEF Remember, IInv, TypeOK
<1>3. RequestsRemember'
  <2> SUFFICES ASSUME NEW g \in Handlers
               PROVE  Remembers(g)'
    BY DEF RequestsRemember
  <2>1. CASE g = h
    BY <2>1, <1>2 DEF Remembers, Remember
  <2>2. CASE g # h
    BY <2>2, <1>2 DEF IInv, RequestsRemember, Remembers, Remember
  <2>3. QED
    BY <2>1, <2>2
<1>4. ReadOrDecided'
  BY <1>2 DEF IInv, ReadOrDecided, Remember, Latest
<1>5. QED
  BY <1>1, <1>3, <1>4, MemoryStep DEF Remember

LEMMA CurrentIsTyped ==
    ASSUME TypeOK, state # "ABSENT"
    PROVE  /\ Latest \in DOMAIN revisions
           /\ Latest \in Nat \ {0}
           /\ Current \in [content: Content, by: Users]
<1> DEFINE R == [content: Content, by: Users]
<1>1. revisions \in Seq(R) /\ revisions # <<>>
  BY DEF TypeOK
<1> HIDE DEF R
<1>2. Len(revisions) \in Nat \ {0}
  BY <1>1
<1>3. Len(revisions) \in DOMAIN revisions
  BY <1>1, <1>2
<1>4. revisions[Len(revisions)] \in R
  BY <1>1, <1>3
<1>5. QED
  BY <1>2, <1>3, <1>4 DEF Latest, Current, R

LEMMA BeginEditHolds ==
    ASSUME IInv, Params, NEW h \in Handlers, NEW u \in Users,
           NEW sent \in SUBSET Fields, NEW patch \in Content, BeginEdit(h, u, sent, patch)
    PROVE  IInv'
<1> DEFINE merged == Merged(Current.content, sent, patch)
           m == [NoHandler EXCEPT !.pc = "editing", !.by = u, !.sent = sent, !.content = merged]
<1>1. Current.content \in Content
  BY CurrentIsTyped DEF IInv, BeginEdit, EditableStates
<1>2. merged \in Content
  BY <1>1 DEF Merged, Content
<1> HIDE DEF merged
<1>3. m \in Handler /\ m.pc = "editing" /\ m.by = u /\ m.content = merged
  BY <1>2 DEF NoHandler, Handler, States
<1>4. Remember(h, m)
  BY DEF BeginEdit, merged
<1> HIDE DEF m
<1>5. QED
  BY <1>2, <1>3, <1>4, RememberHolds

LEMMA OpenForReviewHolds ==
    ASSUME IInv, NEW h \in Handlers, NEW u \in Users, OpenForReview(h, u)
    PROVE  IInv'
<1> DEFINE m == [NoHandler EXCEPT !.pc = "reviewing", !.by = u, !.revision = Latest]
<1>1. Latest \in Nat
  BY CurrentIsTyped DEF IInv, OpenForReview
<1>2. m \in Handler /\ m.pc = "reviewing" /\ m.by = u /\ m.revision = Latest
  BY <1>1 DEF NoHandler, Handler, States
<1>3. Remember(h, m) /\ u \in Reviewers /\ state = "PENDING_REVIEW"
  BY DEF OpenForReview
<1> HIDE DEF m
<1>4. QED
  BY <1>2, <1>3, RememberHolds

LEMMA BeginDeliveryHolds ==
    ASSUME IInv, NEW h \in Handlers, NEW u \in Users, NEW x \in 1 .. MaxExports,
           BeginDelivery(h, u, x)
    PROVE  IInv'
<1> DEFINE m == [NoHandler EXCEPT !.pc = "recording", !.by = u, !.export = x, !.state = state]
<1>1. state \in States /\ x \in Nat /\ x \in DOMAIN exports
  BY DEF IInv, TypeOK, BeginDelivery
<1>2. m \in Handler /\ m.pc = "recording" /\ m.by = u /\ m.export = x /\ m.state = state
  BY <1>1 DEF NoHandler, Handler, States
<1>3. state # "ABSENT"
  BY <1>1 DEF IInv, TypeOK
<1>4. Remember(h, m)
  BY DEF BeginDelivery
<1> HIDE DEF m
<1>5. QED
  BY <1>1, <1>2, <1>3, <1>4, RememberHolds

-----------------------------------------------------------------------------
(* Steps that add an event.                                                *)

EventTypes == {"DRAFT_CREATED", "REVISION_CREATED", "SUBMITTED_FOR_REVIEW"} \cup Decisions \cup Acts

\* The event about revision r by that actor is the last one, and the only new one.
NewEvent(type, r, actor) ==
    /\ events' \in Seq(Event)
    /\ Len(events) \in Nat
    /\ DOMAIN events = 1 .. Len(events)
    /\ DOMAIN events' = 1 .. (Len(events) + 1)
    /\ \A i \in DOMAIN events : events'[i] = events[i]
    /\ events'[Len(events) + 1].type = type
    /\ events'[Len(events) + 1].revision = r
    /\ events'[Len(events) + 1].actor = actor

LEMMA Recorded ==
    ASSUME events \in Seq(Event), NEW type \in EventTypes, NEW from \in States,
           NEW to \in States \ {"ABSENT"}, NEW r \in Nat \ {0}, NEW actor \in Users,
           Record(type, from, to, r, actor)
    PROVE  NewEvent(type, r, actor)
<1> DEFINE e == [type |-> type, from |-> from, to |-> to, revision |-> r, actor |-> actor]
<1>1. e \in Event /\ e.type = type /\ e.revision = r /\ e.actor = actor
  BY DEF Event, EventTypes
<1>2. events' = Append(events, e)
  BY DEF Record
<1> HIDE DEF e
<1>3. QED
  BY <1>1, <1>2, Logged DEF NewEvent

\* Events stay typed when the new one is about a revision that exists.
LEMMA EventsTyped ==
    ASSUME TypeOK, NEW type, NEW r \in DOMAIN revisions', NEW actor, NewEvent(type, r, actor),
           DOMAIN revisions \subseteq DOMAIN revisions'
    PROVE  /\ events' \in Seq(Event)
           /\ \A i \in DOMAIN events' : events'[i].revision \in DOMAIN revisions'
<1>1. events' \in Seq(Event)
  BY DEF NewEvent
<1>2. \A i \in DOMAIN events : events'[i].revision \in DOMAIN revisions'
  BY DEF TypeOK, NewEvent
<1>3. DOMAIN events' = DOMAIN events \cup {Len(events) + 1}
  BY DEF NewEvent
<1>4. events'[Len(events) + 1].revision \in DOMAIN revisions'
  BY DEF NewEvent
<1>5. QED
  BY <1>1, <1>2, <1>3, <1>4

\* A second event about a revision may be a first submission or a first decision.
LEMMA StillDecidedOnce ==
    ASSUME DecidedOnce, NEW type, NEW r \in DOMAIN revisions', NEW actor, NewEvent(type, r, actor),
           DOMAIN revisions \subseteq DOMAIN revisions',
           \A i \in DOMAIN events : events[i].revision \in DOMAIN revisions,
           type = "SUBMITTED_FOR_REVIEW" =>
               \A i \in DOMAIN events : events[i].revision = r =>
                   events[i].type \notin {"SUBMITTED_FOR_REVIEW"} \cup Decisions,
           type \in Decisions =>
               /\ \A i \in DOMAIN events : events[i].revision = r => events[i].type \notin Decisions
               /\ \E i \in DOMAIN events : /\ events[i].type = "SUBMITTED_FOR_REVIEW"
                                           /\ events[i].revision = r
    PROVE  DecidedOnce'
<1> SUFFICES ASSUME NEW q \in DOMAIN revisions'
             PROVE  /\ \A i, j \in Indices({"SUBMITTED_FOR_REVIEW"}, q)' : i = j
                    /\ \A i, j \in Indices(Decisions, q)' : i = j
                    /\ \A i \in Indices(Decisions, q)' :
                         \E j \in Indices({"SUBMITTED_FOR_REVIEW"}, q)' : j < i
  BY DEF DecidedOnce, Decisions
<1> DEFINE last == Len(events) + 1
<1>1. /\ DOMAIN events' = DOMAIN events \cup {last}
      /\ \A i \in DOMAIN events : i < last /\ events'[i] = events[i]
      /\ events'[last].type = type /\ events'[last].revision = r
  BY DEF NewEvent
<1>2. ASSUME NEW T
      PROVE  Indices(T, q)' = Indices(T, q) \cup (IF type \in T /\ r = q THEN {last} ELSE {})
  BY <1>1 DEF Indices
<1>3. ASSUME q \notin DOMAIN revisions, NEW T
      PROVE  Indices(T, q) = {}
  BY <1>3 DEF Indices
<1> DEFINE S == Indices({"SUBMITTED_FOR_REVIEW"}, q)
           D == Indices(Decisions, q)
<1>4. S \subseteq DOMAIN events /\ D \subseteq DOMAIN events
  BY DEF Indices
<1>5. /\ \A i, j \in S : i = j
      /\ \A i, j \in D : i = j
      /\ \A i \in D : \E j \in S : j < i
  BY <1>3 DEF DecidedOnce
<1>6. /\ type = "SUBMITTED_FOR_REVIEW" /\ r = q => S = {} /\ D = {}
      /\ type \in Decisions /\ r = q => D = {} /\ S # {}
  BY DEF Indices
<1>7. "SUBMITTED_FOR_REVIEW" \notin Decisions
  BY DEF Decisions
<1>8. /\ Indices({"SUBMITTED_FOR_REVIEW"}, q)'
           = S \cup (IF type \in {"SUBMITTED_FOR_REVIEW"} /\ r = q THEN {last} ELSE {})
      /\ Indices(Decisions, q)' = D \cup (IF type \in Decisions /\ r = q THEN {last} ELSE {})
  BY <1>2 DEF Decisions
<1> HIDE DEF S, D, last
<1>9. CASE type = "SUBMITTED_FOR_REVIEW" /\ r = q
  BY <1>5, <1>6, <1>7, <1>8, <1>9
<1>10. CASE type \in Decisions /\ r = q
  BY <1>1, <1>4, <1>5, <1>6, <1>7, <1>8, <1>10
<1>11. CASE ~(type = "SUBMITTED_FOR_REVIEW" /\ r = q) /\ ~(type \in Decisions /\ r = q)
  BY <1>5, <1>8, <1>11
<1>12. QED
  BY <1>9, <1>10, <1>11

LEMMA SubmitHolds ==
    ASSUME IInv, Params, NEW u \in Users, SubmitForReview(u)
    PROVE  IInv'
<1>1. /\ TypeOK /\ ApprovalIsCurrent /\ LatestStage
      /\ state = "DRAFT" /\ state' = "PENDING_REVIEW" /\ approval' = approval
      /\ UNCHANGED <<revisions, exports, deliveries, handler>>
      /\ Record("SUBMITTED_FOR_REVIEW", state, "PENDING_REVIEW", Latest, u)
  BY DEF IInv, SubmitForReview, Transition
<1>2. Latest \in DOMAIN revisions /\ Latest \in Nat \ {0} /\ Latest' = Latest
  BY <1>1, CurrentIsTyped DEF Latest
<1>3. NewEvent("SUBMITTED_FOR_REVIEW", Latest, u)
  BY <1>1, <1>2, Recorded DEF TypeOK, EventTypes, States
<1>4. TypeOK'
  <2>1. /\ events' \in Seq(Event)
        /\ \A i \in DOMAIN events' : events'[i].revision \in DOMAIN revisions'
    BY <1>1, <1>2, <1>3, EventsTyped
  <2>2. QED
    BY <1>1, <2>1 DEF TypeOK, States
<1>5. ApprovalIsCurrent'
  BY <1>1 DEF ApprovalIsCurrent
<1>6. LatestStage' /\ PendingWasSubmitted'
  BY <1>1, <1>2, <1>3 DEF LatestStage, PendingWasSubmitted, NewEvent, Decisions
<1>7. ApproversAreEntitled'
  BY <1>1, <1>3 DEF IInv, ApproversAreEntitled, NewEvent, LatestStage, Decisions
<1>8. ExportsFollowApprovals'
  BY <1>1, <1>3 DEF IInv, ExportsFollowApprovals, NewEvent
<1>9. DecidedOnce'
  BY <1>1, <1>2, <1>3, StillDecidedOnce DEF IInv, TypeOK, LatestStage, Decisions
<1>10. ReadOrDecided' /\ RequestsRemember'
  BY <1>1, <1>2, <1>3 DEF IInv, ReadOrDecided, RequestsRemember, Remembers, NewEvent
<1>11. QED
  BY <1>4, <1>5, <1>6, <1>7, <1>8, <1>9, <1>10 DEF IInv

LEMMA ApproveHolds ==
    ASSUME IInv, Params, NEW h \in Handlers, Approve(h)
    PROVE  IInv'
<1> DEFINE u == handler[h].by
<1>1. /\ TypeOK /\ LatestStage /\ PendingWasSubmitted /\ RequestsRemember
      /\ state = "PENDING_REVIEW" /\ state' = "APPROVED"
      /\ approval' = [revision |-> Latest, by |-> u]
      /\ UNCHANGED <<revisions, exports, deliveries>>
      /\ Record("APPROVED", state, "APPROVED", Latest, u)
      /\ ~SelfApproval(u)
  BY DEF IInv, Approve, Transition
<1>2. u \in Reviewers /\ u \in Users
  BY DEF IInv, Approve, RequestsRemember, Remembers, Params, ParamsAssumption
<1>3. Latest \in DOMAIN revisions /\ Latest \in Nat \ {0} /\ Latest' = Latest
  BY <1>1, CurrentIsTyped DEF Latest
<1>4. /\ handler' \in [Handlers -> Handler]
      /\ \A g \in Handlers : handler'[g] = handler[g] \/ handler'[g].pc = "idle"
  BY ForgetsOnly DEF IInv, TypeOK, Approve
<1> HIDE DEF u
<1>5. NewEvent("APPROVED", Latest, u)
  BY <1>1, <1>2, <1>3, Recorded DEF TypeOK, EventTypes, States, Decisions
<1>6. TypeOK'
  <2>1. /\ events' \in Seq(Event)
        /\ \A i \in DOMAIN events' : events'[i].revision \in DOMAIN revisions'
    BY <1>1, <1>3, <1>5, EventsTyped
  <2>2. approval' \in [revision: Nat, by: Users \cup {None}]
    BY <1>1, <1>2, <1>3
  <2>3. QED
    BY <1>1, <1>4, <2>1, <2>2 DEF TypeOK, States
<1>7. ApprovalIsCurrent'
  BY <1>1, <1>3, <1>5 DEF ApprovalIsCurrent, NewEvent
<1>8. LatestStage' /\ PendingWasSubmitted'
  BY <1>1 DEF LatestStage, PendingWasSubmitted
<1>9. ApproversAreEntitled'
  <2>1. u \notin SelfApprovers =>
          /\ u # revisions[Latest].by
          /\ \A j \in DOMAIN events :
               events[j].type = "SUBMITTED_FOR_REVIEW" /\ events[j].revision = Latest
                 => events[j].actor # u
    BY <1>1 DEF SelfApproval, Current, SubmittersOf
  <2>2. QED
    BY <1>1, <1>2, <1>5, <2>1 DEF IInv, ApproversAreEntitled, NewEvent
<1>10. ExportsFollowApprovals'
  BY <1>1, <1>5 DEF IInv, ExportsFollowApprovals, NewEvent
<1>11. DecidedOnce'
  BY <1>1, <1>3, <1>5, StillDecidedOnce DEF IInv, TypeOK, LatestStage, PendingWasSubmitted, Decisions
<1>12. ReadOrDecided'
  BY <1>1, <1>4, <1>5 DEF IInv, ReadOrDecided, NewEvent, Decisions
<1>13. RequestsRemember'
  BY <1>1, <1>4, StillRemembered
<1>14. QED
  BY <1>6, <1>7, <1>8, <1>9, <1>10, <1>11, <1>12, <1>13 DEF IInv

LEMMA RejectHolds ==
    ASSUME IInv, Params, NEW h \in Handlers, Reject(h)
    PROVE  IInv'
<1> DEFINE u == handler[h].by
<1>1. /\ TypeOK /\ LatestStage /\ PendingWasSubmitted /\ RequestsRemember
      /\ state = "PENDING_REVIEW" /\ state' = "REJECTED" /\ approval' = NoApproval
      /\ UNCHANGED <<revisions, exports, deliveries>>
      /\ Record("REJECTED", state, "REJECTED", Latest, u)
  BY DEF IInv, Reject, Transition
<1>2. u \in Users
  BY DEF IInv, Reject, RequestsRemember, Remembers, Params, ParamsAssumption
<1>3. Latest \in DOMAIN revisions /\ Latest \in Nat \ {0} /\ Latest' = Latest
  BY <1>1, CurrentIsTyped DEF Latest
<1>4. /\ handler' \in [Handlers -> Handler]
      /\ \A g \in Handlers : handler'[g] = handler[g] \/ handler'[g].pc = "idle"
  BY ForgetsOnly DEF IInv, TypeOK, Reject
<1> HIDE DEF u
<1>5. NewEvent("REJECTED", Latest, u)
  BY <1>1, <1>2, <1>3, Recorded DEF TypeOK, EventTypes, States, Decisions
<1>6. TypeOK'
  <2>1. /\ events' \in Seq(Event)
        /\ \A i \in DOMAIN events' : events'[i].revision \in DOMAIN revisions'
    BY <1>1, <1>3, <1>5, EventsTyped
  <2>2. approval' \in [revision: Nat, by: Users \cup {None}]
    BY <1>1 DEF NoApproval
  <2>3. QED
    BY <1>1, <1>4, <2>1, <2>2 DEF TypeOK, States
<1>7. ApprovalIsCurrent' /\ LatestStage' /\ PendingWasSubmitted'
  BY <1>1 DEF ApprovalIsCurrent, LatestStage, PendingWasSubmitted
<1>8. ApproversAreEntitled' /\ ExportsFollowApprovals'
  <2>1. ApproversAreEntitled'
    BY <1>1, <1>5 DEF IInv, ApproversAreEntitled, NewEvent
  <2>2. ExportsFollowApprovals'
    BY <1>1, <1>5 DEF IInv, ExportsFollowApprovals, NewEvent
  <2>3. QED
    BY <2>1, <2>2
<1>9. DecidedOnce'
  BY <1>1, <1>3, <1>5, StillDecidedOnce DEF IInv, TypeOK, LatestStage, PendingWasSubmitted, Decisions
<1>10. ReadOrDecided'
  BY <1>1, <1>4, <1>5 DEF IInv, ReadOrDecided, NewEvent, Decisions
<1>11. RequestsRemember'
  BY <1>1, <1>4, StillRemembered
<1>12. QED
  BY <1>6, <1>7, <1>8, <1>9, <1>10, <1>11 DEF IInv

\* A new revision leaves those before it as they are, and there is no event about it yet.
LEMMA WriteEditHolds ==
    ASSUME IInv, Params, NEW h \in Handlers, WriteEdit(h)
    PROVE  IInv'
<1> DEFINE u == handler[h].by
           row == [content |-> handler[h].content, by |-> u]
           Row == [content: Content, by: Users]
<1>1. /\ TypeOK /\ RequestsRemember
      /\ state \in EditableStates /\ state' = "DRAFT" /\ approval' = NoApproval
      /\ UNCHANGED <<exports, deliveries>>
      /\ revisions' = Append(revisions, row)
      /\ Record("REVISION_CREATED", state, "DRAFT", Latest + 1, u)
  BY DEF IInv, WriteEdit, NewRevision, Transition
<1>2. u \in Users /\ row \in Row
  BY DEF IInv, WriteEdit, NewRevision, RequestsRemember, Remembers
<1>3. /\ handler' \in [Handlers -> Handler]
      /\ \A g \in Handlers : handler'[g] = handler[g] \/ handler'[g].pc = "idle"
  BY ForgetsOnly DEF IInv, TypeOK, WriteEdit, NewRevision
<1>4. revisions \in Seq(Row)
  BY <1>1 DEF TypeOK
<1> HIDE DEF u, row, Row
<1>5. /\ revisions' \in Seq(Row) /\ Latest \in Nat /\ Latest' = Latest + 1
      /\ DOMAIN revisions = 1 .. Latest /\ DOMAIN revisions' = 1 .. (Latest + 1)
      /\ \A r \in DOMAIN revisions : revisions'[r] = revisions[r]
      /\ revisions' # <<>>
  BY <1>1, <1>2, <1>4 DEF Latest
<1>6. NewEvent("REVISION_CREATED", Latest + 1, u)
  <2>1. "REVISION_CREATED" \in EventTypes /\ state \in States /\ "DRAFT" \in States \ {"ABSENT"}
    BY <1>1 DEF TypeOK, EventTypes, States
  <2>2. Latest + 1 \in Nat \ {0} /\ events \in Seq(Event)
    BY <1>1, <1>5 DEF TypeOK
  <2>3. QED
    BY <1>1, <1>2, <2>1, <2>2, Recorded
<1>7. DOMAIN revisions \subseteq DOMAIN revisions' /\ Latest + 1 \in DOMAIN revisions'
  BY <1>5
<1>8. \A i \in DOMAIN events : events[i].revision \in DOMAIN revisions
  BY <1>1 DEF TypeOK
<1>9. TypeOK'
  <2>1. /\ events' \in Seq(Event)
        /\ \A i \in DOMAIN events' : events'[i].revision \in DOMAIN revisions'
    BY <1>1, <1>6, <1>7, EventsTyped
  <2>2. approval' \in [revision: Nat, by: Users \cup {None}] /\ state' \in States
    BY <1>1 DEF NoApproval, States
  <2>3. \A x \in DOMAIN exports : exports[x].revision \in DOMAIN revisions'
    BY <1>1, <1>7 DEF TypeOK
  <2>4. QED
    BY <1>1, <1>3, <1>5, <2>1, <2>2, <2>3 DEF TypeOK, Row
<1>10. ApprovalIsCurrent' /\ PendingWasSubmitted'
  BY <1>1 DEF ApprovalIsCurrent, PendingWasSubmitted
<1>11. LatestStage'
  BY <1>1, <1>5, <1>6, <1>8 DEF LatestStage, NewEvent, Decisions
<1> DEFINE last == Len(events) + 1
<1>12. /\ DOMAIN events' = DOMAIN events \cup {last}
       /\ events'[last].type = "REVISION_CREATED"
       /\ \A i \in DOMAIN events : /\ events'[i] = events[i]
                                   /\ revisions'[events[i].revision] = revisions[events[i].revision]
  BY <1>5, <1>6, <1>8 DEF NewEvent
<1> HIDE DEF last
<1>13. ApproversAreEntitled'
  <2> SUFFICES ASSUME NEW i \in DOMAIN events', events'[i].type = "APPROVED"
               PROVE  /\ events'[i].actor \in Reviewers
                      /\ events'[i].actor \notin SelfApprovers =>
                           /\ events'[i].actor # revisions'[events'[i].revision].by
                           /\ \A j \in DOMAIN events' :
                                /\ events'[j].type = "SUBMITTED_FOR_REVIEW"
                                /\ events'[j].revision = events'[i].revision
                                => events'[j].actor # events'[i].actor
    BY DEF ApproversAreEntitled
  <2>1. i \in DOMAIN events /\ events[i].type = "APPROVED"
    BY <1>12
  <2>2. QED
    BY <1>12, <2>1 DEF IInv, ApproversAreEntitled
<1>14. ExportsFollowApprovals'
  <2> SUFFICES ASSUME NEW e \in DOMAIN events', events'[e].type = "EXPORTED"
               PROVE  /\ revisions'[events'[e].revision].content.recipient # None
                      /\ \E i \in 1 .. (e - 1) : /\ events'[i].type = "APPROVED"
                                                 /\ events'[i].revision = events'[e].revision
    BY DEF ExportsFollowApprovals
  <2>1. e \in DOMAIN events /\ events[e].type = "EXPORTED"
    BY <1>12
  <2>2. PICK i \in 1 .. (e - 1) :
            events[i].type = "APPROVED" /\ events[i].revision = events[e].revision
    BY <2>1 DEF IInv, ExportsFollowApprovals
  <2>3. i \in DOMAIN events
    BY <1>6, <2>1 DEF NewEvent
  <2>4. QED
    BY <1>12, <2>1, <2>2, <2>3 DEF IInv, ExportsFollowApprovals
<1>15. DecidedOnce'
  BY <1>6, <1>7, <1>8, StillDecidedOnce DEF IInv, Decisions
<1>16. ReadOrDecided'
  BY <1>1, <1>3, <1>6 DEF IInv, ReadOrDecided, NewEvent, EditableStates
<1>17. RequestsRemember'
  BY <1>1, <1>3, StillRemembered
<1>18. QED
  BY <1>9, <1>10, <1>11, <1>13, <1>14, <1>15, <1>16, <1>17 DEF IInv

LEMMA CreateDraftHolds ==
    ASSUME IInv, Params, NEW u \in Users, NEW content \in Content, CreateDraftFromCase(u, content)
    PROVE  IInv'
<1> DEFINE Row == [content: Content, by: Users]
<1>1. /\ TypeOK /\ ApprovalIsCurrent
      /\ state = "ABSENT" /\ state' = "DRAFT" /\ approval' = approval
      /\ UNCHANGED <<exports, deliveries, handler>>
      /\ revisions' = <<[content |-> content, by |-> u]>>
      /\ Record("DRAFT_CREATED", state, "DRAFT", 1, u)
  BY DEF IInv, CreateDraftFromCase, Transition
<1>2. /\ revisions' \in Seq(Row) /\ revisions' # <<>>
      /\ DOMAIN revisions' = {1} /\ Latest' = 1
  BY <1>1 DEF Latest
<1> HIDE DEF Row
<1>3. DOMAIN revisions = {}
  BY <1>1 DEF TypeOK
<1>4. DOMAIN events = {}
  BY <1>1, <1>3 DEF TypeOK
<1>5. NewEvent("DRAFT_CREATED", 1, u)
  <2>1. "DRAFT_CREATED" \in EventTypes /\ state \in States /\ "DRAFT" \in States \ {"ABSENT"}
    BY <1>1 DEF TypeOK, EventTypes, States
  <2>2. 1 \in Nat \ {0} /\ events \in Seq(Event)
    BY <1>1 DEF TypeOK
  <2>3. QED
    BY <1>1, <2>1, <2>2, Recorded
<1>6. TypeOK'
  <2>1. /\ events' \in Seq(Event)
        /\ \A i \in DOMAIN events' : events'[i].revision \in DOMAIN revisions'
    BY <1>1, <1>2, <1>3, <1>5, EventsTyped
  <2>2. \A x \in DOMAIN exports : exports[x].revision \in DOMAIN revisions'
    BY <1>1, <1>3 DEF TypeOK
  <2>3. QED
    BY <1>1, <1>2, <2>1, <2>2 DEF TypeOK, States, Row
<1>7. ApprovalIsCurrent' /\ PendingWasSubmitted'
  BY <1>1 DEF ApprovalIsCurrent, PendingWasSubmitted
<1>8. LatestStage' /\ ApproversAreEntitled' /\ ExportsFollowApprovals'
  BY <1>1, <1>4, <1>5
     DEF LatestStage, ApproversAreEntitled, ExportsFollowApprovals, NewEvent, Decisions
<1>9. DecidedOnce'
  BY <1>2, <1>3, <1>4, <1>5, StillDecidedOnce DEF IInv, Decisions
<1>10. RequestsRemember'
  BY <1>1 DEF IInv, RequestsRemember, Remembers
<1>11. ReadOrDecided'
  BY <1>1, <1>4 DEF IInv, ReadOrDecided
<1>12. QED
  BY <1>6, <1>7, <1>8, <1>9, <1>10, <1>11 DEF IInv

\* An export or a delivery record adds its event and its row and moves nothing else.
LEMMA ActHolds ==
    ASSUME IInv, UNCHANGED <<state, approval, revisions>>,
           NEW type \in Acts, NEW r \in DOMAIN revisions, NEW actor, NewEvent(type, r, actor),
           type = "EXPORTED" => /\ revisions[r].content.recipient # None
                                /\ \E i \in DOMAIN events : /\ events[i].type = "APPROVED"
                                                            /\ events[i].revision = r
    PROVE  /\ events' \in Seq(Event)
           /\ \A i \in DOMAIN events' : events'[i].revision \in DOMAIN revisions'
           /\ ApprovalIsCurrent' /\ LatestStage' /\ PendingWasSubmitted'
           /\ ApproversAreEntitled' /\ ExportsFollowApprovals' /\ DecidedOnce'
<1> DEFINE last == Len(events) + 1
<1>1. /\ DOMAIN events = 1 .. Len(events) /\ Len(events) \in Nat
      /\ DOMAIN events' = DOMAIN events \cup {last}
      /\ events'[last].type = type /\ events'[last].revision = r
      /\ \A i \in DOMAIN events : events'[i] = events[i]
  BY DEF NewEvent
<1>2. /\ type \notin {"SUBMITTED_FOR_REVIEW"} \cup Decisions
      /\ type # "APPROVED"
  BY DEF Acts, Decisions
<1>3. TypeOK /\ Latest' = Latest
  BY DEF IInv, Latest
<1>4. /\ events' \in Seq(Event)
      /\ \A i \in DOMAIN events' : events'[i].revision \in DOMAIN revisions'
  BY <1>3, EventsTyped
<1>5. ApprovalIsCurrent'
  BY <1>1, <1>3 DEF IInv, ApprovalIsCurrent
<1>6. LatestStage' /\ PendingWasSubmitted'
  BY <1>1, <1>2, <1>3 DEF IInv, LatestStage, PendingWasSubmitted
<1>7. ApproversAreEntitled'
  BY <1>1, <1>2 DEF IInv, ApproversAreEntitled
<1>8. ExportsFollowApprovals'
  <2> SUFFICES ASSUME NEW e \in DOMAIN events', events'[e].type = "EXPORTED"
               PROVE  /\ revisions[events'[e].revision].content.recipient # None
                      /\ \E i \in 1 .. (e - 1) : /\ events'[i].type = "APPROVED"
                                                 /\ events'[i].revision = events'[e].revision
    BY DEF ExportsFollowApprovals
  <2>1. CASE e \in DOMAIN events
    BY <1>1, <2>1 DEF IInv, ExportsFollowApprovals
  <2>2. CASE e = last
    <3>1. PICK i \in DOMAIN events : events[i].type = "APPROVED" /\ events[i].revision = r
      BY <1>1, <2>2
    <3>2. i \in 1 .. (e - 1)
      BY <1>1, <2>2
    <3>3. QED
      BY <1>1, <2>2, <3>1, <3>2
  <2>3. QED
    BY <1>1, <2>1, <2>2
<1>9. DecidedOnce'
  BY <1>2, <1>3, StillDecidedOnce DEF IInv, TypeOK
<1>10. QED
  BY <1>4, <1>5, <1>6, <1>7, <1>8, <1>9

LEMMA ExportHolds ==
    ASSUME IInv, Params, NEW u \in Users, ExportNotification(u)
    PROVE  IInv'
<1> DEFINE Row == [revision: Nat \ {0}, by: Users]
           row == [revision |-> Latest, by |-> u]
<1>1. /\ TypeOK /\ ApprovalIsCurrent /\ ExportEligible
      /\ UNCHANGED <<state, approval, revisions, deliveries, handler>>
      /\ exports' = Append(exports, row)
      /\ Record("EXPORTED", state, state, Latest, u)
  BY DEF IInv, ExportNotification
<1>2. state = "APPROVED" /\ revisions[Latest].content.recipient # None
  BY <1>1 DEF ExportEligible, Current
<1>3. Latest \in DOMAIN revisions /\ Latest \in Nat \ {0} /\ Latest' = Latest
  BY <1>1, <1>2, CurrentIsTyped DEF Latest
<1>4. NewEvent("EXPORTED", Latest, u)
  BY <1>1, <1>2, <1>3, Recorded DEF TypeOK, EventTypes, States, Acts
<1>5. exports \in Seq(Row) /\ row \in Row /\ row.revision = Latest
  BY <1>1, <1>3 DEF TypeOK
<1> HIDE DEF Row, row
<1>6. /\ exports' \in Seq(Row)
      /\ DOMAIN exports' = DOMAIN exports \cup {Len(exports) + 1}
      /\ \A x \in DOMAIN exports : exports'[x] = exports[x]
      /\ exports'[Len(exports) + 1] = row
  BY <1>1, <1>5
<1>7. \E i \in DOMAIN events : events[i].type = "APPROVED" /\ events[i].revision = Latest
  BY <1>1, <1>2 DEF ApprovalIsCurrent
<1>8. /\ events' \in Seq(Event)
      /\ \A i \in DOMAIN events' : events'[i].revision \in DOMAIN revisions'
      /\ ApprovalIsCurrent' /\ LatestStage' /\ PendingWasSubmitted'
      /\ ApproversAreEntitled' /\ ExportsFollowApprovals' /\ DecidedOnce'
  <2>1. "EXPORTED" \in Acts
    BY DEF Acts
  <2>2. QED
    BY <1>1, <1>2, <1>3, <1>4, <1>7, <2>1, ActHolds
<1>9. TypeOK'
  <2>1. \A x \in DOMAIN exports' : exports'[x].revision \in DOMAIN revisions'
    BY <1>1, <1>3, <1>5, <1>6 DEF TypeOK
  <2>2. \A d \in DOMAIN deliveries' :
           /\ deliveries'[d].export \in DOMAIN exports'
           /\ deliveries'[d].revision = exports'[deliveries'[d].export].revision
    BY <1>1, <1>6 DEF TypeOK
  <2>3. exports' \in Seq([revision: Nat \ {0}, by: Users])
    BY <1>6 DEF Row
  <2>4. QED
    BY <1>1, <1>8, <2>1, <2>2, <2>3 DEF TypeOK
<1>10. RequestsRemember'
  BY <1>1, <1>6, StillRemembered DEF IInv
<1>11. ReadOrDecided'
  BY <1>1, <1>3, <1>4 DEF IInv, ReadOrDecided, NewEvent
<1>12. QED
  BY <1>8, <1>9, <1>10, <1>11 DEF IInv

LEMMA RecordDeliveryHolds ==
    ASSUME IInv, Params, NEW h \in Handlers, RecordDeliveryEvent(h)
    PROVE  IInv'
<1> DEFINE x == handler[h].export
           r == exports[x].revision
           Row == [export: Nat \ {0}, revision: Nat \ {0}]
           row == [export |-> x, revision |-> r]
<1>1. /\ TypeOK
      /\ UNCHANGED <<state, approval, revisions, exports>>
      /\ deliveries' = Append(deliveries, row)
      /\ Record("DELIVERY_RECORDED", handler[h].state, handler[h].state, r, handler[h].by)
  BY DEF IInv, RecordDeliveryEvent
<1>2. x \in DOMAIN exports /\ handler[h].by \in Users /\ handler[h].state \in States \ {"ABSENT"}
  <2>1. handler[h] \in Handler
    BY <1>1 DEF TypeOK
  <2>2. QED
    BY <2>1 DEF IInv, RequestsRemember, Remembers, RecordDeliveryEvent, Handler
<1>3. /\ handler' \in [Handlers -> Handler]
      /\ \A g \in Handlers : handler'[g] = handler[g] \/ handler'[g].pc = "idle"
  BY <1>1, ForgetsOnly DEF TypeOK, RecordDeliveryEvent
<1>4. r \in DOMAIN revisions /\ r \in Nat \ {0} /\ x \in Nat \ {0}
  BY <1>1, <1>2 DEF TypeOK
<1>5. deliveries \in Seq(Row) /\ row \in Row /\ row.export = x /\ row.revision = r
  BY <1>1, <1>4 DEF TypeOK
<1>6. NewEvent("DELIVERY_RECORDED", r, handler[h].by)
  <2>1. "DELIVERY_RECORDED" \in EventTypes /\ events \in Seq(Event)
    BY <1>1 DEF TypeOK, EventTypes, Acts
  <2> HIDE DEF r
  <2>2. QED
    BY <1>1, <1>2, <1>4, <2>1, Recorded
<1> HIDE DEF Row, row
<1>7. /\ deliveries' \in Seq(Row)
      /\ DOMAIN deliveries' = DOMAIN deliveries \cup {Len(deliveries) + 1}
      /\ \A d \in DOMAIN deliveries : deliveries'[d] = deliveries[d]
      /\ deliveries'[Len(deliveries) + 1] = row
  BY <1>1, <1>5
<1>8. /\ events' \in Seq(Event)
      /\ \A i \in DOMAIN events' : events'[i].revision \in DOMAIN revisions'
      /\ ApprovalIsCurrent' /\ LatestStage' /\ PendingWasSubmitted'
      /\ ApproversAreEntitled' /\ ExportsFollowApprovals' /\ DecidedOnce'
  <2>1. "DELIVERY_RECORDED" \in Acts /\ "DELIVERY_RECORDED" # "EXPORTED"
    BY DEF Acts
  <2> HIDE DEF r
  <2>2. QED
    BY <1>1, <1>4, <1>6, <2>1, ActHolds
<1>9. TypeOK'
  <2>1. \A d \in DOMAIN deliveries' :
           /\ deliveries'[d].export \in DOMAIN exports
           /\ deliveries'[d].revision = exports[deliveries'[d].export].revision
    <3>1. \A d \in DOMAIN deliveries :
             /\ deliveries[d].export \in DOMAIN exports
             /\ deliveries[d].revision = exports[deliveries[d].export].revision
      BY <1>1 DEF TypeOK
    <3>2. row.export \in DOMAIN exports /\ row.revision = exports[row.export].revision
      BY <1>2, <1>5
    <3>3. QED
      BY <1>7, <3>1, <3>2
  <2>2. deliveries' \in Seq([export: Nat \ {0}, revision: Nat \ {0}])
    BY <1>7 DEF Row
  <2>3. QED
    BY <1>1, <1>3, <1>8, <2>1, <2>2 DEF TypeOK
<1>10. RequestsRemember'
  BY <1>1, <1>3, StillRemembered DEF IInv
<1>11. ReadOrDecided'
  <2>1. Latest' = Latest /\ state' = state
    BY <1>1 DEF Latest
  <2> HIDE DEF r
  <2>2. QED
    BY <1>3, <1>6, <2>1 DEF IInv, ReadOrDecided, NewEvent
<1>12. QED
  BY <1>8, <1>9, <1>10, <1>11 DEF IInv

-----------------------------------------------------------------------------
(* The theorems.                                                           *)

LEMMA StepHolds == IInv /\ Params /\ [Next]_vars => IInv'
<1> SUFFICES ASSUME IInv, Params, [Next]_vars
             PROVE  IInv'
  OBVIOUS
<1>1. CASE \E u \in Users : UserStep(u)
  <2> PICK u \in Users : UserStep(u)
    BY <1>1
  <2>1. QED
    BY CreateDraftHolds, SubmitHolds, ExportHolds DEF UserStep
<1>2. CASE \E h \in Handlers : HandlerStep(h)
  <2> PICK h \in Handlers : HandlerStep(h)
    BY <1>2
  <2>1. ASSUME NEW u \in Users, NEW sent \in SUBSET Fields, NEW patch \in Content,
               BeginEdit(h, u, sent, patch)
        PROVE  IInv'
    BY <2>1, BeginEditHolds
  <2>2. ASSUME NEW u \in Users, OpenForReview(h, u)
        PROVE  IInv'
    BY <2>2, OpenForReviewHolds
  <2>3. ASSUME NEW u \in Users, NEW x \in 1 .. MaxExports, BeginDelivery(h, u, x)
        PROVE  IInv'
    BY <2>3, BeginDeliveryHolds
  <2>4. CASE WriteEdit(h) \/ Approve(h) \/ Reject(h) \/ RecordDeliveryEvent(h) \/ Abandon(h)
    BY <2>4, WriteEditHolds, ApproveHolds, RejectHolds, RecordDeliveryHolds, AbandonHolds
  <2>5. QED
    BY <2>1, <2>2, <2>3, <2>4 DEF HandlerStep
<1>3. CASE UNCHANGED vars
  <2>1. UNCHANGED <<state, approval, revisions, events, exports, deliveries>> /\ handler' = handler
    BY <1>3 DEF vars
  <2>2. RequestsRemember' /\ ReadOrDecided' /\ handler' \in [Handlers -> Handler]
    BY <2>1 DEF IInv, TypeOK, RequestsRemember, Remembers, ReadOrDecided, Latest
  <2>3. QED
    BY <2>1, <2>2, MemoryStep
<1>4. QED
  BY <1>1, <1>2, <1>3 DEF Next

LEMMA Inductive == Spec => []IInv
<1>1. Init => IInv
  BY InitHolds
<1>2. IInv /\ [Next]_vars => IInv'
  BY StepHolds, Params
<1>3. QED
  BY <1>1, <1>2, PTL DEF Spec

\* Rows are well formed and refer to rows that exist; a delivery is recorded for the
\* revision that was exported, however long ago its request read it.
THEOREM TypeCorrect == Spec => []TypeOK
<1>1. IInv => TypeOK
  BY DEF IInv
<1>2. QED
  BY <1>1, Inductive, PTL

\* The stored approval is that of the current revision, and is there exactly while the
\* notification is approved.
THEOREM ApprovalsAreCurrent == Spec => []ApprovalIsCurrent
<1>1. IInv => ApprovalIsCurrent
  BY DEF IInv
<1>2. QED
  BY <1>1, Inductive, PTL

\* A revision is submitted once and decided once, after its submission.
THEOREM RevisionsDecidedOnce == Spec => []DecidedOnce
<1>1. IInv => DecidedOnce
  BY DEF IInv
<1>2. QED
  BY <1>1, Inductive, PTL

\* Whatever left the system had been approved, in that revision, by somebody entitled to.
THEOREM ExportsApproved == Spec => []ExportsWereApproved
<1>1. IInv => ExportsWereApproved
  <2> SUFFICES ASSUME IInv, NEW e \in DOMAIN events, events[e].type = "EXPORTED"
               PROVE  /\ revisions[events[e].revision].content.recipient # None
                      /\ \E i \in 1 .. (e - 1) :
                           /\ events[i].type = "APPROVED"
                           /\ events[i].revision = events[e].revision
                           /\ events[i].actor \in Reviewers
                           /\ \/ events[i].actor \in SelfApprovers
                              \/ events[i].actor \notin {revisions[events[e].revision].by}
                                                          \cup SubmittersOf(events[e].revision)
    BY DEF ExportsWereApproved
  <2>1. /\ revisions[events[e].revision].content.recipient # None
        /\ \E i \in 1 .. (e - 1) : /\ events[i].type = "APPROVED"
                                   /\ events[i].revision = events[e].revision
    BY DEF IInv, ExportsFollowApprovals
  <2>2. PICK i \in 1 .. (e - 1) :
            events[i].type = "APPROVED" /\ events[i].revision = events[e].revision
    BY <2>1
  <2>3. i \in DOMAIN events
    BY DEF IInv, TypeOK
  <2>4. /\ events[i].actor \in Reviewers
        /\ events[i].actor \notin SelfApprovers =>
             /\ events[i].actor # revisions[events[i].revision].by
             /\ \A j \in DOMAIN events :
                  events[j].type = "SUBMITTED_FOR_REVIEW" /\ events[j].revision = events[i].revision
                    => events[j].actor # events[i].actor
    BY <2>2, <2>3 DEF IInv, ApproversAreEntitled
  <2>5. QED
    BY <2>1, <2>2, <2>4 DEF SubmittersOf
<1>2. QED
  BY <1>1, Inductive, PTL

\* Content never changes between its submission and the decision on it.
THEOREM ReviewedContentStays == Spec => ReviewedContentIsFixed
<1>1. IInv /\ [Next]_vars => [state = "PENDING_REVIEW" => revisions' = revisions]_vars
  BY DEF Next, vars, UserStep, HandlerStep, CreateDraftFromCase, SubmitForReview,
     ExportNotification, BeginEdit, OpenForReview, BeginDelivery, WriteEdit, EditableStates,
     Approve, Reject, RecordDeliveryEvent, Abandon, Remember
<1>2. QED
  BY <1>1, Inductive, PTL DEF Spec, ReviewedContentIsFixed

\* A reviewer approves the revision they read, unless it has been decided on since.
THEOREM ApprovalsAreOfWhatWasRead == Spec => ApprovedAsRead
<1> DEFINE AsRead ==
      \A h \in Handlers :
          /\ handler[h].pc = "reviewing" /\ handler'[h].pc = "idle"
          /\ state = "PENDING_REVIEW" /\ state' = "APPROVED"
          => \/ handler[h].revision = approval'.revision
             \/ Indices(Decisions, handler[h].revision) # {}
<1>1. ASSUME IInv, [Next]_vars, state = "PENDING_REVIEW", state' = "APPROVED"
      PROVE  approval'.revision = Latest
  BY <1>1 DEF Next, vars, UserStep, HandlerStep, CreateDraftFromCase, SubmitForReview,
     ExportNotification, BeginEdit, OpenForReview, BeginDelivery, WriteEdit, NewRevision,
     Approve, Reject, RecordDeliveryEvent, Abandon, Remember, Transition
<1>2. ASSUME IInv, NEW h \in Handlers, handler[h].pc = "reviewing"
      PROVE  handler[h].revision = Latest \/ Indices(Decisions, handler[h].revision) # {}
  BY <1>2 DEF IInv, ReadOrDecided, Indices
<1>3. IInv /\ [Next]_vars => AsRead
  BY <1>1, <1>2
<1>4. IInv /\ [Next]_vars => [AsRead]_vars
  BY <1>3
<1>5. QED
  BY <1>4, Inductive, PTL DEF Spec, ApprovedAsRead

-----------------------------------------------------------------------------
(* The timeline explains the notification.                                 *)

\* The transitions form a chain, the last of which led to the present state.
Chained ==
    \A i, j \in Moves :
        i < j /\ (\A k \in Moves : k <= i \/ j <= k) => events[j].from = events[i].to

EndsInState ==
    /\ Moves = {} <=> state = "ABSENT"
    /\ \A i \in Moves : (\A k \in Moves : k <= i) => state = events[i].to

Creations == {"DRAFT_CREATED", "REVISION_CREATED"}

\* The rows of a table about revision q.
About(rows, q) == {x \in DOMAIN rows : rows[x].revision = q}

CountsAgree(q) ==
    /\ Cardinality(Indices(Creations, q)) = 1
    /\ Cardinality(Indices({"EXPORTED"}, q)) = Cardinality(About(exports, q))
    /\ Cardinality(Indices({"DELIVERY_RECORDED"}, q)) = Cardinality(About(deliveries, q))

LEMMA TimelineParts ==
    TimelineExplains <=> Chained /\ EndsInState /\ \A q \in DOMAIN revisions : CountsAgree(q)
  BY DEF TimelineExplains, Chained, EndsInState, CountsAgree, Creations, About

LEMMA TimelinePartsNext ==
    TimelineExplains' <=>
        Chained' /\ EndsInState' /\ \A q \in DOMAIN revisions' : CountsAgree(q)'
  BY DEF TimelineExplains, Chained, EndsInState, CountsAgree, Creations, About

LEMMA OneMore ==
    ASSUME NEW n \in Nat, NEW S \in SUBSET (1 .. n)
    PROVE  /\ Cardinality(S) \in Nat
           /\ Cardinality(S \cup {n + 1}) = Cardinality(S) + 1
<1>1. IsFiniteSet(1 .. n)
  BY FS_Interval
<1>2. IsFiniteSet(S) /\ Cardinality(S) \in Nat
  BY <1>1, FS_Subset, FS_CardinalityType
<1>3. n + 1 \notin S
  OBVIOUS
<1>4. QED
  BY <1>2, <1>3, FS_AddElement

\* Appending an event adds one to the count that it belongs to.
LEMMA IndicesGrow ==
    ASSUME NEW type, NEW r, NEW actor, NewEvent(type, r, actor), NEW T, NEW q
    PROVE  /\ Cardinality(Indices(T, q)) \in Nat
           /\ Cardinality(Indices(T, q)')
                = Cardinality(Indices(T, q)) + (IF type \in T /\ r = q THEN 1 ELSE 0)
<1> DEFINE n == Len(events)
           S == Indices(T, q)
<1>1. /\ n \in Nat /\ DOMAIN events = 1 .. n /\ DOMAIN events' = 1 .. (n + 1)
      /\ \A i \in DOMAIN events : events'[i] = events[i]
      /\ events'[n + 1].type = type /\ events'[n + 1].revision = r
  BY DEF NewEvent
<1>2. S \in SUBSET (1 .. n)
  BY <1>1 DEF Indices
<1>3. Indices(T, q)' = IF type \in T /\ r = q THEN S \cup {n + 1} ELSE S
  BY <1>1 DEF Indices
<1> HIDE DEF n, S
<1>4. /\ Cardinality(S) \in Nat
      /\ Cardinality(S \cup {n + 1}) = Cardinality(S) + 1
  BY <1>1, <1>2, OneMore
<1>5. QED
  BY <1>3, <1>4 DEF S

\* And appending a row to one of the tables likewise.
LEMMA RowsGrow ==
    ASSUME NEW n \in Nat, NEW rows, NEW more, DOMAIN rows = 1 .. n, DOMAIN more = 1 .. (n + 1),
           \A x \in 1 .. n : more[x] = rows[x], NEW q
    PROVE  /\ Cardinality(About(rows, q)) \in Nat
           /\ Cardinality(About(more, q))
                = Cardinality(About(rows, q)) + (IF more[n + 1].revision = q THEN 1 ELSE 0)
<1>1. About(rows, q) \in SUBSET (1 .. n)
  BY DEF About
<1>2. About(more, q) = IF more[n + 1].revision = q THEN About(rows, q) \cup {n + 1} ELSE About(rows, q)
  BY DEF About
<1>3. /\ Cardinality(About(rows, q)) \in Nat
      /\ Cardinality(About(rows, q) \cup {n + 1}) = Cardinality(About(rows, q)) + 1
  BY <1>1, OneMore
<1>4. CASE more[n + 1].revision = q
  BY <1>2, <1>3, <1>4
<1>5. CASE more[n + 1].revision # q
  BY <1>2, <1>3, <1>5
<1>6. QED
  BY <1>4, <1>5

\* The new event leads from one state to another.
Leads(from, to) ==
    /\ events'[Len(events) + 1].from = from
    /\ events'[Len(events) + 1].to = to

LEMMA RecordLeads ==
    ASSUME events \in Seq(Event), NEW type, NEW from, NEW to, NEW r, NEW actor,
           Record(type, from, to, r, actor)
    PROVE  Leads(from, to)
<1> DEFINE e == [type |-> type, from |-> from, to |-> to, revision |-> r, actor |-> actor]
<1>1. e.from = from /\ e.to = to
  OBVIOUS
<1>2. events' = Append(events, e)
  BY DEF Record
<1> HIDE DEF e
<1>3. events'[Len(events) + 1] = e
  BY <1>2
<1>4. QED
  BY <1>1, <1>3 DEF Leads

\* A transition that is recorded from the state that it leaves lengthens the chain.
LEMMA MoveExtendsChain ==
    ASSUME Chained, EndsInState, NEW type, NEW r, NEW actor, NewEvent(type, r, actor),
           type \notin Acts, Leads(state, state'), state' # "ABSENT"
    PROVE  Chained' /\ EndsInState'
<1> DEFINE last == Len(events) + 1
<1>1. /\ last \in Nat
      /\ \A i \in DOMAIN events : i \in Nat /\ i < last
      /\ DOMAIN events' = DOMAIN events \cup {last}
      /\ \A i \in DOMAIN events : events'[i] = events[i]
      /\ events'[last].type = type
      /\ events'[last].from = state /\ events'[last].to = state'
  BY DEF NewEvent, Leads
<1> HIDE DEF last
<1>2. Moves' = Moves \cup {last} /\ Moves \subseteq DOMAIN events
  BY <1>1 DEF Moves
<1>3. Chained'
  <2> SUFFICES ASSUME NEW i \in Moves', NEW j \in Moves', i < j,
                      \A k \in Moves' : k <= i \/ j <= k
               PROVE  events'[j].from = events'[i].to
    BY DEF Chained
  <2>1. i \in Moves
    BY <1>1, <1>2
  <2>2. CASE j \in Moves
    BY <1>1, <1>2, <2>1, <2>2 DEF Chained
  <2>3. CASE j = last
    <3>1. \A k \in Moves : k <= i
      BY <1>1, <1>2, <2>1, <2>3
    <3>2. state = events[i].to
      BY <2>1, <3>1 DEF EndsInState
    <3>3. QED
      BY <1>1, <1>2, <2>1, <2>3, <3>2
  <2>4. QED
    BY <1>2, <2>2, <2>3
<1>4. EndsInState'
  <2>1. ASSUME NEW i \in Moves', \A k \in Moves' : k <= i
        PROVE  state' = events'[i].to
    <3>1. i = last
      BY <1>1, <1>2, <2>1
    <3>2. QED
      BY <1>1, <3>1
  <2>2. Moves' # {}
    BY <1>2
  <2>3. QED
    BY <2>1, <2>2 DEF EndsInState
<1>5. QED
  BY <1>3, <1>4

\* What is not a transition is no link of the chain.
LEMMA ActKeepsChain ==
    ASSUME Chained, EndsInState, NEW type, NEW r, NEW actor, NewEvent(type, r, actor),
           type \in Acts, state' = state
    PROVE  Chained' /\ EndsInState'
<1>1. /\ DOMAIN events' = DOMAIN events \cup {Len(events) + 1}
      /\ \A i \in DOMAIN events : events'[i] = events[i]
      /\ events'[Len(events) + 1].type \in Acts
  BY DEF NewEvent
<1>2. Moves' = Moves /\ Moves \subseteq DOMAIN events
  BY <1>1 DEF Moves
<1>3. QED
  BY <1>1, <1>2 DEF Chained, EndsInState

\* A submission or a decision is counted by nobody.
LEMMA ReviewMoveExplained ==
    ASSUME IInv, TimelineExplains, NEW type \in {"SUBMITTED_FOR_REVIEW"} \cup Decisions,
           NEW r, NEW actor, NewEvent(type, r, actor), Leads(state, state'), state' # "ABSENT",
           UNCHANGED <<revisions, exports, deliveries>>
    PROVE  TimelineExplains'
<1>1. type \notin Acts /\ type \notin Creations
  BY DEF Acts, Creations, Decisions
<1>2. type # "EXPORTED" /\ type # "DELIVERY_RECORDED"
  BY <1>1 DEF Acts
<1>3. Chained' /\ EndsInState'
  BY <1>1, TimelineParts, MoveExtendsChain
<1>4. ASSUME NEW q \in DOMAIN revisions'
      PROVE  CountsAgree(q)'
  <2>1. CountsAgree(q)
    BY TimelineParts
  <2>2. /\ Cardinality(Indices(Creations, q))' = Cardinality(Indices(Creations, q))
        /\ Cardinality(Indices({"EXPORTED"}, q))' = Cardinality(Indices({"EXPORTED"}, q))
        /\ Cardinality(Indices({"DELIVERY_RECORDED"}, q))'
             = Cardinality(Indices({"DELIVERY_RECORDED"}, q))
    <3>1. ASSUME NEW T, type \notin T
          PROVE  Cardinality(Indices(T, q))' = Cardinality(Indices(T, q))
      BY <3>1, IndicesGrow
    <3>2. QED
      BY <1>1, <1>2, <3>1
  <2>3. About(exports', q) = About(exports, q) /\ About(deliveries', q) = About(deliveries, q)
    OBVIOUS
  <2>4. QED
    BY <2>1, <2>2, <2>3 DEF CountsAgree
<1>5. QED
  BY <1>3, <1>4, TimelinePartsNext

\* The event about a new revision is the only one about it.
LEMMA CreationExplained ==
    ASSUME IInv, TimelineExplains, NEW type \in Creations,
           NEW r, NEW actor, NewEvent(type, r, actor), Leads(state, state'), state' # "ABSENT",
           r \notin DOMAIN revisions, DOMAIN revisions' = DOMAIN revisions \cup {r},
           UNCHANGED <<exports, deliveries>>
    PROVE  TimelineExplains'
<1>1. type \notin Acts /\ type # "EXPORTED" /\ type # "DELIVERY_RECORDED"
  BY DEF Acts, Creations
<1>2. Chained' /\ EndsInState'
  BY <1>1, TimelineParts, MoveExtendsChain
<1>3. ASSUME NEW q \in DOMAIN revisions'
      PROVE  CountsAgree(q)'
  <2>1. /\ Cardinality(Indices(Creations, q)) \in Nat
        /\ Cardinality(Indices(Creations, q))'
             = Cardinality(Indices(Creations, q)) + (IF r = q THEN 1 ELSE 0)
        /\ Cardinality(Indices({"EXPORTED"}, q))' = Cardinality(Indices({"EXPORTED"}, q))
        /\ Cardinality(Indices({"DELIVERY_RECORDED"}, q))'
             = Cardinality(Indices({"DELIVERY_RECORDED"}, q))
    <3>1. ASSUME NEW T, type \notin T
          PROVE  Cardinality(Indices(T, q))' = Cardinality(Indices(T, q))
      BY <3>1, IndicesGrow
    <3>2. /\ Cardinality(Indices(Creations, q)) \in Nat
          /\ Cardinality(Indices(Creations, q))'
               = Cardinality(Indices(Creations, q)) + (IF type \in Creations /\ r = q THEN 1 ELSE 0)
      <4> HIDE DEF Creations
      <4>1. QED
        BY IndicesGrow
    <3>3. QED
      BY <1>1, <3>1, <3>2
  <2>2. About(exports', q) = About(exports, q) /\ About(deliveries', q) = About(deliveries, q)
    OBVIOUS
  <2>3. CASE q \in DOMAIN revisions
    <3>1. CountsAgree(q) /\ r # q
      BY <2>3, TimelineParts
    <3>2. QED
      BY <2>1, <2>2, <3>1 DEF CountsAgree
  <2>4. CASE q \notin DOMAIN revisions
    <3>1. q = r
      BY <2>4
    <3>2. ASSUME NEW T
          PROVE  Indices(T, q) = {}
      BY <2>4 DEF IInv, TypeOK, Indices
    <3>3. About(exports, q) = {}
      BY <2>4 DEF IInv, TypeOK, About
    <3>4. About(deliveries, q) = {}
      BY <2>4 DEF IInv, TypeOK, About
    <3>5. Cardinality({}) = 0
      BY FS_EmptySet
    <3>6. Cardinality(Indices(Creations, q)) = 0
      BY <3>2, <3>5
    <3>7. /\ Cardinality(Indices({"EXPORTED"}, q)) = 0
          /\ Cardinality(Indices({"DELIVERY_RECORDED"}, q)) = 0
      BY <3>2, <3>5
    <3>8. QED
      BY <2>1, <2>2, <3>1, <3>3, <3>4, <3>5, <3>6, <3>7 DEF CountsAgree
  <2>5. QED
    BY <2>3, <2>4
<1>4. QED
  BY <1>2, <1>3, TimelinePartsNext

\* The row about revision q is the only new one of its table.
Grows(rows, more, q) ==
    /\ \E n \in Nat : /\ DOMAIN rows = 1 .. n
                      /\ DOMAIN more = 1 .. (n + 1)
                      /\ \A x \in 1 .. n : more[x] = rows[x]
                      /\ more[n + 1].revision = q

LEMMA AppendGrows ==
    ASSUME NEW R, NEW rows \in Seq(R), NEW row \in R
    PROVE  Grows(rows, Append(rows, row), row.revision)
<1> DEFINE n == Len(rows)
           more == Append(rows, row)
<1>1. /\ n \in Nat /\ DOMAIN rows = 1 .. n /\ DOMAIN more = 1 .. (n + 1)
      /\ \A x \in 1 .. n : more[x] = rows[x]
      /\ more[n + 1] = row
  OBVIOUS
<1> HIDE DEF n, more
<1>2. Grows(rows, more, row.revision)
  BY <1>1 DEF Grows
<1>3. QED
  BY <1>2 DEF more

LEMMA GrowthCounted ==
    ASSUME NEW rows, NEW more, NEW r, Grows(rows, more, r), NEW q
    PROVE  /\ Cardinality(About(rows, q)) \in Nat
           /\ Cardinality(About(more, q)) = Cardinality(About(rows, q)) + (IF r = q THEN 1 ELSE 0)
<1>1. PICK n \in Nat : /\ DOMAIN rows = 1 .. n
                       /\ DOMAIN more = 1 .. (n + 1)
                       /\ \A x \in 1 .. n : more[x] = rows[x]
                       /\ more[n + 1].revision = r
  BY DEF Grows
<1>2. QED
  BY <1>1, RowsGrow

\* An export or a delivery adds one to its count and one to the rows of its table.
LEMMA ActExplained ==
    ASSUME IInv, TimelineExplains, NEW type \in Acts,
           NEW r, NEW actor, NewEvent(type, r, actor), UNCHANGED <<state, revisions>>,
           IF type = "EXPORTED" THEN Grows(exports, exports', r) ELSE exports' = exports,
           IF type = "DELIVERY_RECORDED" THEN Grows(deliveries, deliveries', r)
                                         ELSE deliveries' = deliveries
    PROVE  TimelineExplains'
<1>1. type \notin Creations
  BY DEF Acts, Creations
<1>2. Chained' /\ EndsInState'
  BY TimelineParts, ActKeepsChain
<1>3. ASSUME NEW q \in DOMAIN revisions'
      PROVE  CountsAgree(q)'
  <2>1. CountsAgree(q)
    BY TimelineParts
  <2>2. Cardinality(Indices(Creations, q))' = Cardinality(Indices(Creations, q))
    <3> HIDE DEF Creations
    <3>1. QED
      BY <1>1, IndicesGrow
  <2>3. Cardinality(Indices({"EXPORTED"}, q))' = Cardinality(About(exports', q))
    <3>1. Cardinality(Indices({"EXPORTED"}, q)) = Cardinality(About(exports, q))
      BY <2>1 DEF CountsAgree
    <3>2. Cardinality(Indices({"EXPORTED"}, q))'
            = Cardinality(Indices({"EXPORTED"}, q))
                + (IF type \in {"EXPORTED"} /\ r = q THEN 1 ELSE 0)
      BY IndicesGrow
    <3>3. CASE type = "EXPORTED"
      BY <3>1, <3>2, <3>3, GrowthCounted
    <3>4. CASE type # "EXPORTED"
      <4>1. Cardinality(Indices({"EXPORTED"}, q)) \in Nat
        BY IndicesGrow
      <4>2. QED
        BY <3>1, <3>2, <3>4, <4>1
    <3>5. QED
      BY <3>3, <3>4
  <2>4. Cardinality(Indices({"DELIVERY_RECORDED"}, q))' = Cardinality(About(deliveries', q))
    <3>1. Cardinality(Indices({"DELIVERY_RECORDED"}, q)) = Cardinality(About(deliveries, q))
      BY <2>1 DEF CountsAgree
    <3>2. Cardinality(Indices({"DELIVERY_RECORDED"}, q))'
            = Cardinality(Indices({"DELIVERY_RECORDED"}, q))
                + (IF type \in {"DELIVERY_RECORDED"} /\ r = q THEN 1 ELSE 0)
      BY IndicesGrow
    <3>3. CASE type = "DELIVERY_RECORDED"
      BY <3>1, <3>2, <3>3, GrowthCounted
    <3>4. CASE type # "DELIVERY_RECORDED"
      <4>1. Cardinality(Indices({"DELIVERY_RECORDED"}, q)) \in Nat
        BY IndicesGrow
      <4>2. QED
        BY <3>1, <3>2, <3>4, <4>1
    <3>5. QED
      BY <3>3, <3>4
  <2>5. QED
    BY <2>1, <2>2, <2>3, <2>4 DEF CountsAgree
<1>4. QED
  BY <1>2, <1>3, TimelinePartsNext

LEMMA SubmitExplained ==
    ASSUME IInv, TimelineExplains, NEW u \in Users, SubmitForReview(u)
    PROVE  TimelineExplains'
<1>1. /\ TypeOK /\ state = "DRAFT" /\ state' = "PENDING_REVIEW"
      /\ UNCHANGED <<revisions, exports, deliveries>>
      /\ Record("SUBMITTED_FOR_REVIEW", state, "PENDING_REVIEW", Latest, u)
  BY DEF IInv, SubmitForReview, Transition
<1>2. Latest \in Nat \ {0} /\ events \in Seq(Event)
  BY <1>1, CurrentIsTyped DEF TypeOK
<1>3. NewEvent("SUBMITTED_FOR_REVIEW", Latest, u)
  BY <1>1, <1>2, Recorded DEF TypeOK, EventTypes, States
<1>4. Leads(state, state')
  BY <1>1, <1>2, RecordLeads
<1>5. QED
  BY <1>1, <1>3, <1>4, ReviewMoveExplained

LEMMA DecisionExplained ==
    ASSUME IInv, Params, TimelineExplains, NEW h \in Handlers, Approve(h) \/ Reject(h)
    PROVE  TimelineExplains'
<1> DEFINE u == handler[h].by
<1>1. PICK type \in Decisions :
         /\ state = "PENDING_REVIEW" /\ state' = type
         /\ handler[h].pc = "reviewing"
         /\ UNCHANGED <<revisions, exports, deliveries>>
         /\ Record(type, state, type, Latest, u)
  BY DEF Approve, Reject, Transition, Decisions
<1>2. u \in Users
  BY <1>1 DEF IInv, RequestsRemember, Remembers, Params, ParamsAssumption
<1>3. Latest \in Nat \ {0} /\ events \in Seq(Event)
  BY <1>1, CurrentIsTyped DEF IInv, TypeOK
<1> HIDE DEF u
<1>4. NewEvent(type, Latest, u)
  BY <1>1, <1>2, <1>3, Recorded DEF EventTypes, States, Decisions
<1>5. Leads(state, state')
  BY <1>1, <1>3, RecordLeads
<1>6. state' # "ABSENT"
  BY <1>1 DEF Decisions
<1>7. QED
  BY <1>1, <1>4, <1>5, <1>6, ReviewMoveExplained

LEMMA WriteEditExplained ==
    ASSUME IInv, TimelineExplains, NEW h \in Handlers, WriteEdit(h)
    PROVE  TimelineExplains'
<1> DEFINE u == handler[h].by
           row == [content |-> handler[h].content, by |-> u]
           Row == [content: Content, by: Users]
<1>1. /\ TypeOK /\ state' = "DRAFT"
      /\ UNCHANGED <<exports, deliveries>>
      /\ revisions' = Append(revisions, row)
      /\ Record("REVISION_CREATED", state, "DRAFT", Latest + 1, u)
  BY DEF IInv, WriteEdit, NewRevision, Transition
<1>2. u \in Users /\ row \in Row
  BY DEF IInv, WriteEdit, NewRevision, RequestsRemember, Remembers
<1>3. revisions \in Seq(Row) /\ events \in Seq(Event) /\ state \in States
  BY <1>1 DEF TypeOK
<1> HIDE DEF u, row, Row
<1>4. /\ Latest \in Nat /\ Latest + 1 \in Nat \ {0}
      /\ Latest + 1 \notin DOMAIN revisions
      /\ DOMAIN revisions' = DOMAIN revisions \cup {Latest + 1}
  BY <1>1, <1>2, <1>3 DEF Latest
<1>5. NewEvent("REVISION_CREATED", Latest + 1, u)
  BY <1>1, <1>2, <1>3, <1>4, Recorded DEF EventTypes, States
<1>6. Leads(state, state')
  BY <1>1, <1>3, RecordLeads
<1>7. "REVISION_CREATED" \in Creations
  BY DEF Creations
<1>8. QED
  BY <1>1, <1>4, <1>5, <1>6, <1>7, CreationExplained

LEMMA CreateDraftExplained ==
    ASSUME IInv, TimelineExplains, NEW u \in Users, NEW content \in Content,
           CreateDraftFromCase(u, content)
    PROVE  TimelineExplains'
<1>1. /\ TypeOK /\ state = "ABSENT" /\ state' = "DRAFT"
      /\ UNCHANGED <<exports, deliveries>>
      /\ revisions' = <<[content |-> content, by |-> u]>>
      /\ Record("DRAFT_CREATED", state, "DRAFT", 1, u)
  BY DEF IInv, CreateDraftFromCase, Transition
<1>2. revisions = <<>> /\ events \in Seq(Event)
  BY <1>1 DEF TypeOK
<1>3. 1 \notin DOMAIN revisions /\ DOMAIN revisions' = DOMAIN revisions \cup {1}
  BY <1>1, <1>2
<1>4. NewEvent("DRAFT_CREATED", 1, u)
  <2>1. 1 \in Nat \ {0} /\ "DRAFT_CREATED" \in EventTypes
        /\ state \in States /\ "DRAFT" \in States \ {"ABSENT"}
    BY <1>1 DEF EventTypes, States
  <2>2. QED
    BY <1>1, <1>2, <2>1, Recorded
<1>5. Leads(state, state')
  BY <1>1, <1>2, RecordLeads
<1>6. "DRAFT_CREATED" \in Creations
  BY DEF Creations
<1>7. QED
  BY <1>1, <1>3, <1>4, <1>5, <1>6, CreationExplained

LEMMA ExportExplained ==
    ASSUME IInv, TimelineExplains, NEW u \in Users, ExportNotification(u)
    PROVE  TimelineExplains'
<1> DEFINE Row == [revision: Nat \ {0}, by: Users]
           row == [revision |-> Latest, by |-> u]
<1>1. /\ TypeOK /\ state = "APPROVED"
      /\ UNCHANGED <<state, revisions, deliveries>>
      /\ exports' = Append(exports, row)
      /\ Record("EXPORTED", state, state, Latest, u)
  BY DEF IInv, ExportNotification, ExportEligible
<1>2. Latest \in Nat \ {0} /\ events \in Seq(Event)
  BY <1>1, CurrentIsTyped DEF TypeOK
<1>3. NewEvent("EXPORTED", Latest, u)
  BY <1>1, <1>2, Recorded DEF EventTypes, States, Acts
<1>4. exports \in Seq(Row) /\ row \in Row /\ row.revision = Latest
  BY <1>1, <1>2 DEF TypeOK
<1> HIDE DEF Row, row
<1>5. Grows(exports, exports', Latest)
  BY <1>1, <1>4, AppendGrows
<1>6. "EXPORTED" \in Acts
  BY DEF Acts
<1>7. QED
  BY <1>1, <1>3, <1>5, <1>6, ActExplained

LEMMA ExportTyped ==
    ASSUME TypeOK, NEW x \in DOMAIN exports
    PROVE  /\ x \in Nat \ {0}
           /\ exports[x].revision \in DOMAIN revisions
           /\ exports[x].revision \in Nat \ {0}
<1> DEFINE Row == [revision: Nat \ {0}, by: Users]
<1>1. exports \in Seq(Row)
  BY DEF TypeOK
<1>2. \A row \in Row : row.revision \in Nat \ {0}
  OBVIOUS
<1> HIDE DEF Row
<1>3. x \in Nat \ {0} /\ exports[x] \in Row
  BY <1>1
<1>4. QED
  BY <1>2, <1>3 DEF TypeOK

LEMMA DeliveryExplained ==
    ASSUME IInv, TimelineExplains, NEW h \in Handlers, RecordDeliveryEvent(h)
    PROVE  TimelineExplains'
<1> DEFINE x == handler[h].export
           r == exports[x].revision
           Row == [export: Nat \ {0}, revision: Nat \ {0}]
           row == [export |-> x, revision |-> r]
<1>1. /\ TypeOK
      /\ UNCHANGED <<state, revisions, exports>>
      /\ deliveries' = Append(deliveries, row)
      /\ Record("DELIVERY_RECORDED", handler[h].state, handler[h].state, r, handler[h].by)
  BY DEF IInv, RecordDeliveryEvent
<1>2. x \in DOMAIN exports /\ handler[h].by \in Users /\ handler[h].state \in States \ {"ABSENT"}
  <2>1. handler[h] \in Handler
    BY <1>1 DEF TypeOK
  <2>2. QED
    BY <2>1 DEF IInv, RequestsRemember, Remembers, RecordDeliveryEvent, Handler
<1>3. r \in DOMAIN revisions /\ r \in Nat \ {0} /\ x \in Nat \ {0}
  BY <1>1, <1>2, ExportTyped
<1>4. deliveries \in Seq(Row) /\ row \in Row /\ row.revision = r
  BY <1>1, <1>3 DEF TypeOK
<1> HIDE DEF Row, row, r, x
<1>5. "DELIVERY_RECORDED" \in Acts /\ "DELIVERY_RECORDED" \in EventTypes
  BY DEF Acts, EventTypes
<1>6. NewEvent("DELIVERY_RECORDED", r, handler[h].by)
  BY <1>1, <1>2, <1>3, <1>5, Recorded DEF TypeOK
<1>7. Grows(deliveries, deliveries', r)
  BY <1>1, <1>4, AppendGrows
<1>8. QED
  BY <1>1, <1>5, <1>6, <1>7, ActExplained

LEMMA NothingToExplain ==
    ASSUME TimelineExplains, UNCHANGED <<state, revisions, events, exports, deliveries>>
    PROVE  TimelineExplains'
<1>1. Moves' = Moves
  BY DEF Moves
<1>2. Chained' /\ EndsInState'
  BY <1>1, TimelineParts DEF Chained, EndsInState
<1>3. ASSUME NEW q \in DOMAIN revisions'
      PROVE  CountsAgree(q)'
  <2>1. ASSUME NEW T
        PROVE  Indices(T, q)' = Indices(T, q)
    BY DEF Indices
  <2>2. CountsAgree(q)
    BY TimelineParts
  <2>3. About(exports', q) = About(exports, q) /\ About(deliveries', q) = About(deliveries, q)
    OBVIOUS
  <2>4. /\ Indices(Creations, q)' = Indices(Creations, q)
        /\ Indices({"EXPORTED"}, q)' = Indices({"EXPORTED"}, q)
        /\ Indices({"DELIVERY_RECORDED"}, q)' = Indices({"DELIVERY_RECORDED"}, q)
    BY <2>1
  <2>5. QED
    BY <2>2, <2>3, <2>4 DEF CountsAgree
<1>4. QED
  BY <1>2, <1>3, TimelinePartsNext

LEMMA StepExplains == IInv /\ Params /\ TimelineExplains /\ [Next]_vars => TimelineExplains'
<1> SUFFICES ASSUME IInv, Params, TimelineExplains, [Next]_vars
             PROVE  TimelineExplains'
  OBVIOUS
<1>1. CASE \E u \in Users : UserStep(u)
  BY <1>1, CreateDraftExplained, SubmitExplained, ExportExplained DEF UserStep
<1>2. CASE \E h \in Handlers : HandlerStep(h)
  <2> PICK h \in Handlers : HandlerStep(h)
    BY <1>2
  <2>1. CASE \/ \E u \in Users :
                  \/ \E sent \in SUBSET Fields, patch \in Content : BeginEdit(h, u, sent, patch)
                  \/ OpenForReview(h, u)
                  \/ \E x \in 1 .. MaxExports : BeginDelivery(h, u, x)
             \/ Abandon(h)
    BY <2>1, NothingToExplain DEF BeginEdit, OpenForReview, BeginDelivery, Abandon, Remember
  <2>2. CASE WriteEdit(h) \/ Approve(h) \/ Reject(h) \/ RecordDeliveryEvent(h)
    BY <2>2, WriteEditExplained, DecisionExplained, DeliveryExplained
  <2>3. QED
    BY <2>1, <2>2 DEF HandlerStep
<1>3. CASE UNCHANGED vars
  BY <1>3, NothingToExplain DEF vars
<1>4. QED
  BY <1>1, <1>2, <1>3 DEF Next

\* The timeline explains the notification, whatever happened to it: its transitions form a
\* chain that ends in the present state, and every revision, export and delivery has its
\* event, one each.
THEOREM TimelinesExplain == Spec => []TimelineExplains
<1>1. Init => TimelineExplains
  BY FS_EmptySet DEF Init, TimelineExplains, Moves
<1>2. IInv /\ Params /\ TimelineExplains /\ [Next]_vars => TimelineExplains'
  BY StepExplains
<1>3. QED
  BY <1>1, <1>2, Params, Inductive, PTL DEF Spec

-----------------------------------------------------------------------------
(* The risk score. *)

\* The rows, in the order they were written.
Occurrence == [at: Instants, action: {"CREATED", "PERSISTED", "RECURRED", "HISTORICAL"}]
Answer == [at: Instants, status: {"SUCCESS", "NOT_FOUND"}, confidence: Confidences \cup {-1}]
RowsTyped == occurrences \in Seq(Occurrence) /\ answers \in Seq(Answer)

\* A request at work knows its instant.
ScorersTimed == \A r \in Requests : req[r].pc \notin {"idle", "done"} => req[r].asOf \in Instants

\* The contributions stored are those of the inputs stored with them.
ScoreExplained == current.contributions = Contributions(current.inputs)

\* A request that changed the evidence and is yet to rescore.  A mere rescore does not count:
\* it may be lost without anybody noticing.
ScoreOwed == \E r \in Requests : req[r].pc \in {"answered", "rescoring"} /\ req[r].kind # "MANUAL"

ScoreCurrent ==
    \/ excused = TRUE
    \/ ScoreOwed
    \/ current.contributions = Contributions(Inputs(latest))

Since(asOf) == UnresolvedSince(asOf)
Reports(asOf) == Cardinality(Seen(asOf))
Returns(asOf) == Cardinality(Returned(asOf))

DaysFit(days) == days \in Int /\ (days = -1 \/ 0 <= days) /\ days <= 3650

\* What the score counted is still there to be counted; and as long as the finding has not
\* returned once more, the episode began no later than the score says.
CountsStand ==
    /\ current.inputs.observations \in Nat /\ current.inputs.observations <= Reports(current.asOf)
    /\ current.inputs.recurrences \in Nat /\ current.inputs.recurrences <= Returns(current.asOf)
    /\ DaysFit(current.inputs.days)
    /\ (Returns(current.asOf) <= current.inputs.recurrences /\ current.inputs.days # -1) =>
          current.inputs.days <= current.asOf - Since(current.asOf)
    /\ current.inputs.status \in {"OPEN", "CLOSED"}
    /\ current.inputs.kev \in {"LISTED", "UNLISTED", "UNKNOWN"}

RiskInv ==
    /\ ScoreParamsAssumption
    /\ ScoreTypeOK
    /\ RowsTyped
    /\ ScorersTimed
    /\ ScoreExplained
    /\ ScoreCurrent
    /\ CountsStand

-----------------------------------------------------------------------------
(* Least and greatest instants. *)

LEMMA LeastNatural ==
    ASSUME NEW T \in SUBSET Nat, T # {}
    PROVE  \E x \in T : \A y \in T : x <= y
<1> DEFINE Below == {p \in Nat \X Nat : p[1] < p[2]}
<1>1. IsWellFoundedOn(Below, Nat)
  BY NatLessThanWellFounded DEF OpToRel
<1>2. \A y, x \in Nat : <<y, x>> \in Below <=> y < x
  OBVIOUS
<1> HIDE DEF Below
<1>3. PICK x \in T : \A y \in T : ~ (<<y, x>> \in Below)
  BY <1>1, WFMin
<1>4. ASSUME NEW y \in T PROVE x <= y
  <2>1. x \in Nat /\ y \in Nat
    OBVIOUS
  <2>2. ~ (y < x)
    BY <1>2, <1>3, <2>1
  <2> QED BY <2>1, <2>2
<1> QED BY <1>4

LEMMA MinIsLeast ==
    ASSUME NEW T \in SUBSET Nat, T # {}
    PROVE  Min(T) \in T /\ \A y \in T : Min(T) <= y
BY LeastNatural DEF Min

\* A set of ids without a greatest one is not finite: take away one id of a smallest
\* such set.
LEMMA MaxIsGreatest ==
    ASSUME NEW T \in SUBSET Nat, IsFiniteSet(T), T # {}
    PROVE  Max(T) \in T /\ \A y \in T : y <= Max(T)
<1> DEFINE Topped(U) == \E x \in U : \A y \in U : y <= x
<1> DEFINE Bare == {U \in SUBSET T : U # {} /\ ~ Topped(U)}
<1>1. ASSUME Bare # {} PROVE FALSE
  <2> DEFINE Sizes == {Cardinality(U) : U \in Bare}
  <2>1. \A U \in SUBSET T : IsFiniteSet(U) /\ Cardinality(U) \in Nat
    BY FS_Subset, FS_CardinalityType
  <2>2. Sizes \in SUBSET Nat /\ Sizes # {}
    BY <1>1, <2>1
  <2>3. PICK n \in Sizes : \A k \in Sizes : n <= k
    BY <2>2, LeastNatural
  <2>4. PICK U \in Bare : Cardinality(U) = n
    BY <2>3
  <2>5. PICK x \in U : TRUE
    BY <2>4
  <2> DEFINE V == U \ {x}
  <2>6. IsFiniteSet(U) /\ Cardinality(U) \in Nat /\ V \in SUBSET T
    BY <2>1, <2>4
  <2>7. Cardinality(V) = Cardinality(U) - 1
    BY <2>5, <2>6, FS_RemoveElement
  <2>8. V \notin Bare
    <3>1. SUFFICES ASSUME V \in Bare PROVE FALSE
      OBVIOUS
    <3>2. Cardinality(V) \in Sizes
      BY <3>1
    <3> HIDE DEF V, Sizes, Bare
    <3> QED BY <2>3, <2>4, <2>6, <2>7, <3>2
  <2>9. U \subseteq Nat /\ x \in Nat
    BY <2>6, <2>4, <2>5
  <2>10. CASE V = {}
    <3>1. \A y \in U : y <= x
      BY <2>9, <2>10
    <3> QED BY <2>4, <3>1
  <2>11. CASE V # {}
    <3>1. PICK z \in V : \A y \in V : y <= z
      BY <2>6, <2>8, <2>11
    <3>2. CASE x <= z
      <4>1. \A y \in U : y <= z
        BY <3>1, <3>2
      <4> QED BY <2>4, <4>1
    <3>3. CASE z <= x
      <4>1. \A y \in U : y <= x
        BY <2>9, <3>1, <3>3
      <4> QED BY <2>4, <4>1
    <3>4. x \in Nat /\ z \in Nat
      BY <2>9
    <3> QED BY <3>2, <3>3, <3>4
  <2> QED BY <2>10, <2>11
<1>2. \E x \in T : \A y \in T : x >= y
  <2>1. PICK x \in T : \A y \in T : y <= x
    BY <1>1
  <2>2. \A y \in T : x >= y
    BY <2>1
  <2> QED BY <2>2
<1>3. Max(T) \in T /\ \A y \in T : Max(T) >= y
  BY <1>2 DEF Max
<1> QED BY <1>3

-----------------------------------------------------------------------------
(* What a factor contributes.                                              *)

Share(points, cap) == points \in Nat /\ points <= cap

\* A value that a table covers brings the points of a bucket, any other nothing.
LEMMA BucketedWithin ==
    ASSUME NEW buckets, NEW cap \in Nat, \A b \in buckets : Share(b.points, cap),
           NEW value, NEW basis
    PROVE  Share(Bucketed(buckets, value, basis).points, cap)
<1>1. CASE Covering(buckets, value) = {}
  BY <1>1 DEF Bucketed, NotAvailable, Share
<1>2. CASE Covering(buckets, value) # {}
  <2> DEFINE b == CHOOSE x \in Covering(buckets, value) : TRUE
  <2>1. b \in buckets
    BY <1>2 DEF Covering
  <2>2. Bucketed(buckets, value, basis).points = b.points
    BY <1>2 DEF Bucketed, Applied
  <2> HIDE DEF b
  <2> QED BY <2>1, <2>2
<1> QED BY <1>1, <1>2

\* The only bucket that covers a value decides.
LEMMA BucketedBy ==
    ASSUME NEW buckets, NEW value, NEW basis, NEW b, Covering(buckets, value) = {b}
    PROVE  Bucketed(buckets, value, basis).points = b.points
BY DEF Bucketed, Applied

LEMMA BucketedByNone ==
    ASSUME NEW buckets, NEW value, NEW basis, Covering(buckets, value) = {}
    PROVE  Bucketed(buckets, value, basis).points = 0
BY DEF Bucketed, NotAvailable

DaysPoints(n) == IF n < 7 THEN 0 ELSE IF n < 30 THEN 400 ELSE IF n < 90 THEN 800 ELSE 1200
ReportPoints(n) == IF n < 2 THEN 0 ELSE IF n < 4 THEN 400 ELSE IF n < 8 THEN 800 ELSE 1200

\* The tables have no gap and no overlap.
LEMMA DaysBucketed ==
    ASSUME NEW n \in Nat, NEW basis
    PROVE  Bucketed(DaysUnresolvedBuckets, n, basis).points = DaysPoints(n)
<1> DEFINE B == DaysUnresolvedBuckets
           b == Bucket(IF n < 7 THEN 0 ELSE IF n < 30 THEN 7 ELSE IF n < 90 THEN 30 ELSE 90,
                            IF n < 7 THEN 6 ELSE IF n < 30 THEN 29 ELSE IF n < 90 THEN 89 ELSE -1,
                            DaysPoints(n))
<1>1. Covering(B, n) = {b}
  BY DEF Covering, DaysUnresolvedBuckets, Bucket, NoLimit, DaysPoints
<1>2. b.points = DaysPoints(n)
  BY DEF Bucket
<1> HIDE DEF B, b
<1>3. Bucketed(B, n, basis).points = b.points
  BY <1>1, BucketedBy, Zenon
<1> QED BY <1>2, <1>3 DEF B

LEMMA ReportsBucketed ==
    ASSUME NEW n \in Nat, NEW basis
    PROVE  Bucketed(PersistenceBuckets, n, basis).points = ReportPoints(n)
<1> DEFINE B == PersistenceBuckets
<1>1. CASE n = 0
  <2>1. Covering(B, n) = {}
    BY <1>1 DEF Covering, PersistenceBuckets, Bucket, NoLimit
  <2>2. Bucketed(B, n, basis).points = 0
    BY <2>1, BucketedByNone
  <2> QED BY <1>1, <2>2 DEF ReportPoints
<1>2. CASE n > 0
  <2> DEFINE b == Bucket(IF n < 2 THEN 1 ELSE IF n < 4 THEN 2 ELSE IF n < 8 THEN 4 ELSE 8,
                              IF n < 2 THEN 1 ELSE IF n < 4 THEN 3 ELSE IF n < 8 THEN 7 ELSE -1,
                              ReportPoints(n))
  <2>1. Covering(B, n) = {b}
    BY <1>2 DEF Covering, PersistenceBuckets, Bucket, NoLimit, ReportPoints
  <2>2. b.points = ReportPoints(n)
    BY DEF Bucket
  <2> HIDE DEF B, b
  <2>3. Bucketed(B, n, basis).points = b.points
    BY <2>1, BucketedBy, Zenon
  <2> QED BY <2>2, <2>3 DEF B
<1> QED BY <1>1, <1>2

\* More days, or more reports, never bring fewer points.
LEMMA PointsGrow ==
    ASSUME NEW m \in Nat, NEW n \in Nat, m <= n
    PROVE  DaysPoints(m) <= DaysPoints(n) /\ ReportPoints(m) <= ReportPoints(n)
BY DEF DaysPoints, ReportPoints

KevValues == {"LISTED", "UNLISTED", "UNKNOWN"}

\* Each factor keeps to its share of the scale, whatever the evidence.
Capped(c) ==
    /\ Share(c.sourceSeverity.points, 800)
    /\ Share(c.exposureCriticality.points, 1500)
    /\ Share(c.persistence.points, 1200)
    /\ Share(c.recurrence.points, 1300)
    /\ Share(c.daysUnresolved.points, 1200)
    /\ Share(c.iocReputationContext.points, 1200)
    /\ Share(c.sectorCriticality.points, 1300)
    /\ Share(c.cvePresence.points, 300)
    /\ Share(c.kevStatus.points, 800)
    /\ Share(c.epssScore.points, 400)

LEMMA ContributionsCapped ==
    ASSUME NEW i, i.kev \in KevValues
    PROVE  Capped(Contributions(i))
<1>1. Share(Applied(SourceSeverity, <<>>).points, 800)
  BY DEF SourceSeverity, Applied, Share
<1>2. Share(EvaluateExposureCriticality.points, 1500)
  BY DEF EvaluateExposureCriticality, RdpCriticality, Applied, NotAvailable, Share
<1>3. ASSUME NEW v, NEW w PROVE Share(Bucketed(PersistenceBuckets, v, w).points, 1200)
  <2> DEFINE B == PersistenceBuckets
  <2>1. \A b \in B : Share(b.points, 1200)
    BY DEF PersistenceBuckets, Bucket, Share
  <2> HIDE DEF B
  <2>2. Share(Bucketed(B, v, w).points, 1200)
    BY <2>1, BucketedWithin
  <2> QED BY <2>2 DEF B
<1>4. ASSUME NEW v, NEW w PROVE Share(Bucketed(RecurrenceBuckets, v, w).points, 1300)
  <2> DEFINE B == RecurrenceBuckets
  <2>1. \A b \in B : Share(b.points, 1300)
    BY DEF RecurrenceBuckets, Bucket, Share
  <2> HIDE DEF B
  <2>2. Share(Bucketed(B, v, w).points, 1300)
    BY <2>1, BucketedWithin
  <2> QED BY <2>2 DEF B
<1>5. ASSUME NEW v, NEW w PROVE Share(Bucketed(DaysUnresolvedBuckets, v, w).points, 1200)
  <2> DEFINE B == DaysUnresolvedBuckets
  <2>1. \A b \in B : Share(b.points, 1200)
    BY DEF DaysUnresolvedBuckets, Bucket, Share
  <2> HIDE DEF B
  <2>2. Share(Bucketed(B, v, w).points, 1200)
    BY <2>1, BucketedWithin
  <2> QED BY <2>2 DEF B
<1>6. ASSUME NEW v, NEW w PROVE Share(Bucketed(IocReputationBuckets, v, w).points, 1200)
  <2> DEFINE B == IocReputationBuckets
  <2>1. \A b \in B : Share(b.points, 1200)
    BY DEF IocReputationBuckets, Bucket, Share
  <2> HIDE DEF B
  <2>2. Share(Bucketed(B, v, w).points, 1200)
    BY <2>1, BucketedWithin
  <2> QED BY <2>2 DEF B
<1>7. ASSUME NEW v, NEW w PROVE Share(Bucketed(EpssBuckets, v, w).points, 400)
  <2> DEFINE B == EpssBuckets
  <2>1. \A b \in B : Share(b.points, 400)
    BY DEF EpssBuckets, Bucket, Share
  <2> HIDE DEF B
  <2>2. Share(Bucketed(B, v, w).points, 400)
    BY <2>1, BucketedWithin
  <2> QED BY <2>2 DEF B
<1>8. Share(EvaluateDaysUnresolved(i).points, 1200)
  BY <1>5 DEF EvaluateDaysUnresolved, NotApplicable, Share
<1>9. Share(EvaluateIocReputation(i).points, 1200)
  BY <1>6 DEF EvaluateIocReputation, NotAvailable, Share
<1>10. Share(EvaluateSectorCriticality(i).points, 1300)
  <2>1. \A s \in DOMAIN SectorContributions : Share(SectorContributions[s], 1300)
    BY DEF SectorContributions, Share
  <2> QED BY <2>1 DEF EvaluateSectorCriticality, Applied, NotAvailable, Share
<1>11. Share(EvaluateCvePresence(i).points, 300)
  BY DEF EvaluateCvePresence, CvePresence, Applied, NotApplicable, Share
<1>12. Share(EvaluateKevStatus(i).points, 800)
  BY DEF EvaluateKevStatus, KevListed, KevValues, Applied, NotAvailable, NotApplicable, Share
<1>13. Share(EvaluateEpssScore(i).points, 400)
  BY <1>7 DEF EvaluateEpssScore, NotApplicable, Share
<1> DEFINE c == Contributions(i)
<1>14. Share(c.sourceSeverity.points, 800)
  <2>1. c.sourceSeverity = Applied(SourceSeverity, <<>>)
    BY Zenon DEF Contributions
  <2> HIDE DEF c
  <2> QED BY <1>1, <2>1
<1>15. Share(c.exposureCriticality.points, 1500)
  <2>1. c.exposureCriticality = EvaluateExposureCriticality
    BY Zenon DEF Contributions
  <2> HIDE DEF c
  <2> QED BY <1>2, <2>1
<1>16. Share(c.persistence.points, 1200)
  <2>1. c.persistence = Bucketed(PersistenceBuckets, i.observations, <<i.observations>>)
    BY Zenon DEF Contributions
  <2> HIDE DEF c
  <2> QED BY <1>3, <2>1
<1>17. Share(c.recurrence.points, 1300)
  <2>1. c.recurrence = Bucketed(RecurrenceBuckets, i.recurrences, <<i.recurrences>>)
    BY Zenon DEF Contributions
  <2> HIDE DEF c
  <2> QED BY <1>4, <2>1
<1>18. Share(c.daysUnresolved.points, 1200)
  <2>1. c.daysUnresolved = EvaluateDaysUnresolved(i)
    BY Zenon DEF Contributions
  <2> HIDE DEF c
  <2> QED BY <1>8, <2>1
<1>19. Share(c.iocReputationContext.points, 1200)
  <2>1. c.iocReputationContext = EvaluateIocReputation(i)
    BY Zenon DEF Contributions
  <2> HIDE DEF c
  <2> QED BY <1>9, <2>1
<1>20. Share(c.sectorCriticality.points, 1300)
  <2>1. c.sectorCriticality = EvaluateSectorCriticality(i)
    BY Zenon DEF Contributions
  <2> HIDE DEF c
  <2> QED BY <1>10, <2>1
<1>21. Share(c.cvePresence.points, 300)
  <2>1. c.cvePresence = EvaluateCvePresence(i)
    BY Zenon DEF Contributions
  <2> HIDE DEF c
  <2> QED BY <1>11, <2>1
<1>22. Share(c.kevStatus.points, 800)
  <2>1. c.kevStatus = EvaluateKevStatus(i)
    BY Zenon DEF Contributions
  <2> HIDE DEF c
  <2> QED BY <1>12, <2>1
<1>23. Share(c.epssScore.points, 400)
  <2>1. c.epssScore = EvaluateEpssScore(i)
    BY Zenon DEF Contributions
  <2> HIDE DEF c
  <2> QED BY <1>13, <2>1
<1> HIDE DEF c
<1>24. Capped(c)
  BY <1>14, <1>15, <1>16, <1>17, <1>18, <1>19, <1>20, <1>21, <1>22, <1>23 DEF Capped
<1> QED BY <1>24 DEF c

\* The shares add up to the scale.
LEMMA SharesAddUp ==
    ASSUME NEW c, Capped(c)
    PROVE  Share(RawTotal(c), 10000)
<1> DEFINE p1 == c.sourceSeverity.points
           p2 == c.exposureCriticality.points
           p3 == c.persistence.points
           p4 == c.recurrence.points
           p5 == c.daysUnresolved.points
           p6 == c.iocReputationContext.points
           p7 == c.sectorCriticality.points
           p8 == c.cvePresence.points
           p9 == c.kevStatus.points
           p10 == c.epssScore.points
<1>1. RawTotal(c) = p1 + p2 + p3 + p4 + p5 + p6 + p7 + p8 + p9 + p10
  BY Zenon DEF RawTotal
<1>2. Share(p1, 800)
  BY DEF Capped
<1>3. Share(p2, 1500)
  BY DEF Capped
<1>4. Share(p3, 1200)
  BY DEF Capped
<1>5. Share(p4, 1300)
  BY DEF Capped
<1>6. Share(p5, 1200)
  BY DEF Capped
<1>7. Share(p6, 1200)
  BY DEF Capped
<1>8. Share(p7, 1300)
  BY DEF Capped
<1>9. Share(p8, 300)
  BY DEF Capped
<1>10. Share(p9, 800)
  BY DEF Capped
<1>11. Share(p10, 400)
  BY DEF Capped
<1> HIDE DEF p1, p2, p3, p4, p5, p6, p7, p8, p9, p10
<1>12. Share(p1 + p2 + p3 + p4 + p5 + p6 + p7 + p8 + p9 + p10, 10000)
  BY <1>2, <1>3, <1>4, <1>5, <1>6, <1>7, <1>8, <1>9, <1>10, <1>11 DEF Share
<1> QED BY <1>1, <1>12

-----------------------------------------------------------------------------
(* What is counted.                                                        *)

LEMMA Extremes ==
    ASSUME NEW a \in Nat, NEW b \in Nat
    PROVE  /\ Min({a, b}) \in {a, b} /\ Min({a, b}) <= a
           /\ Max({a, b}) \in {a, b} /\ Max({a, b}) >= a
<1> DEFINE T == {a, b}
<1>1. T \in SUBSET Nat /\ T # {} /\ IsFiniteSet(T)
  <2>1. IsFiniteSet({a})
    BY FS_Singleton
  <2>2. {a, b} = {a} \cup {b}
    OBVIOUS
  <2> QED BY <2>1, <2>2, FS_AddElement
<1>2. Min(T) \in T /\ \A y \in T : Min(T) <= y
  BY <1>1, MinIsLeast
<1>3. Max(T) \in T /\ \A y \in T : y <= Max(T)
  BY <1>1, MaxIsGreatest
<1>4. Max(T) \in Nat
  BY <1>1, <1>3
<1> QED BY <1>2, <1>3, <1>4

LEMMA InstantsAreDays ==
    ASSUME ScoreParamsAssumption
    PROVE  Instants \subseteq Nat /\ FirstDays \subseteq Instants
BY DEF ScoreParamsAssumption

\* The rows as of an instant are among those of a finite table.
LEMMA SeenCounted ==
    ASSUME RowsTyped, NEW a
    PROVE  /\ IsFiniteSet(Seen(a)) /\ Reports(a) \in Nat
           /\ IsFiniteSet(Returned(a)) /\ Returns(a) \in Nat
           /\ Returned(a) \subseteq Seen(a) /\ Seen(a) \subseteq DOMAIN occurrences
<1>1. DOMAIN occurrences = 1..Len(occurrences) /\ Len(occurrences) \in Nat
  BY DEF RowsTyped
<1>2. IsFiniteSet(1..Len(occurrences))
  BY <1>1, FS_Interval
<1>3. Returned(a) \subseteq Seen(a) /\ Seen(a) \subseteq DOMAIN occurrences
  BY DEF Seen, Returned
<1>4. IsFiniteSet(Seen(a)) /\ IsFiniteSet(Returned(a))
  BY <1>1, <1>2, <1>3, FS_Subset
<1> QED BY <1>3, <1>4, FS_CardinalityType DEF Reports, Returns

SeenFinite(a) ==
    /\ IsFiniteSet(Seen(a)) /\ Reports(a) \in Nat
    /\ IsFiniteSet(Returned(a)) /\ Returns(a) \in Nat

LEMMA SeenIsFinite ==
    ASSUME NEW a
    PROVE  RowsTyped => SeenFinite(a)
BY SeenCounted DEF SeenFinite

LEMMA SeenCountedNext ==
    ASSUME NEW a
    PROVE  RowsTyped' => SeenFinite(a)'
BY SeenIsFinite, PTL

LEMMA OccurrencesTyped ==
    ASSUME RowsTyped, NEW n \in DOMAIN occurrences
    PROVE  occurrences[n] \in Occurrence
BY DEF RowsTyped

\* The instants of the returns of the present episode.
ReturnDays(asOf) == {occurrences[n].at : n \in Returned(asOf)}

LEMMA SinceTyped ==
    ASSUME ScoreParamsAssumption, ScoreTypeOK, RowsTyped, NEW a
    PROVE  Since(a) \in Nat
<1>1. Instants \subseteq Nat
  BY InstantsAreDays
<1>2. CASE Returned(a) = {}
  BY <1>1, <1>2 DEF Since, UnresolvedSince, ScoreTypeOK
<1>3. CASE Returned(a) # {}
  <2>1. ReturnDays(a) \subseteq Instants
    BY SeenCounted, OccurrencesTyped DEF ReturnDays, Occurrence
  <2>2. IsFiniteSet(ReturnDays(a)) /\ ReturnDays(a) # {}
    <3> DEFINE R == Returned(a)
    <3>1. IsFiniteSet(R) /\ R # {}
      BY <1>3, SeenCounted
    <3> HIDE DEF R
    <3> DEFINE D == {occurrences[n].at : n \in R}
               f == [n \in R |-> occurrences[n].at]
    <3>2. f \in Surjection(R, D)
      BY DEF Surjection
    <3>3. IsFiniteSet(D)
      BY <3>1, <3>2, FS_Surjection
    <3>4. D # {}
      BY <3>1
    <3> QED BY <3>3, <3>4 DEF R, ReturnDays
  <2>3. Max(ReturnDays(a)) \in Nat
    BY <1>1, <2>1, <2>2, MaxIsGreatest
  <2> QED BY <1>3, <2>3 DEF Since, UnresolvedSince, ReturnDays
<1> QED BY <1>2, <1>3

\* The fields of what is read for a score.
LEMMA InputsRead ==
    ASSUME ScoreParamsAssumption, ScoreTypeOK, RowsTyped, NEW a \in Instants
    PROVE  LET i == Inputs(a) IN
           /\ i.status = finding.status
           /\ i.observations = Reports(a)
           /\ i.recurrences = Returns(a)
           /\ i.kev \in KevValues
           /\ DaysFit(i.days)
           /\ i.days # -1 => i.days <= a - Since(a)
           /\ finding.status = "OPEN" /\ Since(a) <= a =>
                 i.days = IF a - Since(a) > 3650 THEN 3650 ELSE a - Since(a)
<1> DEFINE i == Inputs(a)
<1>1. /\ i.status = finding.status /\ i.observations = Reports(a) /\ i.recurrences = Returns(a)
      /\ i.kev = Kev /\ i.days = DaysUnresolved(a)
  BY DEF Inputs, Reports, Returns
<1> HIDE DEF i
<1>2. Kev \in KevValues
  BY DEF Kev, KevValues
<1>3. Since(a) \in Nat /\ a \in Nat
  BY SinceTyped, InstantsAreDays
<1>4. /\ DaysFit(DaysUnresolved(a))
      /\ DaysUnresolved(a) # -1 => DaysUnresolved(a) <= a - Since(a)
      /\ finding.status = "OPEN" /\ Since(a) <= a =>
            DaysUnresolved(a) = IF a - Since(a) > 3650 THEN 3650 ELSE a - Since(a)
  <2> DEFINE days == a - Since(a)
  <2>1. days \in Int
    BY <1>3
  <2>2. DaysUnresolved(a) = IF finding.status # "OPEN" \/ days < 0 THEN -1
                                 ELSE IF days > 3650 THEN 3650 ELSE days
    BY DEF DaysUnresolved, Since, Unset, MaxNormalizedDays
  <2>3. Since(a) <= a => days >= 0
    BY <1>3
  <2> HIDE DEF days
  <2>4. /\ DaysFit(DaysUnresolved(a))
        /\ DaysUnresolved(a) # -1 => DaysUnresolved(a) <= days
    BY <2>1, <2>2 DEF DaysFit
  <2>5. finding.status = "OPEN" /\ Since(a) <= a =>
            DaysUnresolved(a) = IF days > 3650 THEN 3650 ELSE days
    BY <2>1, <2>2, <2>3
  <2> QED BY <2>4, <2>5 DEF days
<1> QED BY <1>1, <1>2, <1>4 DEF i

\* Reports are added and never changed, and the first sighting moves back only.
Grown ==
    /\ DOMAIN occurrences \subseteq DOMAIN occurrences'
    /\ \A n \in DOMAIN occurrences : occurrences'[n] = occurrences[n]
    /\ finding'.firstSeen <= finding.firstSeen

LEMMA CountsGrow ==
    ASSUME ScoreParamsAssumption, ScoreTypeOK, ScoreTypeOK', RowsTyped, RowsTyped', Grown, NEW a
    PROVE  /\ Reports(a) <= Reports(a)' /\ Returns(a) <= Returns(a)'
           /\ Returns(a)' <= Returns(a) => Since(a)' <= Since(a)
<1>1. Seen(a) \subseteq Seen(a)' /\ Returned(a) \subseteq Returned(a)'
  BY DEF Grown, Seen, Returned
<1>2. /\ IsFiniteSet(Seen(a)) /\ IsFiniteSet(Returned(a))
      /\ Reports(a) \in Nat /\ Returns(a) \in Nat
  BY SeenCounted
<1>3. /\ IsFiniteSet(Seen(a)') /\ IsFiniteSet(Returned(a)')
      /\ Reports(a)' \in Nat /\ Returns(a)' \in Nat
  BY SeenCountedNext DEF SeenFinite
<1>4. Reports(a) <= Reports(a)' /\ Returns(a) <= Returns(a)'
  BY <1>1, <1>3, FS_Subset DEF Reports, Returns
<1>5. ASSUME Returns(a)' <= Returns(a) PROVE Since(a)' <= Since(a)
  <2>1. Returns(a)' = Returns(a)
    BY <1>2, <1>3, <1>4, <1>5
  <2>2. Returned(a)' = Returned(a)
    BY <1>1, <1>3, <2>1, FS_Subset DEF Returns
  <2>3. Returned(a) \subseteq DOMAIN occurrences
    BY SeenCounted
  <2>4. ReturnDays(a)' = ReturnDays(a)
    BY <2>2, <2>3 DEF ReturnDays, Grown
  <2>5. CASE Returned(a) = {}
    BY <2>2, <2>5 DEF Since, UnresolvedSince, Grown
  <2>6. CASE Returned(a) # {}
    <3>1. Since(a)' = Since(a)
      BY <2>2, <2>4, <2>6 DEF Since, UnresolvedSince, ReturnDays
    <3>2. Since(a) \in Nat
      BY SinceTyped
    <3> QED BY <3>1, <3>2
  <2> QED BY <2>5, <2>6
<1> QED BY <1>4, <1>5

-----------------------------------------------------------------------------
(* Every row stays well formed.                                            *)

ScorerShape == [pc: {"idle", "changing", "answered", "rescoring", "done"}, kind: Kinds,
                asOf: Instants \cup {0}]

\* What a step of r leaves of the requests.
Becomes(r, pc, kind, asOf) ==
    /\ req' \in [Requests -> ScorerShape]
    /\ req'[r].pc = pc /\ req'[r].kind = kind /\ req'[r].asOf = asOf
    /\ \A q \in Requests \ {r} : req'[q] = req[q]

LEMMA ShapeOfScorers ==
    ASSUME ScoreTypeOK
    PROVE  req \in [Requests -> ScorerShape]
BY DEF ScoreTypeOK, ScorerShape

LEMMA RescoringBecomes ==
    ASSUME ScoreTypeOK, NEW r \in Requests, NEW a \in Instants, GoesRescoring(r, a)
    PROVE  Becomes(r, "rescoring", req[r].kind, a)
<1>1. req \in [Requests -> ScorerShape] /\ req[r] \in ScorerShape
  BY ShapeOfScorers
<1> DEFINE new == [req[r] EXCEPT !.pc = "rescoring", !.asOf = a]
<1>2. new \in ScorerShape /\ new.pc = "rescoring" /\ new.kind = req[r].kind /\ new.asOf = a
  BY <1>1 DEF ScorerShape
<1>3. req' = [req EXCEPT ![r] = new]
  BY <1>1 DEF GoesRescoring
<1> HIDE DEF new
<1> QED BY <1>1, <1>2, <1>3 DEF Becomes

LEMMA EndingBecomes ==
    ASSUME ScoreTypeOK, NEW r \in Requests, Ends(r)
    PROVE  Becomes(r, "done", "MANUAL", 0)
<1>1. req \in [Requests -> ScorerShape]
  BY ShapeOfScorers
<1> DEFINE new == [NewRequest EXCEPT !.pc = "done"]
<1>2. new \in ScorerShape /\ new.pc = "done" /\ new.kind = "MANUAL" /\ new.asOf = 0
  BY DEF ScorerShape, NewRequest, Kinds
<1>3. req' = [req EXCEPT ![r] = new]
  BY <1>1 DEF Ends
<1> HIDE DEF new
<1> QED BY <1>1, <1>2, <1>3 DEF Becomes

LEMMA BeginningBecomes ==
    ASSUME ScoreTypeOK, NEW r \in Requests, Begin(r)
    PROVE  \E kind \in Kinds, pc \in {"changing", "rescoring"} :
              Becomes(r, pc, kind, clock)
<1>1. req \in [Requests -> ScorerShape] /\ clock \in Instants
  BY ShapeOfScorers DEF ScoreTypeOK
<1>2. PICK kind \in Kinds :
         req' = [req EXCEPT ![r] = [kind |-> kind, asOf |-> clock,
                        pc |-> IF kind = "MANUAL" THEN "rescoring" ELSE "changing"]]
  BY DEF Begin
<1> DEFINE pc == IF kind = "MANUAL" THEN "rescoring" ELSE "changing"
           new == [kind |-> kind, asOf |-> clock, pc |-> pc]
<1>3. new \in ScorerShape /\ new.pc = pc /\ new.kind = kind /\ new.asOf = clock
      /\ pc \in {"changing", "rescoring"}
  BY <1>1 DEF ScorerShape
<1>4. req' = [req EXCEPT ![r] = new]
  BY <1>2
<1> HIDE DEF new, pc
<1>5. Becomes(r, pc, kind, clock)
  BY <1>1, <1>3, <1>4 DEF Becomes
<1> QED BY <1>3, <1>5

LEMMA AnsweredBecomes ==
    ASSUME ScoreTypeOK, NEW r \in Requests, req' = [req EXCEPT ![r].pc = "answered"]
    PROVE  Becomes(r, "answered", req[r].kind, req[r].asOf)
<1>1. req \in [Requests -> ScorerShape] /\ req[r] \in ScorerShape
  BY ShapeOfScorers
<1> DEFINE new == [req[r] EXCEPT !.pc = "answered"]
<1>2. new \in ScorerShape /\ new.pc = "answered" /\ new.kind = req[r].kind /\ new.asOf = req[r].asOf
  BY <1>1 DEF ScorerShape
<1>3. req' = [req EXCEPT ![r] = new]
  BY <1>1
<1> HIDE DEF new
<1> QED BY <1>1, <1>2, <1>3 DEF Becomes

\* The instants of the requests at work stay instants.
LEMMA ScorersStayTimed ==
    ASSUME ScorersTimed, NEW r \in Requests, NEW pc, NEW kind, NEW a,
           pc \notin {"idle", "done"} => a \in Instants,
           Becomes(r, pc, kind, a)
    PROVE  ScorersTimed'
BY DEF ScorersTimed, Becomes

\* A new row at the end.
LEMMA OccurrenceAdded ==
    ASSUME RowsTyped, NEW x \in Occurrence, occurrences' = Append(occurrences, x),
           UNCHANGED answers
    PROVE  /\ RowsTyped'
           /\ DOMAIN occurrences \subseteq DOMAIN occurrences'
           /\ \A n \in DOMAIN occurrences : occurrences'[n] = occurrences[n]
BY DEF RowsTyped

LEMMA AnswerAdded ==
    ASSUME RowsTyped, NEW x \in Answer, answers' = Append(answers, x), UNCHANGED occurrences
    PROVE  RowsTyped'
BY DEF RowsTyped

\* What TypeOK says of the rows that RowsTyped does not.
FindingShape == [status: {"OPEN", "CLOSED"}, firstSeen: Instants, lastSeen: Instants,
                 through: Instants \cup {-1}]
OtherRowsTyped ==
    /\ clock \in Instants
    /\ finding \in FindingShape
    /\ owner \in Owners \cup {NoOwner}
    /\ cves \in [CVEs -> Evidence]
    /\ troubles \in 0..MaxTroubles
    /\ latest \in Instants
    /\ excused \in BOOLEAN
ScorersTyped == req \in [Requests -> ScorerShape]
ScoreTyped ==
    /\ current.asOf \in Instants
    /\ current.score = ScoreOf(current.contributions)

LEMMA TypeOfParts ==
    RowsTyped /\ OtherRowsTyped /\ ScoreTyped /\ ScorersTyped => ScoreTypeOK
<1> SUFFICES ASSUME RowsTyped, OtherRowsTyped, ScoreTyped, ScorersTyped
             PROVE  ScoreTypeOK
  OBVIOUS
<1>1. \A n \in DOMAIN occurrences : occurrences[n] \in Occurrence
  BY OccurrencesTyped
<1>2. \A n \in DOMAIN occurrences :
          /\ occurrences[n].at \in Instants
          /\ occurrences[n].action \in {"CREATED", "PERSISTED", "RECURRED", "HISTORICAL"}
  BY <1>1 DEF Occurrence
<1>3. \A n \in DOMAIN answers : answers[n] \in Answer
  BY DEF RowsTyped
<1>4. \A n \in DOMAIN answers : answers[n].at \in Instants
  BY <1>3 DEF Answer
<1> QED BY <1>2, <1>4 DEF ScoreTypeOK, OtherRowsTyped, ScoreTyped, ScorersTyped, ScorerShape, FindingShape, Unset

LEMMA PartsOfType == ScoreTypeOK => OtherRowsTyped /\ ScoreTyped
BY DEF ScoreTypeOK, OtherRowsTyped, ScoreTyped, FindingShape, Unset

LEMMA TypeOfPartsNext ==
    RowsTyped' /\ OtherRowsTyped' /\ ScoreTyped' /\ ScorersTyped' => ScoreTypeOK'
BY TypeOfParts, PTL

-----------------------------------------------------------------------------
(* One step.                                                               *)

\* A step that neither changes nor reads the score: it adds to the evidence at most, and what
\* it changes it will rescore, or nobody will.
Leaves(r, pc, kind, a) ==
    /\ Becomes(r, pc, kind, a)
    /\ pc \notin {"idle", "done"} => a \in Instants
    /\ UNCHANGED <<current, latest>>

\* What was owed still is, when the step ends a request that owed nothing, or excuses it.
LEMMA OwedStays ==
    ASSUME NEW r \in Requests, NEW pc, NEW kind, NEW a, Becomes(r, pc, kind, a), ScoreOwed,
           req[r].pc \in {"answered", "rescoring"} /\ req[r].kind # "MANUAL" =>
              pc \in {"answered", "rescoring"} /\ kind # "MANUAL"
    PROVE  ScoreOwed'
<1>1. PICK q \in Requests : req[q].pc \in {"answered", "rescoring"} /\ req[q].kind # "MANUAL"
  BY DEF ScoreOwed
<1>2. req'[q].pc \in {"answered", "rescoring"} /\ req'[q].kind # "MANUAL"
  BY <1>1 DEF Becomes
<1> QED BY <1>2 DEF ScoreOwed

LEMMA OwedFromNow ==
    ASSUME NEW r \in Requests, NEW pc \in {"answered", "rescoring"}, NEW kind, NEW a,
           kind # "MANUAL", Becomes(r, pc, kind, a)
    PROVE  ScoreOwed'
BY DEF ScoreOwed, Becomes

\* Inputs depend on the evidence alone.
LEMMA SameEvidenceSameInputs ==
    ASSUME UNCHANGED evidence, NEW a
    PROVE  Inputs(a)' = Inputs(a)
<1>1. /\ finding' = finding /\ occurrences' = occurrences /\ answers' = answers
      /\ owner' = owner /\ cves' = cves
  BY DEF evidence
<1>2. Seen(a)' = Seen(a)
  BY <1>1 DEF Seen
<1>3. Returned(a)' = Returned(a)
  BY <1>1, <1>2 DEF Returned
<1>4. DaysUnresolved(a)' = DaysUnresolved(a)
  BY <1>1, <1>3 DEF DaysUnresolved, UnresolvedSince
<1>5. Reputation(a)' = Reputation(a)
  BY <1>1 DEF Reputation, Newest
<1>6. Sector' = Sector /\ Attached' = Attached
  BY <1>1 DEF Sector, Attached
<1>7. Listed' = Listed /\ Scored' = Scored
  BY <1>1, <1>6 DEF Listed, Scored
<1>8. Kev' = Kev /\ Epss' = Epss
  BY <1>1, <1>6, <1>7 DEF Kev, Epss
<1> QED BY <1>1, <1>2, <1>3, <1>4, <1>5, <1>6, <1>7, <1>8 DEF Inputs

ContributionsNow(a) == Contributions(Inputs(a))

LEMMA SameEvidenceSameContributions ==
    ASSUME UNCHANGED evidence, NEW a
    PROVE  ContributionsNow(a)' = ContributionsNow(a)
BY SameEvidenceSameInputs DEF ContributionsNow, Contributions

LEMMA CurrentStays ==
    ASSUME ScoreCurrent, UNCHANGED evidence, UNCHANGED <<current, latest>>,
           excused => excused', ScoreOwed => ScoreOwed' \/ excused', excused' \in BOOLEAN
    PROVE  ScoreCurrent'
<1>1. CASE current.contributions = ContributionsNow(latest)
  <2>1. latest' = latest /\ current' = current
    OBVIOUS
  <2>2. Inputs(latest)' = Inputs(latest)
    <3>1. PICK a : a = latest
      OBVIOUS
    <3>2. Inputs(a)' = Inputs(a)
      BY SameEvidenceSameInputs
    <3> QED BY <2>1, <3>1, <3>2
  <2> QED BY <1>1, <2>1, <2>2 DEF ScoreCurrent, ContributionsNow
<1> QED BY <1>1 DEF ScoreCurrent, ContributionsNow
SinceFits(a) == Since(a) \in Nat

LEMMA SinceIsTyped ==
    ASSUME NEW a
    PROVE  ScoreParamsAssumption /\ ScoreTypeOK /\ RowsTyped => SinceFits(a)
BY SinceTyped DEF SinceFits

LEMMA ParamsStay == ScoreParamsAssumption => ScoreParamsAssumption'
BY DEF ScoreParamsAssumption, NotAttached, Unset

LEMMA SinceTypedNext ==
    ASSUME NEW a
    PROVE  ScoreParamsAssumption' /\ ScoreTypeOK' /\ RowsTyped' => SinceFits(a)'
BY SinceIsTyped, PTL

LEMMA ScoreIsOfAnInstant ==
    ASSUME ScoreTypeOK
    PROVE  current.asOf \in Instants /\ finding.firstSeen \in Instants
BY DEF ScoreTypeOK

LEMMA CountsStay ==
    ASSUME RiskInv, ScoreTypeOK', RowsTyped', Grown, current' = current
    PROVE  CountsStand'
<1>0. PICK a : a = current.asOf
  OBVIOUS
<1> DEFINE i == current.inputs
<1>1. ScoreParamsAssumption /\ ScoreTypeOK /\ RowsTyped /\ CountsStand
  BY DEF RiskInv
<1>2. a \in Instants /\ a \in Nat
  BY <1>0, <1>1, ScoreIsOfAnInstant, InstantsAreDays
<1>3. /\ Reports(a) <= Reports(a)' /\ Returns(a) <= Returns(a)'
      /\ Returns(a)' <= Returns(a) => Since(a)' <= Since(a)
  BY <1>1, CountsGrow
<1>4. Reports(a) \in Nat /\ Returns(a) \in Nat /\ Since(a) \in Nat
  BY <1>1, SeenCounted, SinceTyped
<1>5. Reports(a)' \in Nat /\ Returns(a)' \in Nat /\ Since(a)' \in Nat
  BY <1>1, ParamsStay, SeenCountedNext, SinceTypedNext DEF SeenFinite, SinceFits
<1>6. /\ i.observations \in Nat /\ i.observations <= Reports(a)
      /\ i.recurrences \in Nat /\ i.recurrences <= Returns(a)
      /\ DaysFit(i.days)
      /\ (Returns(a) <= i.recurrences /\ i.days # -1) => i.days <= a - Since(a)
      /\ i.status \in {"OPEN", "CLOSED"} /\ i.kev \in {"LISTED", "UNLISTED", "UNKNOWN"}
  BY <1>0, <1>1 DEF CountsStand
<1> HIDE DEF i
<1>7. i.observations <= Reports(a)' /\ i.recurrences <= Returns(a)'
  BY <1>3, <1>4, <1>5, <1>6
<1>8. ASSUME Returns(a)' <= i.recurrences, i.days # -1 PROVE i.days <= a - Since(a)'
  <2>1. Returns(a)' <= Returns(a) /\ Returns(a) <= i.recurrences
    BY <1>3, <1>4, <1>5, <1>6, <1>8
  <2>2. Since(a)' <= Since(a) /\ i.days <= a - Since(a) /\ i.days \in Int
    BY <1>3, <1>6, <1>8, <2>1 DEF DaysFit
  <2> QED BY <1>2, <1>4, <1>5, <2>2
<1>9. a = current.asOf' /\ i = current.inputs'
  BY <1>0 DEF i
<1>10. /\ Reports(current.asOf)' = Reports(a)' /\ Returns(current.asOf)' = Returns(a)'
       /\ Since(current.asOf)' = Since(a)'
  BY <1>9
<1> QED BY <1>6, <1>7, <1>8, <1>9, <1>10 DEF CountsStand

\* A step that leaves the score keeps the invariant if the score stays current or owed.
LEMMA LeavingKeeps ==
    ASSUME RiskInv, RowsTyped', OtherRowsTyped', ScorersTyped', ScorersTimed', Grown,
           current' = current, ScoreCurrent'
    PROVE  RiskInv'
<1>1. ScoreTyped' /\ ScoreExplained'
  BY PartsOfType DEF RiskInv, ScoreTyped, ScoreExplained, ScoreOf, RawTotal, Contributions
<1>2. ScoreTypeOK'
  BY <1>1, TypeOfPartsNext
<1>3. CountsStand'
  BY <1>2, CountsStay
<1>4. ScoreParamsAssumption'
  BY ParamsStay DEF RiskInv
<1> QED BY <1>1, <1>2, <1>3, <1>4 DEF RiskInv

LEMMA EvidenceUnchangedGrows ==
    ASSUME ScoreParamsAssumption, ScoreTypeOK, UNCHANGED <<occurrences, finding>>
    PROVE  Grown
<1>1. finding.firstSeen \in Nat
  BY ScoreIsOfAnInstant, InstantsAreDays
<1> QED BY <1>1 DEF Grown

-----------------------------------------------------------------------------
(* The steps.                                                              *)

LEMMA RiskTime ==
    ASSUME RiskInv, Tick
    PROVE  RiskInv'
<1>1. /\ clock' \in Instants /\ UNCHANGED evidence
      /\ UNCHANGED <<current, req, troubles, latest, excused>>
  BY DEF Tick
<1>2. /\ UNCHANGED <<finding, occurrences, answers, owner, cves>>
  BY <1>1 DEF evidence
<1>3. RowsTyped' /\ OtherRowsTyped' /\ ScorersTyped' /\ ScorersTimed'
  BY <1>1, <1>2, PartsOfType, ShapeOfScorers DEF RiskInv, RowsTyped, OtherRowsTyped, ScorersTyped, ScorersTimed
<1>4. ScoreOwed => ScoreOwed'
  BY <1>1 DEF ScoreOwed
<1>5. ScoreCurrent'
  BY <1>1, <1>3, <1>4, CurrentStays DEF RiskInv, OtherRowsTyped
<1>6. Grown
  BY <1>2, EvidenceUnchangedGrows DEF RiskInv
<1> QED BY <1>1, <1>3, <1>5, <1>6, LeavingKeeps

LEMMA RiskBegin ==
    ASSUME RiskInv, NEW r \in Requests, Begin(r)
    PROVE  RiskInv'
<1>1. /\ UNCHANGED evidence /\ req[r].pc = "idle"
      /\ UNCHANGED <<clock, current, troubles, latest, excused>>
  BY DEF Begin
<1>2. /\ UNCHANGED <<finding, occurrences, answers, owner, cves>>
  BY <1>1 DEF evidence
<1>3. PICK kind \in Kinds, pc \in {"changing", "rescoring"} : Becomes(r, pc, kind, clock)
  BY BeginningBecomes DEF RiskInv
<1>4. RowsTyped' /\ OtherRowsTyped' /\ ScorersTyped'
  BY <1>1, <1>2, <1>3, PartsOfType DEF RiskInv, RowsTyped, OtherRowsTyped, ScorersTyped, Becomes
<1>5. ScorersTimed'
  BY <1>3, PartsOfType, ScorersStayTimed DEF RiskInv, OtherRowsTyped
<1>6. ScoreOwed => ScoreOwed'
  BY <1>1, <1>3, OwedStays
<1>7. ScoreCurrent'
  BY <1>1, <1>4, <1>6, CurrentStays DEF RiskInv, OtherRowsTyped
<1>8. Grown
  BY <1>2, EvidenceUnchangedGrows DEF RiskInv
<1> QED BY <1>1, <1>4, <1>5, <1>7, <1>8, LeavingKeeps

\* A request that has changed the evidence, and now owes a score.
LEMMA ChangingKeeps ==
    ASSUME RiskInv, NEW r \in Requests, NEW pc \in {"answered", "rescoring"}, req[r].pc = "changing",
           req[r].kind # "MANUAL", Becomes(r, pc, req[r].kind, req[r].asOf),
           RowsTyped', OtherRowsTyped', Grown, current' = current
    PROVE  RiskInv'
<1>1. ScorersTyped'
  BY DEF Becomes, ScorersTyped
<1>2. req[r].asOf \in Instants
  BY DEF RiskInv, ScorersTimed
<1>3. ScorersTimed'
  BY <1>2, ScorersStayTimed DEF RiskInv
<1>4. ScoreCurrent'
  BY OwedFromNow DEF ScoreCurrent
<1> QED BY <1>1, <1>3, <1>4, LeavingKeeps

LEMMA AsOfIsInstant ==
    ASSUME RiskInv, NEW r \in Requests, req[r].pc \notin {"idle", "done"}
    PROVE  req[r].asOf \in Instants
BY DEF RiskInv, ScorersTimed

LEMMA RiskObserve ==
    ASSUME RiskInv, NEW r \in Requests, Observe(r)
    PROVE  RiskInv'
<1>1. /\ req[r].pc = "changing" /\ req[r].kind = "INGESTION"
      /\ GoesRescoring(r, req[r].asOf)
      /\ UNCHANGED <<clock, answers, owner, cves, current, troubles, latest, excused>>
  BY DEF Observe, Changing
<1>2. PICK at \in Instants :
          /\ occurrences' = Append(occurrences, [at |-> at, action |-> ActionOn(at)])
          /\ finding' = [finding EXCEPT
                !.status = IF ActionOn(at) = "RECURRED" THEN "OPEN" ELSE finding.status,
                !.through = IF ActionOn(at) = "RECURRED" THEN Unset ELSE finding.through,
                !.firstSeen = Min({finding.firstSeen, at}),
                !.lastSeen = Max({finding.lastSeen, at})]
  BY DEF Observe
<1>3. finding \in FindingShape /\ at \in Nat /\ finding.firstSeen \in Nat /\ finding.lastSeen \in Nat
  BY PartsOfType, InstantsAreDays DEF RiskInv, OtherRowsTyped, FindingShape
<1>4. ActionOn(at) \in {"CREATED", "PERSISTED", "RECURRED", "HISTORICAL"}
  BY <1>3 DEF ActionOn, FindingShape
<1>5. Min({finding.firstSeen, at}) \in Instants /\ Min({finding.firstSeen, at}) <= finding.firstSeen
  BY <1>3, Extremes DEF FindingShape
<1>6. Max({finding.lastSeen, at}) \in Instants
  BY <1>3, Extremes DEF FindingShape
<1>7. finding' \in FindingShape /\ finding'.firstSeen <= finding.firstSeen
  BY <1>2, <1>3, <1>5, <1>6 DEF FindingShape, Unset
<1>8. RowsTyped' /\ Grown
  BY <1>1, <1>2, <1>4, <1>7, OccurrenceAdded DEF RiskInv, Occurrence, Grown
<1>9. OtherRowsTyped'
  BY <1>1, <1>7, PartsOfType DEF RiskInv, OtherRowsTyped
<1>10. Becomes(r, "rescoring", req[r].kind, req[r].asOf)
  BY <1>1, AsOfIsInstant, RescoringBecomes DEF RiskInv
<1> QED BY <1>1, <1>8, <1>9, <1>10, ChangingKeeps

LEMMA RiskClose ==
    ASSUME RiskInv, CloseFinding
    PROVE  RiskInv'
<1>1. /\ excused' = TRUE
      /\ UNCHANGED <<clock, occurrences, answers, owner, cves, current, req, troubles, latest>>
  BY DEF CloseFinding
<1>2. PICK t \in Instants : finding' = [finding EXCEPT !.status = "CLOSED", !.through = t]
  BY DEF CloseFinding
<1>3. finding \in FindingShape /\ finding.firstSeen \in Nat
  BY PartsOfType, InstantsAreDays DEF RiskInv, OtherRowsTyped, FindingShape
<1>4. finding' \in FindingShape /\ finding'.firstSeen = finding.firstSeen
  BY <1>2, <1>3 DEF FindingShape
<1>5. Grown
  BY <1>1, <1>3, <1>4 DEF Grown
<1>6. RowsTyped' /\ OtherRowsTyped' /\ ScorersTyped' /\ ScorersTimed'
  BY <1>1, <1>4, PartsOfType, ShapeOfScorers DEF RiskInv, RowsTyped, OtherRowsTyped, ScorersTyped, ScorersTimed
<1>7. ScoreCurrent'
  BY <1>1 DEF ScoreCurrent
<1> QED BY <1>1, <1>5, <1>6, <1>7, LeavingKeeps

LEMMA RiskAnswer ==
    ASSUME RiskInv, NEW r \in Requests, StoreAnswer(r)
    PROVE  RiskInv'
<1>1. /\ req[r].pc = "changing" /\ req[r].kind \in {"BATCH", "TARGETED"}
      /\ UNCHANGED <<clock, finding, occurrences, owner, cves, current, troubles, latest>>
  BY DEF StoreAnswer, Changing, Lookups
<1>2. PICK a \in Answers :
          /\ answers' = Append(answers, [at |-> req[r].asOf, status |-> a.status,
                                         confidence |-> a.confidence])
          /\ \/ GoesRescoring(r, req[r].asOf) /\ UNCHANGED excused
             \/ req' = [req EXCEPT ![r].pc = "answered"] /\ UNCHANGED excused
             \/ Ends(r) /\ excused' = TRUE
  BY DEF StoreAnswer
<1>3. req[r].asOf \in Instants
  BY <1>1, AsOfIsInstant
<1>4. a.status \in {"SUCCESS", "NOT_FOUND"} /\ a.confidence \in Confidences \cup {-1}
  BY DEF Answers, Unset
<1>5. RowsTyped'
  BY <1>1, <1>2, <1>3, <1>4, AnswerAdded DEF RiskInv, Answer
<1>6. Grown
  BY <1>1, EvidenceUnchangedGrows DEF RiskInv
<1>7. OtherRowsTyped'
  BY <1>1, <1>2, PartsOfType DEF RiskInv, OtherRowsTyped
<1>8. CASE GoesRescoring(r, req[r].asOf)
  <2>1. Becomes(r, "rescoring", req[r].kind, req[r].asOf)
    BY <1>3, <1>8, RescoringBecomes DEF RiskInv
  <2> QED BY <1>1, <1>5, <1>6, <1>7, <2>1, ChangingKeeps
<1>9. CASE req' = [req EXCEPT ![r].pc = "answered"]
  <2>1. Becomes(r, "answered", req[r].kind, req[r].asOf)
    BY <1>9, AnsweredBecomes DEF RiskInv
  <2> QED BY <1>1, <1>5, <1>6, <1>7, <2>1, ChangingKeeps
<1>10. CASE Ends(r) /\ excused' = TRUE
  <2>1. Becomes(r, "done", "MANUAL", 0)
    BY <1>10, EndingBecomes DEF RiskInv
  <2>2. ScorersTyped' /\ ScorersTimed'
    BY <2>1, ScorersStayTimed DEF RiskInv, Becomes, ScorersTyped
  <2>3. ScoreCurrent'
    BY <1>10 DEF ScoreCurrent
  <2> QED BY <1>1, <1>5, <1>6, <1>7, <2>2, <2>3, LeavingKeeps
<1> QED BY <1>2, <1>8, <1>9, <1>10

LEMMA RiskReadClock ==
    ASSUME RiskInv, NEW r \in Requests, ReadClock(r)
    PROVE  RiskInv'
<1>1. /\ req[r].pc = "answered" /\ GoesRescoring(r, clock) /\ UNCHANGED evidence
      /\ UNCHANGED <<clock, current, troubles, latest, excused>>
  BY DEF ReadClock
<1>2. /\ UNCHANGED <<finding, occurrences, answers, owner, cves>>
  BY <1>1 DEF evidence
<1>3. clock \in Instants
  BY PartsOfType DEF RiskInv, OtherRowsTyped
<1>4. Becomes(r, "rescoring", req[r].kind, clock)
  BY <1>1, <1>3, RescoringBecomes DEF RiskInv
<1>5. RowsTyped' /\ OtherRowsTyped' /\ ScorersTyped'
  BY <1>1, <1>2, <1>4, PartsOfType DEF RiskInv, RowsTyped, OtherRowsTyped, ScorersTyped, Becomes
<1>6. ScorersTimed'
  BY <1>3, <1>4, ScorersStayTimed DEF RiskInv
<1>7. ScoreOwed => ScoreOwed'
  BY <1>4, OwedStays
<1>8. ScoreCurrent'
  BY <1>1, <1>5, <1>7, CurrentStays DEF RiskInv, OtherRowsTyped
<1>9. Grown
  BY <1>2, EvidenceUnchangedGrows DEF RiskInv
<1> QED BY <1>1, <1>5, <1>6, <1>8, <1>9, LeavingKeeps

LEMMA RiskChangeOwner ==
    ASSUME RiskInv, NEW r \in Requests, ChangeOwner(r)
    PROVE  RiskInv'
<1>1. /\ req[r].pc = "changing" /\ req[r].kind = "OWNERSHIP" /\ owner' \in Owners
      /\ GoesRescoring(r, req[r].asOf)
      /\ UNCHANGED <<clock, finding, occurrences, answers, cves, current, troubles, latest, excused>>
  BY DEF ChangeOwner, Changing
<1>2. Becomes(r, "rescoring", req[r].kind, req[r].asOf)
  BY <1>1, AsOfIsInstant, RescoringBecomes DEF RiskInv
<1>3. RowsTyped' /\ OtherRowsTyped'
  BY <1>1, PartsOfType DEF RiskInv, RowsTyped, OtherRowsTyped
<1>4. Grown
  BY <1>1, EvidenceUnchangedGrows DEF RiskInv
<1> QED BY <1>1, <1>2, <1>3, <1>4, ChangingKeeps

LEMMA RiskChangeCve ==
    ASSUME RiskInv, NEW r \in Requests, ChangeCve(r)
    PROVE  RiskInv'
<1>1. /\ req[r].pc = "changing" /\ req[r].kind = "VULNERABILITY"
      /\ GoesRescoring(r, req[r].asOf)
      /\ UNCHANGED <<clock, finding, occurrences, answers, owner, current, troubles, latest, excused>>
  BY DEF ChangeCve, Changing
<1>2. PICK c \in CVEs, e \in Evidence : cves' = [cves EXCEPT ![c] = e]
  BY DEF ChangeCve
<1>3. Becomes(r, "rescoring", req[r].kind, req[r].asOf)
  BY <1>1, AsOfIsInstant, RescoringBecomes DEF RiskInv
<1>4. RowsTyped' /\ OtherRowsTyped'
  BY <1>1, <1>2, PartsOfType DEF RiskInv, RowsTyped, OtherRowsTyped
<1>5. Grown
  BY <1>1, EvidenceUnchangedGrows DEF RiskInv
<1> QED BY <1>1, <1>3, <1>4, <1>5, ChangingKeeps

LEMMA RiskLose ==
    ASSUME RiskInv, NEW r \in Requests, LoseRescore(r)
    PROVE  RiskInv'
<1>1. /\ req[r].pc \in {"answered", "rescoring"} /\ Ends(r) /\ UNCHANGED evidence
      /\ troubles < MaxTroubles /\ troubles' = troubles + 1
      /\ excused' = (excused \/ req[r].kind # "MANUAL")
      /\ UNCHANGED <<clock, current, latest>>
  BY DEF LoseRescore
<1>2. /\ UNCHANGED <<finding, occurrences, answers, owner, cves>>
  BY <1>1 DEF evidence
<1>3. Becomes(r, "done", "MANUAL", 0)
  BY <1>1, EndingBecomes DEF RiskInv
<1>4. excused \in BOOLEAN /\ excused' \in BOOLEAN
  BY <1>1, PartsOfType DEF RiskInv, OtherRowsTyped
<1>5. troubles' \in 0..MaxTroubles
  <2>1. MaxTroubles \in Nat
    BY DEF RiskInv, ScoreParamsAssumption
  <2>2. troubles \in 0..MaxTroubles
    BY PartsOfType DEF RiskInv, OtherRowsTyped
  <2> QED BY <1>1, <2>1, <2>2
<1>6. RowsTyped' /\ ScorersTyped' /\ ScorersTimed'
  BY <1>2, <1>3, ScorersStayTimed DEF RiskInv, RowsTyped, ScorersTyped, Becomes
<1>7. OtherRowsTyped'
  BY <1>1, <1>2, <1>4, <1>5, PartsOfType DEF RiskInv, OtherRowsTyped
<1>8. ScoreOwed => ScoreOwed' \/ excused'
  <2>1. CASE req[r].kind # "MANUAL"
    BY <1>1, <2>1
  <2>2. CASE req[r].kind = "MANUAL"
    BY <1>3, <2>2, OwedStays
  <2> QED BY <2>1, <2>2
<1>9. excused => excused'
  BY <1>1
<1>10. ScoreCurrent'
  BY <1>1, <1>4, <1>8, <1>9, CurrentStays DEF RiskInv
<1>11. Grown
  BY <1>2, EvidenceUnchangedGrows DEF RiskInv
<1> QED BY <1>1, <1>6, <1>7, <1>10, <1>11, LeavingKeeps
LEMMA SameEvidenceSameCounts ==
    ASSUME UNCHANGED <<finding, occurrences>>, NEW a
    PROVE  Reports(a)' = Reports(a) /\ Returns(a)' = Returns(a) /\ Since(a)' = Since(a)
<1>1. Seen(a)' = Seen(a)
  BY DEF Seen
<1>2. Returned(a)' = Returned(a)
  BY <1>1 DEF Returned
<1> QED BY <1>1, <1>2 DEF Reports, Returns, Since, UnresolvedSince

\* The counts of a new score are those of the rows it was read from.
LEMMA NewScoreCounts ==
    ASSUME RiskInv, UNCHANGED <<finding, occurrences>>, NEW a \in Instants,
           current' = Snapshot(Inputs(a), a)
    PROVE  CountsStand'
<1> DEFINE i == Inputs(a)
<1>1. /\ i.status = finding.status /\ i.observations = Reports(a) /\ i.recurrences = Returns(a)
      /\ i.kev \in KevValues /\ DaysFit(i.days) /\ (i.days # -1 => i.days <= a - Since(a))
  BY InputsRead DEF RiskInv
<1> HIDE DEF i
<1>2. current'.asOf = a /\ current'.inputs = i
  BY DEF Snapshot, i
<1>3. /\ Reports(current.asOf)' = Reports(a) /\ Returns(current.asOf)' = Returns(a)
      /\ Since(current.asOf)' = Since(a)
  <2>1. current.asOf' = a
    BY <1>2
  <2>2. /\ Reports(current.asOf)' = Reports(a)' /\ Returns(current.asOf)' = Returns(a)'
        /\ Since(current.asOf)' = Since(a)'
    BY <2>1
  <2> QED BY <2>2, SameEvidenceSameCounts
<1>4. Reports(a) \in Nat /\ Returns(a) \in Nat
  BY SeenCounted DEF RiskInv
<1>5. finding.status \in {"OPEN", "CLOSED"}
  BY PartsOfType DEF RiskInv, OtherRowsTyped, FindingShape
<1> QED BY <1>1, <1>2, <1>3, <1>4, <1>5 DEF CountsStand, KevValues

LEMMA RiskRescore ==
    ASSUME RiskInv, NEW r \in Requests, Rescore(r)
    PROVE  RiskInv'
<1>0. PICK a : a = req[r].asOf
  OBVIOUS
<1>1. /\ req[r].pc = "rescoring" /\ Ends(r) /\ UNCHANGED evidence
      /\ latest' = a /\ excused' = FALSE /\ UNCHANGED <<clock, troubles>>
      /\ \/ current' = current /\ current.inputs = Inputs(a)
         \/ current' = Snapshot(Inputs(a), a)
  BY <1>0 DEF Rescore, CalculateAndPersist, Fingerprint
<1>2. /\ UNCHANGED <<finding, occurrences, answers, owner, cves>>
  BY <1>1 DEF evidence
<1>3. a \in Instants
  BY <1>0, <1>1, AsOfIsInstant
<1>4. Becomes(r, "done", "MANUAL", 0)
  BY <1>1, EndingBecomes DEF RiskInv
<1>5. RowsTyped' /\ ScorersTyped' /\ ScorersTimed'
  BY <1>2, <1>4, ScorersStayTimed DEF RiskInv, RowsTyped, ScorersTyped, Becomes
<1>6. OtherRowsTyped'
  BY <1>1, <1>2, <1>3, PartsOfType DEF RiskInv, OtherRowsTyped
<1>7. current'.contributions = ContributionsNow(a) /\ ScoreExplained'
  <2>1. CASE current' = current /\ current.inputs = Inputs(a)
    <3>1. current.contributions = Contributions(current.inputs)
      BY DEF RiskInv, ScoreExplained
    <3> QED BY <2>1, <3>1 DEF ContributionsNow, ScoreExplained, Contributions
  <2>2. CASE current' = Snapshot(Inputs(a), a)
    <3>1. current'.contributions = ContributionsNow(a) /\ current'.inputs = Inputs(a)
      BY <2>2 DEF Snapshot, ContributionsNow
    <3> QED BY <3>1 DEF ContributionsNow, ScoreExplained
  <2> QED BY <1>1, <2>1, <2>2
<1>8. ScoreCurrent'
  <2>1. ContributionsNow(a)' = ContributionsNow(a)
    BY <1>1, SameEvidenceSameContributions
  <2>2. latest' = a
    BY <1>1
  <2>3. ContributionsNow(latest)' = ContributionsNow(a)'
    BY <2>2
  <2> QED BY <1>7, <2>1, <2>3 DEF ScoreCurrent, ContributionsNow
<1>9. ScoreTyped'
  <2>1. CASE current' = current
    BY <2>1, PartsOfType DEF RiskInv, ScoreTyped, ScoreOf, RawTotal
  <2>2. CASE current' = Snapshot(Inputs(a), a)
    BY <1>3, <2>2 DEF Snapshot, ScoreTyped
  <2> QED BY <1>1, <2>1, <2>2
<1>10. ScoreTypeOK'
  BY <1>5, <1>6, <1>9, TypeOfPartsNext
<1>11. CountsStand'
  <2>1. CASE current' = current
    BY <1>2, <1>5, <1>10, <2>1, EvidenceUnchangedGrows, CountsStay DEF RiskInv
  <2>2. CASE current' = Snapshot(Inputs(a), a)
    BY <1>2, <1>3, <2>2, NewScoreCounts
  <2> QED BY <1>1, <2>1, <2>2
<1>12. ScoreParamsAssumption'
  BY ParamsStay DEF RiskInv
<1> QED BY <1>5, <1>7, <1>8, <1>10, <1>11, <1>12 DEF RiskInv

LEMMA RiskStutters ==
    ASSUME RiskInv, UNCHANGED scoreVars
    PROVE  RiskInv'
<1>1. UNCHANGED evidence /\ UNCHANGED <<clock, current, req, troubles, latest, excused>>
  BY DEF scoreVars
<1>2. /\ UNCHANGED <<finding, occurrences, answers, owner, cves>>
  BY <1>1 DEF evidence
<1>3. RowsTyped' /\ OtherRowsTyped' /\ ScorersTyped' /\ ScorersTimed'
  BY <1>1, <1>2, PartsOfType, ShapeOfScorers DEF RiskInv, RowsTyped, OtherRowsTyped, ScorersTyped, ScorersTimed
<1>4. ScoreOwed => ScoreOwed'
  BY <1>1 DEF ScoreOwed
<1>5. ScoreCurrent'
  BY <1>1, <1>3, <1>4, CurrentStays DEF RiskInv, OtherRowsTyped
<1>6. Grown
  BY <1>2, EvidenceUnchangedGrows DEF RiskInv
<1> QED BY <1>1, <1>3, <1>5, <1>6, LeavingKeeps

LEMMA RiskInitHolds == ScoreParamsAssumption /\ ScoreInit => RiskInv
<1> SUFFICES ASSUME ScoreParamsAssumption, ScoreInit
             PROVE  RiskInv
  OBVIOUS
<1>1. PICK day \in FirstDays, known \in FirstEvidence :
        /\ clock = day
        /\ finding = [status |-> "OPEN", firstSeen |-> day, lastSeen |-> day, through |-> Unset]
        /\ occurrences = <<[at |-> day, action |-> "CREATED"]>>
        /\ answers = <<>>
        /\ owner = NoOwner
        /\ cves = known
        /\ current = Snapshot(Inputs(day), day)
        /\ req = [r \in Requests |-> NewRequest]
        /\ troubles = 0
        /\ latest = day
        /\ excused = FALSE
  BY DEF ScoreInit
<1>2. day \in Instants /\ FirstEvidence \subseteq [CVEs -> Evidence] /\ 0 \in 0..MaxTroubles
  <2>1. MaxTroubles \in Nat
    BY DEF ScoreParamsAssumption
  <2>2. FirstEvidence \subseteq [CVEs -> Evidence]
    BY DEF ScoreParamsAssumption
  <2> QED BY <2>1, <2>2, InstantsAreDays
<1>3. RowsTyped
  BY <1>1, <1>2 DEF RowsTyped, Occurrence
<1>4. OtherRowsTyped
  BY <1>1, <1>2 DEF OtherRowsTyped, FindingShape, Unset
<1>5. ScorersTyped /\ ScorersTimed
  BY <1>1 DEF ScorersTyped, ScorersTimed, ScorerShape, NewRequest, Kinds
<1>6. ScoreTyped /\ ScoreExplained
  BY <1>1, <1>2 DEF ScoreTyped, ScoreExplained, Snapshot
<1>7. ScoreTypeOK
  BY <1>3, <1>4, <1>5, <1>6, TypeOfParts
<1>8. ScoreCurrent
  BY <1>1 DEF ScoreCurrent, Snapshot
<1>9. CountsStand
  <2> DEFINE i == Inputs(day)
  <2>1. /\ i.status = finding.status /\ i.observations = Reports(day) /\ i.recurrences = Returns(day)
        /\ i.kev \in KevValues /\ DaysFit(i.days) /\ (i.days # -1 => i.days <= day - Since(day))
    BY <1>2, <1>3, <1>7, InputsRead
  <2>2. Reports(day) \in Nat /\ Returns(day) \in Nat
    BY <1>3, SeenCounted
  <2>3. current.inputs = i /\ current.asOf = day /\ finding.status = "OPEN"
    BY <1>1 DEF Snapshot
  <2> HIDE DEF i
  <2> QED BY <2>1, <2>2, <2>3 DEF CountsStand, KevValues
<1> QED BY <1>3, <1>5, <1>6, <1>7, <1>8, <1>9 DEF RiskInv

LEMMA RiskStepHolds == RiskInv /\ [ScoreNext]_scoreVars => RiskInv'
<1> SUFFICES ASSUME RiskInv, [ScoreNext]_scoreVars
             PROVE  RiskInv'
  OBVIOUS
<1>1. CASE Tick BY <1>1, RiskTime
<1>2. CASE CloseFinding BY <1>2, RiskClose
<1>3. ASSUME NEW r \in Requests, Begin(r) PROVE RiskInv' BY <1>3, RiskBegin
<1>4. ASSUME NEW r \in Requests, Observe(r) PROVE RiskInv' BY <1>4, RiskObserve
<1>5. ASSUME NEW r \in Requests, StoreAnswer(r) PROVE RiskInv' BY <1>5, RiskAnswer
<1>6. ASSUME NEW r \in Requests, ReadClock(r) PROVE RiskInv' BY <1>6, RiskReadClock
<1>7. ASSUME NEW r \in Requests, ChangeOwner(r) PROVE RiskInv' BY <1>7, RiskChangeOwner
<1>8. ASSUME NEW r \in Requests, ChangeCve(r) PROVE RiskInv' BY <1>8, RiskChangeCve
<1>9. ASSUME NEW r \in Requests, Rescore(r) PROVE RiskInv' BY <1>9, RiskRescore
<1>10. ASSUME NEW r \in Requests, LoseRescore(r) PROVE RiskInv' BY <1>10, RiskLose
<1>11. CASE UNCHANGED scoreVars BY <1>11, RiskStutters
<1> QED BY <1>1, <1>2, <1>3, <1>4, <1>5, <1>6, <1>7, <1>8, <1>9, <1>10, <1>11 DEF ScoreNext

LEMMA RiskInvariance == ScoreSpec => []RiskInv
<1>1. ScoreInit => RiskInv
  BY RiskInitHolds, ScoreParams
<1> QED BY <1>1, RiskStepHolds, PTL DEF ScoreSpec

\* Every row of the evidence, of the score and of the requests is well formed, and a stored
\* score is that of its stored contributions, whatever the evidence and the instants
\* (loadRiskInputSnapshot, calculateRisk, calculateAndPersistRisk).
THEOREM ScoresAreWellFormed == ScoreSpec => []ScoreTypeOK
<1>1. RiskInv => ScoreTypeOK
  BY DEF RiskInv
<1> QED BY <1>1, RiskInvariance, PTL

\* Once every request is through, and no rescore was lost, the explanation of the current
\* score is that of the evidence as of the last calculation, for every number of requests
\* and whatever they change in whatever order (calculateAndPersistRisk).
THEOREM ScoresAreExplained == ScoreSpec => []ExplanationIsOfTheEvidence
<1>1. RiskInv => ExplanationIsOfTheEvidence
  <2> SUFFICES ASSUME RiskInv, AtRest, ~excused
               PROVE  current.contributions = Contributions(Inputs(latest))
    BY DEF ExplanationIsOfTheEvidence
  <2>1. ~ScoreOwed
    BY DEF AtRest, ScoreOwed
  <2> QED BY <2>1 DEF RiskInv, ScoreCurrent
<1> QED BY <1>1, RiskInvariance, PTL

\* "This can bind but can never truncate" (calculateRisk).
CapNeverTruncates == current.score = RawTotal(current.contributions)

LEMMA ScoresAreSums ==
    ASSUME RiskInv
    PROVE  CapNeverTruncates /\ Share(current.score, 10000)
<1>1. current.inputs.kev \in KevValues
  BY DEF RiskInv, CountsStand, KevValues
<1>2. Capped(current.contributions)
  BY <1>1, ContributionsCapped DEF RiskInv, ScoreExplained
<1>3. Share(RawTotal(current.contributions), 10000)
  BY <1>2, SharesAddUp
<1>4. current.score = ScoreOf(current.contributions)
  BY PartsOfType DEF RiskInv, ScoreTyped
<1> QED BY <1>3, <1>4 DEF CapNeverTruncates, ScoreOf, ScoreMax, Share

\* The shares of the ten factors add up to the scale, so that the cap of calculateRisk
\* discards no contribution to a stored score, whatever the evidence.
THEOREM CapDiscardsNothing == ScoreSpec => []CapNeverTruncates
<1>1. RiskInv => CapNeverTruncates
  BY ScoresAreSums
<1> QED BY <1>1, RiskInvariance, PTL

-----------------------------------------------------------------------------
(* When a score falls.                                                     *)

\* Seen later, there is no less to see; and as long as no return is added, the episode is
\* the same.
LEMMA CountsLater ==
    ASSUME ScoreParamsAssumption, RowsTyped, NEW a \in Instants, NEW b \in Instants, a <= b
    PROVE  /\ Reports(a) <= Reports(b) /\ Returns(a) <= Returns(b)
           /\ Returns(b) <= Returns(a) => Since(b) = Since(a)
<1>1. \A n \in DOMAIN occurrences : occurrences[n].at \in Nat
  BY OccurrencesTyped, InstantsAreDays DEF Occurrence
<1>2. a \in Nat /\ b \in Nat
  BY InstantsAreDays
<1>3. Seen(a) \subseteq Seen(b)
  BY <1>1, <1>2 DEF Seen
<1>4. Returned(a) \subseteq Returned(b)
  BY <1>3 DEF Returned
<1>5. /\ IsFiniteSet(Seen(b)) /\ IsFiniteSet(Returned(b))
      /\ Returns(a) \in Nat /\ Returns(b) \in Nat
  BY SeenCounted
<1>6. Reports(a) <= Reports(b) /\ Returns(a) <= Returns(b)
  BY <1>3, <1>4, <1>5, FS_Subset DEF Reports, Returns
<1>7. ASSUME Returns(b) <= Returns(a) PROVE Since(b) = Since(a)
  <2>1. Returns(b) = Returns(a)
    BY <1>5, <1>6, <1>7
  <2>2. Returned(b) = Returned(a)
    BY <1>4, <1>5, <2>1, FS_Subset DEF Returns
  <2> QED BY <2>2 DEF Since, UnresolvedSince
<1> QED BY <1>6, <1>7

\* What is known of the indicator, the owner and the CVEs, of the inputs i and j alike.
SameContext(i, j) ==
    /\ i.reputation = j.reputation /\ i.sector = j.sector
    /\ i.cves = j.cves /\ i.kev = j.kev /\ i.epss = j.epss

LEMMA PointsOfBucketed ==
    ASSUME NEW buckets, NEW value, NEW b1, NEW b2
    PROVE  Bucketed(buckets, value, b1).points = Bucketed(buckets, value, b2).points
BY DEF Bucketed, Applied, NotAvailable

LEMMA PointsOfContext ==
    ASSUME NEW i, NEW j, SameContext(i, j), i.kev \in KevValues
    PROVE  LET c == Contributions(i)
               d == Contributions(j)
           IN  /\ c.sourceSeverity.points = d.sourceSeverity.points
               /\ c.exposureCriticality.points = d.exposureCriticality.points
               /\ c.iocReputationContext.points = d.iocReputationContext.points
               /\ c.sectorCriticality.points = d.sectorCriticality.points
               /\ c.cvePresence.points = d.cvePresence.points
               /\ c.kevStatus.points = d.kevStatus.points
               /\ c.epssScore.points = d.epssScore.points
<1>1. EvaluateIocReputation(i).points = EvaluateIocReputation(j).points
  BY DEF SameContext, EvaluateIocReputation
<1>2. EvaluateSectorCriticality(i).points = EvaluateSectorCriticality(j).points
  BY DEF SameContext, EvaluateSectorCriticality
<1>3. EvaluateCvePresence(i).points = EvaluateCvePresence(j).points
  BY DEF SameContext, EvaluateCvePresence
<1>4. EvaluateKevStatus(i).points = EvaluateKevStatus(j).points
  BY DEF SameContext, EvaluateKevStatus, KevValues, Applied
<1>5. EvaluateEpssScore(i).points = EvaluateEpssScore(j).points
  BY PointsOfBucketed DEF SameContext, EvaluateEpssScore
<1> QED BY <1>1, <1>2, <1>3, <1>4, <1>5, Zenon DEF Contributions

LEMMA NoDaysNoPoints ==
    ASSUME NEW basis
    PROVE  Bucketed(DaysUnresolvedBuckets, -1, basis).points = 0
<1> DEFINE B == DaysUnresolvedBuckets
<1>1. Covering(B, -1) = {}
  BY DEF Covering, DaysUnresolvedBuckets, Bucket, NoLimit
<1> HIDE DEF B
<1>2. Bucketed(B, -1, basis).points = 0
  BY <1>1, BucketedByNone
<1> QED BY <1>2 DEF B

\* Days count for an open finding only, and more days bring no fewer points.
LEMMA PointsOfDays ==
    ASSUME NEW i, NEW j, DaysFit(i.days), DaysFit(j.days), i.days <= j.days,
           j.status # "CLOSED"
    PROVE  EvaluateDaysUnresolved(i).points <= EvaluateDaysUnresolved(j).points
<1>1. ASSUME NEW n, DaysFit(n), NEW basis
      PROVE  Bucketed(DaysUnresolvedBuckets, n, basis).points = IF n = -1 THEN 0 ELSE DaysPoints(n)
  <2>1. CASE n = -1 BY <2>1, NoDaysNoPoints
  <2>2. CASE n # -1
    <3>1. n \in Nat
      BY <1>1, <2>2 DEF DaysFit
    <3> QED BY <2>2, <3>1, DaysBucketed
  <2> QED BY <2>1, <2>2
<1> DEFINE x == IF i.days = -1 THEN 0 ELSE DaysPoints(i.days)
           y == IF j.days = -1 THEN 0 ELSE DaysPoints(j.days)
<1>2. x \in Nat /\ y \in Nat /\ x <= y
  BY PointsGrow DEF DaysFit, DaysPoints
<1>3. EvaluateDaysUnresolved(j).points = y
  BY <1>1 DEF EvaluateDaysUnresolved
<1>4. EvaluateDaysUnresolved(i).points = x \/ EvaluateDaysUnresolved(i).points = 0
  BY <1>1 DEF EvaluateDaysUnresolved, NotApplicable
<1> HIDE DEF x, y
<1> QED BY <1>2, <1>3, <1>4

\* Inputs that are in nothing worse bring no lower score.
Worse(i, j) ==
    /\ SameContext(i, j)
    /\ i.observations \in Nat /\ j.observations \in Nat /\ i.observations <= j.observations
    /\ i.recurrences = j.recurrences
    /\ DaysFit(i.days) /\ DaysFit(j.days) /\ i.days <= j.days
    /\ j.status # "CLOSED"
    /\ i.kev \in KevValues /\ j.kev \in KevValues

LEMMA SumsGrow ==
    ASSUME NEW a1 \in Nat, NEW a2 \in Nat, NEW a3 \in Nat, NEW a4 \in Nat, NEW a5 \in Nat,
           NEW a6 \in Nat, NEW a7 \in Nat, NEW a8 \in Nat, NEW a9 \in Nat, NEW a10 \in Nat,
           NEW b3 \in Nat, NEW b5 \in Nat, a3 <= b3, a5 <= b5
    PROVE  a1 + a2 + a3 + a4 + a5 + a6 + a7 + a8 + a9 + a10
             <= a1 + a2 + b3 + a4 + b5 + a6 + a7 + a8 + a9 + a10
OBVIOUS

LEMMA ScoresGrow ==
    ASSUME NEW i, NEW j, Worse(i, j)
    PROVE  RawTotal(Contributions(i)) <= RawTotal(Contributions(j))
<1> DEFINE c == Contributions(i)
           d == Contributions(j)
<1>1. /\ c.sourceSeverity.points = d.sourceSeverity.points
      /\ c.exposureCriticality.points = d.exposureCriticality.points
      /\ c.iocReputationContext.points = d.iocReputationContext.points
      /\ c.sectorCriticality.points = d.sectorCriticality.points
      /\ c.cvePresence.points = d.cvePresence.points
      /\ c.kevStatus.points = d.kevStatus.points
      /\ c.epssScore.points = d.epssScore.points
  BY PointsOfContext DEF Worse
<1>2. c.persistence.points <= d.persistence.points
  <2>1. /\ c.persistence = Bucketed(PersistenceBuckets, i.observations, <<i.observations>>)
        /\ d.persistence = Bucketed(PersistenceBuckets, j.observations, <<j.observations>>)
    BY Zenon DEF Contributions
  <2> HIDE DEF c, d
  <2>2. /\ i.observations \in Nat /\ j.observations \in Nat /\ i.observations <= j.observations
    BY DEF Worse
  <2>3. /\ c.persistence.points = ReportPoints(i.observations)
        /\ d.persistence.points = ReportPoints(j.observations)
    BY <2>1, <2>2, ReportsBucketed
  <2> QED BY <2>2, <2>3, PointsGrow
<1>3. c.recurrence.points = d.recurrence.points
  <2>1. /\ c.recurrence = Bucketed(RecurrenceBuckets, i.recurrences, <<i.recurrences>>)
        /\ d.recurrence = Bucketed(RecurrenceBuckets, j.recurrences, <<j.recurrences>>)
    BY Zenon DEF Contributions
  <2> HIDE DEF c, d
  <2> QED BY <2>1 DEF Worse
<1>4. c.daysUnresolved.points <= d.daysUnresolved.points
  <2>1. /\ c.daysUnresolved = EvaluateDaysUnresolved(i)
        /\ d.daysUnresolved = EvaluateDaysUnresolved(j)
    BY Zenon DEF Contributions
  <2> HIDE DEF c, d
  <2> QED BY <2>1, PointsOfDays DEF Worse
<1>5. Capped(c) /\ Capped(d)
  BY ContributionsCapped DEF Worse
<1> HIDE DEF c, d
<1>6. /\ c.sourceSeverity.points \in Nat /\ c.exposureCriticality.points \in Nat
      /\ c.persistence.points \in Nat /\ c.recurrence.points \in Nat
      /\ c.daysUnresolved.points \in Nat /\ c.iocReputationContext.points \in Nat
      /\ c.sectorCriticality.points \in Nat /\ c.cvePresence.points \in Nat
      /\ c.kevStatus.points \in Nat /\ c.epssScore.points \in Nat
      /\ d.persistence.points \in Nat /\ d.daysUnresolved.points \in Nat
  BY <1>5 DEF Capped, Share
<1>7. RawTotal(c) <= RawTotal(d)
  BY <1>1, <1>2, <1>3, <1>4, <1>6, SumsGrow DEF RawTotal
<1> QED BY <1>7 DEF c, d

\* A score that replaces another as of no earlier instant, of an open finding that has not
\* returned since, with the same context, is in nothing worse.
LEMMA LaterIsNoBetter ==
    ASSUME RiskInv, NEW a \in Instants, current.asOf <= a,
           Inputs(a).status # "CLOSED",
           Inputs(a).recurrences <= current.inputs.recurrences,
           SameContext(current.inputs, Inputs(a))
    PROVE  Worse(current.inputs, Inputs(a))
<1>0. PICK b : b = current.asOf
  OBVIOUS
<1> DEFINE i == current.inputs
           j == Inputs(a)
<1>1. /\ j.status = finding.status /\ j.observations = Reports(a) /\ j.recurrences = Returns(a)
      /\ j.kev \in KevValues /\ DaysFit(j.days)
      /\ finding.status = "OPEN" /\ Since(a) <= a =>
             j.days = IF a - Since(a) > 3650 THEN 3650 ELSE a - Since(a)
  BY InputsRead DEF RiskInv
<1> HIDE DEF j
<1>2. /\ i.observations \in Nat /\ i.observations <= Reports(b)
      /\ i.recurrences \in Nat /\ i.recurrences <= Returns(b)
      /\ DaysFit(i.days)
      /\ (Returns(b) <= i.recurrences /\ i.days # -1) => i.days <= b - Since(b)
      /\ i.kev \in KevValues
  BY <1>0 DEF RiskInv, CountsStand, KevValues
<1>3. b \in Instants /\ b <= a /\ b \in Nat /\ a \in Nat
  BY <1>0, ScoreIsOfAnInstant, InstantsAreDays DEF RiskInv
<1>4. /\ Reports(b) <= Reports(a) /\ Returns(b) <= Returns(a)
      /\ Returns(a) <= Returns(b) => Since(a) = Since(b)
  BY <1>3, CountsLater DEF RiskInv
<1>5. /\ Reports(a) \in Nat /\ Returns(a) \in Nat /\ Reports(b) \in Nat /\ Returns(b) \in Nat
      /\ Since(a) \in Nat /\ Since(b) \in Nat
  BY SeenCounted, SinceTyped DEF RiskInv
<1>6. j.recurrences <= i.recurrences /\ j.status # "CLOSED" /\ SameContext(i, j)
  BY DEF j
<1> HIDE DEF i
<1>7. i.observations <= j.observations /\ j.observations \in Nat
  BY <1>1, <1>2, <1>4, <1>5
<1>8. Returns(a) = Returns(b) /\ i.recurrences = j.recurrences /\ Returns(b) <= i.recurrences
  BY <1>1, <1>2, <1>4, <1>5, <1>6
<1>9. i.days <= j.days
  <2>1. CASE i.days = -1
    BY <1>1, <2>1 DEF DaysFit
  <2>2. CASE i.days # -1
    <3>1. i.days <= a - Since(a) /\ i.days \in Nat /\ i.days <= 3650
      BY <1>2, <1>3, <1>4, <1>5, <1>8, <2>2 DEF DaysFit
    <3>2. Since(a) <= a
      BY <1>3, <1>5, <3>1
    <3>3. finding.status = "OPEN"
      BY <1>1, <1>6, PartsOfType DEF RiskInv, OtherRowsTyped, FindingShape
    <3>4. j.days = IF a - Since(a) > 3650 THEN 3650 ELSE a - Since(a)
      BY <1>1, <3>2, <3>3
    <3> QED BY <1>3, <1>5, <3>1, <3>4
  <2> QED BY <2>1, <2>2
<1>10. Worse(i, j)
  BY <1>1, <1>2, <1>6, <1>7, <1>8, <1>9 DEF Worse
<1> QED BY <1>10 DEF i, j

\* A score is calculated only by a rescore.
LEMMA ScoreMovesByRescore ==
    ASSUME [ScoreNext]_scoreVars, current' # current
    PROVE  \E r \in Requests : Rescore(r)
<1>1. CASE Tick BY <1>1 DEF Tick
<1>2. CASE CloseFinding BY <1>2 DEF CloseFinding
<1>3. ASSUME NEW r \in Requests, Begin(r) PROVE FALSE BY <1>3 DEF Begin
<1>4. ASSUME NEW r \in Requests, Observe(r) PROVE FALSE BY <1>4 DEF Observe
<1>5. ASSUME NEW r \in Requests, StoreAnswer(r) PROVE FALSE BY <1>5 DEF StoreAnswer
<1>6. ASSUME NEW r \in Requests, ReadClock(r) PROVE FALSE BY <1>6 DEF ReadClock
<1>7. ASSUME NEW r \in Requests, ChangeOwner(r) PROVE FALSE BY <1>7 DEF ChangeOwner
<1>8. ASSUME NEW r \in Requests, ChangeCve(r) PROVE FALSE BY <1>8 DEF ChangeCve
<1>9. ASSUME NEW r \in Requests, LoseRescore(r) PROVE FALSE BY <1>9 DEF LoseRescore
<1>10. CASE UNCHANGED scoreVars BY <1>10 DEF scoreVars
<1> QED BY <1>1, <1>2, <1>3, <1>4, <1>5, <1>6, <1>7, <1>8, <1>9, <1>10 DEF ScoreNext

Fall ==
    current'.score < current.score =>
        \/ current'.asOf < current.asOf
        \/ current'.inputs.status = "CLOSED"
        \/ current'.inputs.recurrences > current.inputs.recurrences
        \/ Context(current') # Context(current)

LEMMA FallStep ==
    ASSUME RiskInv, RiskInv', [ScoreNext]_scoreVars
    PROVE  Fall
<1> SUFFICES ASSUME current'.score < current.score, ~(current'.asOf < current.asOf),
                    current'.inputs.status # "CLOSED",
                    ~(current'.inputs.recurrences > current.inputs.recurrences),
                    Context(current') = Context(current)
             PROVE  FALSE
  BY DEF Fall
<1>1. current.score = RawTotal(current.contributions) /\ current.score \in Nat
  BY ScoresAreSums DEF CapNeverTruncates, Share
<1>2. current' # current
  BY <1>1
<1>3. PICK r \in Requests : Rescore(r)
  BY <1>2, ScoreMovesByRescore
<1>4. PICK a : a = req[r].asOf
  OBVIOUS
<1>5. a \in Instants
  BY <1>3, <1>4, AsOfIsInstant DEF Rescore
<1> DEFINE j == Inputs(a)
<1>6. current' = Snapshot(j, a)
  BY <1>2, <1>3, <1>4 DEF Rescore, CalculateAndPersist
<1> HIDE DEF j
<1>7. /\ current'.asOf = a /\ current'.inputs = j
      /\ current'.score = ScoreOf(Contributions(j))
  BY <1>6 DEF Snapshot
<1>8. current.asOf \in Nat /\ a \in Nat
  BY <1>5, ScoreIsOfAnInstant, InstantsAreDays DEF RiskInv
<1>9. SameContext(current.inputs, j)
  BY <1>7 DEF Context, SameContext
<1>10. j.recurrences \in Nat /\ current.inputs.recurrences \in Nat
  <2>1. j.recurrences \in Nat
    BY <1>7 DEF RiskInv, CountsStand
  <2> QED BY <2>1 DEF RiskInv, CountsStand
<1>11. Worse(current.inputs, j)
  BY <1>5, <1>7, <1>8, <1>9, <1>10, LaterIsNoBetter DEF j
<1>12. RawTotal(Contributions(current.inputs)) <= RawTotal(Contributions(j))
  BY <1>11, ScoresGrow
<1>13. Share(RawTotal(Contributions(j)), 10000)
  BY <1>11, ContributionsCapped, SharesAddUp DEF Worse
<1>14. current'.score = RawTotal(Contributions(j))
  BY <1>7, <1>13 DEF Share, ScoreOf, ScoreMax
<1>15. current.score = RawTotal(Contributions(current.inputs))
  BY <1>1 DEF RiskInv, ScoreExplained
<1> QED BY <1>1, <1>12, <1>13, <1>14, <1>15 DEF Share

\* Time and further reports alone never lower a score, whatever the evidence is and however
\* long the rows have been collected: a fall has one of the reasons named
\* (the tables of riskConfiguration, loadOccurrenceEvidence, calculateAndPersistRisk).
THEOREM FallsAreExplained == ScoreSpec => FallIsExplained
<1>1. RiskInv /\ RiskInv' /\ [ScoreNext]_scoreVars => [Fall]_scoreVars
  BY FallStep
<1> QED BY <1>1, RiskInvariance, PTL DEF ScoreSpec, FallIsExplained, Fall
=============================================================================
