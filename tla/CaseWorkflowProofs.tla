------------------------- MODULE CaseWorkflowProofs -------------------------
(***************************************************************************)
(* Theorems about CaseWorkflow that hold for every number of cases,        *)
(* findings, users, requests, occurrences and concurrent handlers.         *)
(***************************************************************************)
EXTENDS CaseWorkflow, FiniteSetTheorems, TLAPS

-----------------------------------------------------------------------------
(* The inductive invariant.                                                *)

\* A request that exists is about a case and gives a reason in use.
RequestsAreAboutCases ==
    \A r \in Requests :
        IF request[r].state = "ABSENT" THEN request[r].case = None
        ELSE request[r].case \in Cases /\ request[r].reason \in Reasons

\* A case is under review exactly while a request of it is pending, and there is
\* never a second one.
OneReviewAtATime ==
    /\ \A c \in Cases :
         case[c].state = "CLOSURE_PENDING"
             <=> \E r \in Requests : request[r].case = c /\ request[r].state = "PENDING"
    /\ \A q, r \in Requests :
         /\ request[q].state = "PENDING" /\ request[r].state = "PENDING"
         /\ request[q].case = request[r].case
         => q = r

\* A request for a remediated closure rests on a REMEDIATED response of its case from
\* the moment it is made.
Supported(r) ==
    request[r].reason = "REMEDIATED" =>
        /\ request[r].support \in Responses
        /\ response[request[r].support] = [case |-> request[r].case, type |-> "REMEDIATED"]

RequestsAreSupported == \A r \in Requests : request[r].state # "ABSENT" => Supported(r)

ApproversAreEntitled ==
    \A r \in Requests : request[r].state = "APPROVED" =>
        /\ request[r].reviewer \in Reviewers
        /\ request[r].reviewer # request[r].by \/ request[r].reviewer \in SelfApprovers

ClosuresGiveReasons ==
    \A c \in Cases :
        IF case[c].state = "CLOSED"
        THEN \E r \in Requests : /\ request[r].case = c /\ request[r].state = "APPROVED"
                                 /\ request[r].reason = case[c].closureReason
        ELSE case[c].closureReason = None

ReviewInv ==
    /\ RequestsAreAboutCases
    /\ OneReviewAtATime
    /\ RequestsAreSupported
    /\ ApproversAreEntitled
    /\ ClosuresGiveReasons

IInv == TypeOK /\ ReviewInv

-----------------------------------------------------------------------------
LEMMA ParamFacts ==
    /\ OrgOf \in [Cases -> Orgs] /\ FindingOf \in [Occurrences -> Findings]
    /\ None \notin Cases /\ None \notin Responses /\ None \notin Reasons
    /\ IsFiniteSet(Requests)
BY Params DEF ParamsAssumption

LEMMA StatesAre == States = {"OPEN", "WAITING_FOR_ORG", "CLOSURE_PENDING", "CLOSED"}
BY DEF States, AllowedTransitions

LEMMA InitHolds == Init => IInv
<1> SUFFICES ASSUME Init PROVE IInv
  OBVIOUS
<1>1. TypeOK
  BY ParamFacts, StatesAre
  DEF Init, TypeOK, CaseRow, RequestRow, ResponseRow, Handler, NoHandler, NoRequest, Event
<1>2. \A r \in Requests : request[r].state = "ABSENT" /\ request[r].case = None
  BY DEF Init, NoRequest
<1>3. \A c \in Cases : case[c].state = "ABSENT" /\ case[c].closureReason = None
  BY DEF Init
<1>4. ReviewInv
  BY <1>2, <1>3 DEF ReviewInv, RequestsAreAboutCases, OneReviewAtATime, RequestsAreSupported,
     ApproversAreEntitled, ClosuresGiveReasons
<1>5. QED
  BY <1>1, <1>4 DEF IInv

-----------------------------------------------------------------------------
(* What the shared statements do.                                          *)

\* A transition leaves the other cases alone and puts the case where it says.
LEMMA TransitionEffect ==
    ASSUME TypeOK, NEW c \in Cases, NEW to \in States, NEW code \in Codes,
           NEW row \in CaseRow, Transition(c, to, code, row)
    PROVE  /\ case' \in [Cases -> CaseRow]
           /\ events' \in [Cases -> Seq(Event)]
           /\ \A d \in Cases : case'[d] = IF d = c THEN [row EXCEPT !.state = to] ELSE case[d]
           /\ events'[c] = Append(events[c], [code |-> code, to |-> to])
<1>1. [row EXCEPT !.state = to] \in CaseRow
  BY DEF CaseRow
<1>2. case' = [case EXCEPT ![c] = [row EXCEPT !.state = to]]
  BY DEF Transition
<1>3. events' = [events EXCEPT ![c] = Append(events[c], [code |-> code, to |-> to])]
  BY DEF Transition, Log
<1>4. events \in [Cases -> Seq(Event)] /\ case \in [Cases -> CaseRow]
  BY DEF TypeOK
<1>5. [code |-> code, to |-> to] \in Event
  BY DEF Event
<1>6. events[c] \in Seq(Event)
  BY <1>4
<1>7. Append(events[c], [code |-> code, to |-> to]) \in Seq(Event)
  BY <1>5, <1>6
<1>8. QED
  BY <1>1, <1>2, <1>3, <1>4, <1>7

\* A case that is not under review may move, to any state an analyst sets, without the
\* reviews being any the worse.
LEMMA MoveOutsideReview ==
    ASSUME IInv, NEW c \in Cases, NEW row \in CaseRow,
           case[c].state # "CLOSURE_PENDING",
           row.state \in AnalystSettable, row.closureReason = None,
           \A d \in Cases : case'[d] = IF d = c THEN row ELSE case[d],
           UNCHANGED <<request, response>>
    PROVE  ReviewInv'
<1>1. \A d \in Cases : /\ case'[d].state = "CLOSURE_PENDING" <=> case[d].state = "CLOSURE_PENDING"
                       /\ \/ case'[d] = case[d]
                          \/ /\ case[d].state # "CLOSURE_PENDING"
                             /\ case'[d].state # "CLOSED" /\ case'[d].closureReason = None
  BY DEF AnalystSettable
<1>2. OneReviewAtATime'
  BY <1>1 DEF IInv, ReviewInv, OneReviewAtATime
<1>3. ClosuresGiveReasons'
  BY <1>1 DEF IInv, ReviewInv, ClosuresGiveReasons
<1>4. QED
  BY <1>2, <1>3 DEF IInv, ReviewInv, RequestsAreAboutCases, RequestsAreSupported, Supported,
     ApproversAreEntitled

\* What is not about cases, requests or responses does not touch the reviews.
LEMMA ReviewsUntouched ==
    ASSUME IInv, UNCHANGED <<case, request, response>>
    PROVE  ReviewInv'
BY DEF IInv, ReviewInv, RequestsAreAboutCases, OneReviewAtATime, RequestsAreSupported, Supported,
   ApproversAreEntitled, ClosuresGiveReasons

\* A reviewer's decision takes the only pending request of the case.
LEMMA DecisionEffect ==
    ASSUME IInv, NEW r \in Requests, NEW u \in Users, NEW d \in Decided,
           Pending(r), Decide(r, u, d)
    PROVE  /\ request' \in [Requests -> RequestRow]
           /\ request[r].case \in Cases
           /\ \A q \in Requests :
                request'[q] = IF q = r THEN [request[r] EXCEPT !.state = d, !.reviewer = u]
                              ELSE request[q]
<1>1. request' = [request EXCEPT ![r] = [request[r] EXCEPT !.state = d, !.reviewer = u]]
  BY DEF Decide, IInv, TypeOK
<1>2. [request[r] EXCEPT !.state = d, !.reviewer = u] \in RequestRow
  <2>1. request[r] \in RequestRow
    BY DEF IInv, TypeOK
  <2>2. QED
    BY <2>1 DEF RequestRow
<1>3. request[r].case \in Cases
  BY DEF IInv, ReviewInv, RequestsAreAboutCases, Pending
<1>4. QED
  BY <1>1, <1>2, <1>3 DEF IInv, TypeOK

-----------------------------------------------------------------------------
(* One lemma per action, for the type of the rows and for the reviews.      *)

LEMMA CreateCasePreserves ==
    ASSUME IInv, NEW c \in Cases, CreateCase(c)
    PROVE  IInv'
<1> DEFINE row == [case[c] EXCEPT !.state = "OPEN"]
<1>1. case[c] \in CaseRow /\ case \in [Cases -> CaseRow] /\ events \in [Cases -> Seq(Event)]
  BY DEF IInv, TypeOK
<1>2. row \in CaseRow
  BY <1>1, StatesAre DEF CaseRow
<1>3. case' = [case EXCEPT ![c] = row]
  BY <1>1 DEF CreateCase
<1>4. [code |-> "CASE_CREATED", to |-> "OPEN"] \in Event
  BY StatesAre DEF Event, Codes
<1>5. events' \in [Cases -> Seq(Event)]
  BY <1>1, <1>4 DEF CreateCase, Log
<1>6. case' \in [Cases -> CaseRow] /\ \A d \in Cases : case'[d] = IF d = c THEN row ELSE case[d]
  BY <1>1, <1>2, <1>3
<1>7. row.state = "OPEN" /\ row.closureReason = case[c].closureReason
  BY <1>1 DEF CaseRow
<1>8. case[c].state = "ABSENT"
  BY DEF CreateCase
<1>9. case[c].closureReason = None
  BY <1>8 DEF IInv, ReviewInv, ClosuresGiveReasons
<1>10. ReviewInv'
  <2> HIDE DEF row
  <2>1. UNCHANGED <<request, response>>
    BY DEF CreateCase
  <2>2. row.state \in AnalystSettable /\ row.closureReason = None
    BY <1>7, <1>9 DEF AnalystSettable
  <2>3. QED
    BY <1>2, <1>6, <1>8, <2>1, <2>2, MoveOutsideReview
<1>11. TypeOK'
  BY <1>5, <1>6 DEF CreateCase, IInv, TypeOK
<1>12. QED
  BY <1>10, <1>11 DEF IInv

\* A transition made outside a review to a state that an analyst sets.
LEMMA TransitionOutsideReview ==
    ASSUME IInv, NEW c \in Cases, NEW to \in AnalystSettable, NEW code \in Codes,
           NEW row \in CaseRow, Transition(c, to, code, row),
           case[c].state # "CLOSURE_PENDING", row.closureReason = None,
           UNCHANGED <<request, response>>
    PROVE  /\ case' \in [Cases -> CaseRow]
           /\ events' \in [Cases -> Seq(Event)]
           /\ ReviewInv'
<1> DEFINE moved == [row EXCEPT !.state = to]
<1>1. to \in States
  BY StatesAre DEF AnalystSettable
<1>2. /\ case' \in [Cases -> CaseRow]
      /\ events' \in [Cases -> Seq(Event)]
      /\ \A d \in Cases : case'[d] = IF d = c THEN moved ELSE case[d]
  BY <1>1, TransitionEffect DEF IInv
<1>3. moved \in CaseRow /\ moved.state = to /\ moved.closureReason = None
  BY <1>1 DEF CaseRow
<1>4. ReviewInv'
  <2> HIDE DEF moved
  <2> QED
    BY <1>2, <1>3, MoveOutsideReview
<1>5. QED
  BY <1>2, <1>4

LEMMA ChangeCaseStatePreserves ==
    ASSUME IInv, NEW c \in Cases, NEW to \in AnalystSettable, ChangeCaseState(c, to)
    PROVE  IInv'
<1>1. case[c] \in CaseRow
  BY DEF IInv, TypeOK
<1>2. case[c].state # "CLOSURE_PENDING" /\ case[c].state # "CLOSED"
  BY DEF ChangeCaseState, AnalystSettable
<1>3. case[c].closureReason = None
  BY <1>2 DEF IInv, ReviewInv, ClosuresGiveReasons
<1>4. /\ Transition(c, to, "STATE_CHANGED_BY_ANALYST", case[c])
      /\ UNCHANGED <<request, response>>
      /\ "STATE_CHANGED_BY_ANALYST" \in Codes
  BY DEF ChangeCaseState, Codes
<1>5. case' \in [Cases -> CaseRow] /\ events' \in [Cases -> Seq(Event)] /\ ReviewInv'
  BY <1>1, <1>2, <1>3, <1>4, TransitionOutsideReview
<1>6. QED
  BY <1>5 DEF ChangeCaseState, IInv, TypeOK

\* The row of a reopened case gives no reason.
LEMMA ReopenedRow ==
    ASSUME IInv, NEW c \in Cases
    PROVE  Reopened(c) \in CaseRow /\ Reopened(c).closureReason = None
<1>1. case[c] \in CaseRow
  BY DEF IInv, TypeOK
<1>2. case[c].reopenedCount + 1 \in Nat
  BY <1>1 DEF CaseRow
<1>3. Reopened(c) = [case[c] EXCEPT !.closureReason = None,
                                   !.reopenedCount = case[c].reopenedCount + 1]
  BY <1>1 DEF Reopened, CaseRow
<1>4. QED
  BY <1>1, <1>2, <1>3 DEF CaseRow

LEMMA ReopenCasePreserves ==
    ASSUME IInv, NEW c \in Cases, ReopenCase(c)
    PROVE  IInv'
<1>1. /\ Transition(c, "OPEN", "REOPENED_MANUALLY", Reopened(c))
      /\ case[c].state # "CLOSURE_PENDING"
      /\ UNCHANGED <<request, response>>
      /\ "REOPENED_MANUALLY" \in Codes /\ "OPEN" \in AnalystSettable
  BY DEF ReopenCase, Codes, AnalystSettable
<1>2. case' \in [Cases -> CaseRow] /\ events' \in [Cases -> Seq(Event)] /\ ReviewInv'
  BY <1>1, ReopenedRow, TransitionOutsideReview
<1>3. QED
  BY <1>2 DEF ReopenCase, IInv, TypeOK

LEMMA RequestClosurePreserves ==
    ASSUME IInv, NEW c \in Cases, NEW r \in Requests, NEW u \in Users, NEW reason \in Reasons,
           RequestClosure(c, r, u, reason)
    PROVE  IInv'
<1> DEFINE asked(p) == [state |-> "PENDING", case |-> c, reason |-> reason,
                        by |-> u, reviewer |-> None, support |-> p]
<1>1. /\ case \in [Cases -> CaseRow] /\ request \in [Requests -> RequestRow]
      /\ case[c] \in CaseRow
  BY DEF IInv, TypeOK
<1>2. PICK p \in (IF reason = "REMEDIATED" THEN Remediations(c) ELSE {None}) :
        request' = [request EXCEPT ![r] = asked(p)]
  BY DEF RequestClosure
<1>3. p \in Responses \cup {None}
  BY <1>2 DEF Remediations
<1>4. asked(p) \in RequestRow
  BY <1>3 DEF RequestRow
<1>5. /\ request' \in [Requests -> RequestRow]
      /\ \A q \in Requests : request'[q] = IF q = r THEN asked(p) ELSE request[q]
  BY <1>1, <1>2, <1>4
<1>6. /\ Transition(c, "CLOSURE_PENDING", "CLOSURE_REQUESTED_BY_ANALYST", case[c])
      /\ "CLOSURE_PENDING" \in States /\ "CLOSURE_REQUESTED_BY_ANALYST" \in Codes
  BY StatesAre DEF RequestClosure, Codes
<1>7. /\ case' \in [Cases -> CaseRow] /\ events' \in [Cases -> Seq(Event)]
      /\ \A d \in Cases : case'[d] = IF d = c THEN [case[c] EXCEPT !.state = "CLOSURE_PENDING"]
                                       ELSE case[d]
  BY <1>1, <1>6, TransitionEffect DEF IInv
<1>8. TypeOK'
  BY <1>5, <1>7 DEF RequestClosure, IInv, TypeOK
<1>9. /\ request[r].state = "ABSENT"
      /\ case[c].state # "CLOSED" /\ case[c].state # "CLOSURE_PENDING"
      /\ UNCHANGED response
      /\ \A q \in Requests : request[q].case = c => request[q].state # "PENDING"
  BY DEF RequestClosure, AnalystSettable
<1>10. /\ asked(p).state = "PENDING" /\ asked(p).case = c /\ asked(p).reason = reason
       /\ asked(p).support = p
  OBVIOUS
<1>11. \A d \in Cases : /\ d # c => case'[d] = case[d]
                        /\ case'[c].state = "CLOSURE_PENDING"
                        /\ case'[c].closureReason = case[c].closureReason
  BY <1>1, <1>7 DEF CaseRow
<1>12. reason = "REMEDIATED" =>
         p \in Responses /\ response[p] = [case |-> c, type |-> "REMEDIATED"]
  BY <1>2 DEF Remediations
<1> HIDE DEF asked
<1>13. RequestsAreAboutCases'
  BY <1>5, <1>10 DEF IInv, ReviewInv, RequestsAreAboutCases
<1>14. OneReviewAtATime'
  <2>1. \A d \in Cases :
          case'[d].state = "CLOSURE_PENDING"
             <=> \E q \in Requests : request'[q].case = d /\ request'[q].state = "PENDING"
    BY <1>5, <1>9, <1>10, <1>11 DEF IInv, ReviewInv, OneReviewAtATime
  <2>2. ASSUME NEW q \in Requests, NEW s \in Requests,
               request'[q].state = "PENDING", request'[s].state = "PENDING",
               request'[q].case = request'[s].case
        PROVE  q = s
    BY <2>2, <1>5, <1>9, <1>10 DEF IInv, ReviewInv, OneReviewAtATime
  <2>3. QED
    BY <2>1, <2>2 DEF OneReviewAtATime
<1>15. RequestsAreSupported'
  BY <1>5, <1>9, <1>10, <1>12 DEF IInv, ReviewInv, RequestsAreSupported, Supported
<1>16. ApproversAreEntitled'
  BY <1>5, <1>10 DEF IInv, ReviewInv, ApproversAreEntitled
<1>17. ClosuresGiveReasons'
  <2> SUFFICES ASSUME NEW d \in Cases
               PROVE IF case'[d].state = "CLOSED"
                     THEN \E q \in Requests : /\ request'[q].case = d /\ request'[q].state = "APPROVED"
                                              /\ request'[q].reason = case'[d].closureReason
                     ELSE case'[d].closureReason = None
    BY DEF ClosuresGiveReasons
  <2>1. CASE d = c
    BY <2>1, <1>9, <1>11 DEF IInv, ReviewInv, ClosuresGiveReasons
  <2>2. CASE d # c
    <3>1. CASE case[d].state = "CLOSED"
      <4>1. PICK q \in Requests : /\ request[q].case = d /\ request[q].state = "APPROVED"
                                  /\ request[q].reason = case[d].closureReason
        BY <3>1 DEF IInv, ReviewInv, ClosuresGiveReasons
      <4>2. request'[q] = request[q]
        BY <4>1, <1>5, <1>9
      <4>3. QED
        BY <4>1, <4>2, <3>1, <2>2, <1>11
    <3>2. CASE case[d].state # "CLOSED"
      BY <3>2, <2>2, <1>11 DEF IInv, ReviewInv, ClosuresGiveReasons
    <3>3. QED
      BY <3>1, <3>2
  <2>3. QED
    BY <2>1, <2>2
<1>18. QED
  BY <1>8, <1>13, <1>14, <1>15, <1>16, <1>17 DEF IInv, ReviewInv

\* A decision ends the review: the case is closed for the reason asked, or open again.
LEMMA DecisionPreserves ==
    ASSUME IInv, NEW r \in Requests, NEW u \in Reviewers, NEW d \in Decided,
           NEW to \in {"CLOSED", "OPEN"}, NEW code \in Codes, NEW row \in CaseRow,
           Pending(r), Decide(r, u, d), Transition(request[r].case, to, code, row),
           d = "APPROVED" => ~SelfApproval(r, u),
           \/ to = "CLOSED" /\ d = "APPROVED" /\ row.closureReason = request[r].reason
           \/ to = "OPEN" /\ row.closureReason = None,
           case[request[r].case].state = "CLOSURE_PENDING",
           UNCHANGED response
    PROVE  /\ case' \in [Cases -> CaseRow]
           /\ events' \in [Cases -> Seq(Event)]
           /\ request' \in [Requests -> RequestRow]
           /\ ReviewInv'
<1> DEFINE c == request[r].case
           decided == [request[r] EXCEPT !.state = d, !.reviewer = u]
           moved == [row EXCEPT !.state = to]
<1>1. u \in Users
  BY Params DEF ParamsAssumption
<1>2. /\ c \in Cases /\ request' \in [Requests -> RequestRow]
      /\ \A q \in Requests : request'[q] = IF q = r THEN decided ELSE request[q]
  BY <1>1, DecisionEffect
<1>3. to \in States
  BY StatesAre
<1>4. /\ case' \in [Cases -> CaseRow] /\ events' \in [Cases -> Seq(Event)]
      /\ \A e \in Cases : case'[e] = IF e = c THEN moved ELSE case[e]
  BY ZenonT(40), <1>2, <1>3, TransitionEffect DEF IInv
<1>5. request[r] \in RequestRow
  BY DEF IInv, TypeOK
<1>6. /\ decided.state = d /\ decided.reviewer = u
      /\ decided.case = c /\ decided.reason = request[r].reason
      /\ decided.by = request[r].by /\ decided.support = request[r].support
  BY <1>5 DEF RequestRow
<1>7. moved.state = to /\ moved.closureReason = row.closureReason
  BY DEF CaseRow
<1>8. request[r].state = "PENDING" /\ d # "PENDING" /\ d # "ABSENT"
  BY DEF Pending, Decided
<1> HIDE DEF decided, moved
<1>9. RequestsAreAboutCases'
  BY <1>2, <1>6, <1>8 DEF IInv, ReviewInv, RequestsAreAboutCases
<1>10. OneReviewAtATime'
  <2>1. \A e \in Cases :
          case'[e].state = "CLOSURE_PENDING"
             <=> \E q \in Requests : request'[q].case = e /\ request'[q].state = "PENDING"
    <3> SUFFICES ASSUME NEW e \in Cases
                 PROVE case'[e].state = "CLOSURE_PENDING"
                         <=> \E q \in Requests : request'[q].case = e /\ request'[q].state = "PENDING"
      OBVIOUS
    <3>1. CASE e = c
      <4>1. case'[e].state # "CLOSURE_PENDING"
        BY <3>1, <1>4, <1>7
      <4>2. ASSUME NEW q \in Requests, request'[q].case = e, request'[q].state = "PENDING"
            PROVE  FALSE
        <5>1. q # r
          BY <4>2, <1>2, <1>6, <1>8
        <5>2. request[q].case = c /\ request[q].state = "PENDING"
          BY <5>1, <4>2, <3>1, <1>2
        <5>3. QED
          BY <5>1, <5>2, <1>8 DEF IInv, ReviewInv, OneReviewAtATime
      <4>3. QED
        BY <4>1, <4>2
    <3>2. CASE e # c
      <4>1. case'[e] = case[e]
        BY <3>2, <1>4
      <4>2. \A q \in Requests : request'[q].case = e => request'[q] = request[q]
        BY <3>2, <1>2, <1>6
      <4>3. \A q \in Requests : request[q].case = e => request'[q] = request[q]
        BY <3>2, <1>2
      <4>4. case[e].state = "CLOSURE_PENDING"
               <=> \E q \in Requests : request[q].case = e /\ request[q].state = "PENDING"
        BY DEF IInv, ReviewInv, OneReviewAtATime
      <4>5. QED
        BY <4>1, <4>2, <4>3, <4>4
    <3>3. QED
      BY <3>1, <3>2
  <2>2. \A q, s \in Requests :
          /\ request'[q].state = "PENDING" /\ request'[s].state = "PENDING"
          /\ request'[q].case = request'[s].case
          => q = s
    BY <1>2, <1>6, <1>8 DEF IInv, ReviewInv, OneReviewAtATime
  <2>3. QED
    BY <2>1, <2>2 DEF OneReviewAtATime
<1>11. RequestsAreSupported'
  BY <1>2, <1>6, <1>8 DEF IInv, ReviewInv, RequestsAreSupported, Supported
<1>12. ApproversAreEntitled'
  BY <1>2, <1>6 DEF IInv, ReviewInv, ApproversAreEntitled, SelfApproval
<1>13. ClosuresGiveReasons'
  <2> SUFFICES ASSUME NEW e \in Cases
               PROVE IF case'[e].state = "CLOSED"
                     THEN \E q \in Requests : /\ request'[q].case = e /\ request'[q].state = "APPROVED"
                                              /\ request'[q].reason = case'[e].closureReason
                     ELSE case'[e].closureReason = None
    BY DEF ClosuresGiveReasons
  <2>1. CASE e = c
    <3>1. case'[e].state = to /\ case'[e].closureReason = row.closureReason
      BY <2>1, <1>4, <1>7
    <3>2. CASE to = "CLOSED"
      <4>1. request'[r].case = e /\ request'[r].state = "APPROVED"
            /\ request'[r].reason = case'[e].closureReason
        BY <3>1, <3>2, <2>1, <1>2, <1>6
      <4>2. QED
        BY <4>1, <3>1, <3>2
    <3>3. CASE to = "OPEN"
      BY <3>1, <3>3
    <3>4. QED
      BY <3>2, <3>3
  <2>2. CASE e # c
    <3>1. case'[e] = case[e]
      BY <2>2, <1>4
    <3>2. CASE case[e].state = "CLOSED"
      <4>1. PICK q \in Requests : /\ request[q].case = e /\ request[q].state = "APPROVED"
                                  /\ request[q].reason = case[e].closureReason
        BY <3>2 DEF IInv, ReviewInv, ClosuresGiveReasons
      <4>2. request'[q] = request[q]
        BY <4>1, <1>2, <1>8
      <4>3. QED
        BY <4>1, <4>2, <3>1, <3>2
    <3>3. CASE case[e].state # "CLOSED"
      BY <3>1, <3>3 DEF IInv, ReviewInv, ClosuresGiveReasons
    <3>4. QED
      BY <3>2, <3>3
  <2>3. QED
    BY <2>1, <2>2
<1>14. QED
  BY <1>2, <1>4, <1>9, <1>10, <1>11, <1>12, <1>13 DEF ReviewInv

LEMMA ApproveClosurePreserves ==
    ASSUME IInv, NEW r \in Requests, NEW u \in Users, ApproveClosure(r, u)
    PROVE  IInv'
<1> DEFINE c == request[r].case
           row == [case[c] EXCEPT !.closureReason = request[r].reason]
<1>1. /\ u \in Reviewers /\ Pending(r) /\ ~SelfApproval(r, u)
      /\ case[c].state = "CLOSURE_PENDING" /\ Decide(r, u, "APPROVED")
      /\ Transition(c, "CLOSED", "CLOSURE_APPROVED_BY_REVIEWER", row)
      /\ UNCHANGED <<response, link, owner, triage, ledger, handler>>
  BY DEF ApproveClosure
<1>2. c \in Cases /\ request[r].reason \in Reasons
  BY <1>1 DEF IInv, ReviewInv, RequestsAreAboutCases, Pending
<1>3. case[c] \in CaseRow
  BY <1>2 DEF IInv, TypeOK
<1>4. row \in CaseRow /\ row.closureReason = request[r].reason
  BY <1>2, <1>3 DEF CaseRow
<1>5. "APPROVED" \in Decided /\ "CLOSURE_APPROVED_BY_REVIEWER" \in Codes
  BY DEF Decided, Codes
<1> HIDE DEF row
<1>6. /\ case' \in [Cases -> CaseRow] /\ events' \in [Cases -> Seq(Event)]
      /\ request' \in [Requests -> RequestRow] /\ ReviewInv'
  BY <1>1, <1>4, <1>5, DecisionPreserves
<1>7. QED
  BY <1>1, <1>6 DEF IInv, TypeOK

LEMMA RejectClosurePreserves ==
    ASSUME IInv, NEW r \in Requests, NEW u \in Users, RejectClosure(r, u)
    PROVE  IInv'
<1> DEFINE c == request[r].case
<1>1. /\ u \in Reviewers /\ Pending(r)
      /\ case[c].state = "CLOSURE_PENDING" /\ Decide(r, u, "REJECTED")
      /\ Transition(c, "OPEN", "CLOSURE_REJECTED_BY_REVIEWER", case[c])
      /\ UNCHANGED <<response, link, owner, triage, ledger, handler>>
  BY DEF RejectClosure
<1>2. c \in Cases
  BY <1>1 DEF IInv, ReviewInv, RequestsAreAboutCases, Pending
<1>3. case[c] \in CaseRow
  BY <1>2 DEF IInv, TypeOK
<1>4. case[c].closureReason = None
  BY <1>1, <1>2 DEF IInv, ReviewInv, ClosuresGiveReasons
<1>5. "REJECTED" \in Decided /\ "CLOSURE_REJECTED_BY_REVIEWER" \in Codes
  BY DEF Decided, Codes
<1>6. /\ case' \in [Cases -> CaseRow] /\ events' \in [Cases -> Seq(Event)]
      /\ request' \in [Requests -> RequestRow] /\ ReviewInv'
  BY <1>1, <1>3, <1>4, <1>5, DecisionPreserves
<1>7. QED
  BY <1>1, <1>6 DEF IInv, TypeOK

-----------------------------------------------------------------------------
(* What handlers remember.                                                 *)

LEMMA MemoryTyped ==
    ASSUME TypeOK, NEW h \in Handlers
    PROVE  /\ handler[h] \in Handler /\ NoHandler \in Handler
           /\ Forget(h) => handler' \in [Handlers -> Handler]
           /\ \A c \in Cases : Done(h, c) => handler' \in [Handlers -> Handler]
<1>1. handler \in [Handlers -> Handler] /\ handler[h] \in Handler
  BY DEF TypeOK
<1>2. NoHandler \in Handler
  BY DEF NoHandler, Handler
<1>3. Forget(h) => handler' \in [Handlers -> Handler]
  BY <1>1, <1>2 DEF Forget
<1>4. ASSUME NEW c \in Cases, Done(h, c)
      PROVE  handler' \in [Handlers -> Handler]
  <2> DEFINE rest == [handler[h] EXCEPT !.todo = handler[h].todo \ {c}]
  <2>1. handler' = [handler EXCEPT ![h] = IF handler[h].todo = {c} THEN NoHandler ELSE rest]
    BY <1>1, <1>4 DEF Done
  <2>2. rest \in Handler
    BY <1>1 DEF Handler
  <2>3. QED
    BY <1>1, <1>2, <2>1, <2>2
<1>5. QED
  BY <1>1, <1>2, <1>3, <1>4

LEMMA ReadCaseForResponsePreserves ==
    ASSUME IInv, NEW h \in Handlers, NEW c \in Cases, ReadCaseForResponse(h, c)
    PROVE  IInv'
<1> DEFINE row == [NoHandler EXCEPT !.pc = "responding", !.case = c, !.finding = None]
<1>1. row \in Handler
  BY DEF Handler, NoHandler
<1>2. handler' = [handler EXCEPT ![h] = row]
  BY DEF ReadCaseForResponse, Recall
<1>3. TypeOK'
  BY <1>1, <1>2 DEF ReadCaseForResponse, IInv, TypeOK
<1>4. QED
  BY <1>3, ReviewsUntouched DEF ReadCaseForResponse, IInv

LEMMA ReadCaseForLinkPreserves ==
    ASSUME IInv, NEW h \in Handlers, NEW c \in Cases, NEW f \in Findings, ReadCaseForLink(h, c, f)
    PROVE  IInv'
<1> DEFINE row == [NoHandler EXCEPT !.pc = "linking", !.case = c, !.finding = f]
<1>1. row \in Handler
  BY DEF Handler, NoHandler
<1>2. handler' = [handler EXCEPT ![h] = row]
  BY DEF ReadCaseForLink, Recall
<1>3. TypeOK'
  BY <1>1, <1>2 DEF ReadCaseForLink, IInv, TypeOK
<1>4. QED
  BY <1>3, ReviewsUntouched DEF ReadCaseForLink, IInv

LEMMA ListLinksPreserves ==
    ASSUME IInv, NEW h \in Handlers, NEW o \in Occurrences, ListLinks(h, o)
    PROVE  IInv'
<1> DEFINE linked == {c \in Cases : link[<<c, FindingOf[o]>>] = "LINKED"}
           row == [NoHandler EXCEPT !.pc = "reopening", !.occ = o, !.todo = linked]
<1>1. row \in Handler
  BY DEF Handler, NoHandler
<1>2. handler' = [handler EXCEPT ![h] = row]
  BY DEF ListLinks
<1> HIDE DEF row
<1>3. TypeOK'
  BY <1>1, <1>2 DEF ListLinks, IInv, TypeOK
<1>4. QED
  BY <1>3, ReviewsUntouched DEF ListLinks, IInv

\* A response fills an empty row, and no request rests on an empty row.
LEMMA RecordOrganizationResponsePreserves ==
    ASSUME IInv, NEW h \in Handlers, NEW p \in Responses, NEW type \in {"REMEDIATED", "OTHER"},
           RecordOrganizationResponse(h, p, type)
    PROVE  IInv'
<1> DEFINE row == [case |-> handler[h].case, type |-> type]
<1>1. handler[h].case \in Cases \cup {None}
  BY DEF IInv, TypeOK, Handler
<1>2. row \in ResponseRow
  BY <1>1 DEF ResponseRow
<1>3. response' = [response EXCEPT ![p] = row] /\ response[p].case = None
  BY DEF RecordOrganizationResponse
<1> HIDE DEF row
<1>4. handler' \in [Handlers -> Handler]
  BY MemoryTyped DEF IInv, RecordOrganizationResponse
<1>5. TypeOK'
  BY <1>2, <1>3, <1>4 DEF RecordOrganizationResponse, IInv, TypeOK
<1>6. UNCHANGED <<case, request>>
  BY DEF RecordOrganizationResponse
<1>7. ASSUME NEW r \in Requests, request[r].state # "ABSENT", request[r].reason = "REMEDIATED"
      PROVE  /\ request[r].support \in Responses
             /\ response'[request[r].support] = [case |-> request[r].case, type |-> "REMEDIATED"]
  <2>1. /\ request[r].support \in Responses /\ request[r].case \in Cases
        /\ response[request[r].support] = [case |-> request[r].case, type |-> "REMEDIATED"]
    BY <1>7 DEF IInv, ReviewInv, RequestsAreSupported, Supported, RequestsAreAboutCases
  <2>2. request[r].support # p
    BY <2>1, <1>3, ParamFacts
  <2>3. QED
    BY <2>1, <2>2, <1>3 DEF IInv, TypeOK
<1>8. RequestsAreSupported'
  BY <1>6, <1>7 DEF RequestsAreSupported, Supported
<1>9. ReviewInv'
  BY <1>6, <1>8 DEF IInv, ReviewInv, RequestsAreAboutCases, OneReviewAtATime,
     ApproversAreEntitled, ClosuresGiveReasons
<1>10. QED
  BY <1>5, <1>9 DEF IInv

-----------------------------------------------------------------------------
(* Links, triage, ownership and the reopening pass.                        *)

LEMMA LinkFindingPreserves ==
    ASSUME IInv, NEW h \in Handlers, LinkFinding(h)
    PROVE  IInv'
<1>1. handler' \in [Handlers -> Handler]
  BY MemoryTyped DEF IInv, LinkFinding
<1>2. /\ link' \in [Cases \X Findings -> {"NONE", "LINKED", "UNLINKED"}]
      /\ triage' \in [Findings -> {"UNTRIAGED", "IN_REVIEW", "ESCALATED", "DISMISSED"}]
  BY DEF LinkFinding, Escalated, IInv, TypeOK
<1>3. TypeOK'
  BY <1>1, <1>2 DEF LinkFinding, IInv, TypeOK
<1>4. QED
  BY <1>3, ReviewsUntouched DEF LinkFinding, IInv

LEMMA FindingRowsPreserve ==
    ASSUME IInv, NEW f \in Findings,
           \/ \E c \in Cases : UnlinkFinding(c, f)
           \/ \E d \in {"IN_REVIEW", "ESCALATED", "DISMISSED"} : RecordTriageDecision(f, d)
           \/ \E o \in Orgs \cup {None} : OwnershipChanges(f, o)
    PROVE  IInv'
<1>1. TypeOK'
  BY ZenonT(40) DEF UnlinkFinding, RecordTriageDecision, OwnershipChanges, IInv, TypeOK
<1>2. QED
  BY <1>1, ReviewsUntouched DEF UnlinkFinding, RecordTriageDecision, OwnershipChanges, IInv

LEMMA ReopenByRecurrencePreserves ==
    ASSUME IInv, NEW h \in Handlers, NEW c \in Cases, ReopenByRecurrence(h, c)
    PROVE  IInv'
<1>1. /\ Transition(c, "OPEN", "REOPENED_BY_RECURRENCE", Reopened(c))
      /\ case[c].state # "CLOSURE_PENDING"
      /\ UNCHANGED <<request, response, link, owner>>
      /\ "REOPENED_BY_RECURRENCE" \in Codes /\ "OPEN" \in AnalystSettable
  BY DEF ReopenByRecurrence, QualifiesForReopen, Codes, AnalystSettable
<1>2. case' \in [Cases -> CaseRow] /\ events' \in [Cases -> Seq(Event)] /\ ReviewInv'
  BY <1>1, ReopenedRow, TransitionOutsideReview
<1>3. handler' \in [Handlers -> Handler]
  BY MemoryTyped DEF IInv, ReopenByRecurrence
<1>4. /\ triage' \in [Findings -> {"UNTRIAGED", "IN_REVIEW", "ESCALATED", "DISMISSED"}]
      /\ ledger' \in [Occurrences \X Cases -> {"NONE", "REOPENED", "SKIPPED_NOT_CLOSED",
                                               "SKIPPED_CLOSURE_REASON_NOT_REMEDIATED"}]
  BY DEF ReopenByRecurrence, Escalated, IInv, TypeOK
<1>5. QED
  BY <1>1, <1>2, <1>3, <1>4 DEF IInv, TypeOK

LEMMA OtherHandlerStepsPreserve ==
    ASSUME IInv, NEW h \in Handlers,
           Abandon(h) \/ \E c \in Cases : DeclineReopen(h, c) \/ PairFails(h, c)
    PROVE  IInv'
<1>1. handler' \in [Handlers -> Handler]
  BY MemoryTyped DEF IInv, Abandon, DeclineReopen, PairFails
<1>2. ledger' \in [Occurrences \X Cases -> {"NONE", "REOPENED", "SKIPPED_NOT_CLOSED",
                                            "SKIPPED_CLOSURE_REASON_NOT_REMEDIATED"}]
  BY DEF Abandon, DeclineReopen, PairFails, LedgerOutcome, IInv, TypeOK
<1>3. TypeOK'
  BY <1>1, <1>2 DEF Abandon, DeclineReopen, PairFails, IInv, TypeOK
<1>4. QED
  BY <1>3, ReviewsUntouched DEF Abandon, DeclineReopen, PairFails, IInv

-----------------------------------------------------------------------------
(* The invariant is inductive, and what follows from it.                    *)

LEMMA StepPreserves == IInv /\ [Next]_vars => IInv'
<1> SUFFICES ASSUME IInv, [Next]_vars PROVE IInv'
  OBVIOUS
<1>1. ASSUME NEW c \in Cases, CaseStep(c)
      PROVE  IInv'
  BY <1>1, CreateCasePreserves, ReopenCasePreserves, ChangeCaseStatePreserves,
     RequestClosurePreserves, FindingRowsPreserve DEF CaseStep
<1>2. ASSUME NEW r \in Requests, ReviewStep(r)
      PROVE  IInv'
  BY <1>2, ApproveClosurePreserves, RejectClosurePreserves DEF ReviewStep
<1>3. ASSUME NEW f \in Findings, FindingStep(f)
      PROVE  IInv'
  BY <1>3, FindingRowsPreserve DEF FindingStep
<1>4. ASSUME NEW h \in Handlers, HandlerStep(h)
      PROVE  IInv'
  BY <1>4, ReadCaseForResponsePreserves, ReadCaseForLinkPreserves, ListLinksPreserves,
     RecordOrganizationResponsePreserves, LinkFindingPreserves, ReopenByRecurrencePreserves,
     OtherHandlerStepsPreserve DEF HandlerStep
<1>5. CASE UNCHANGED vars
  <2>1. TypeOK'
    BY <1>5 DEF vars, IInv, TypeOK
  <2>2. QED
    BY <1>5, <2>1, ReviewsUntouched DEF vars, IInv
<1>6. QED
  BY <1>1, <1>2, <1>3, <1>4, <1>5 DEF Next

LEMMA Inductive == Spec => []IInv
<1>1. QED
  BY InitHolds, StepPreserves, PTL DEF Spec

\* Every row of the workflow is well formed, for any number of cases, findings, users
\* and handlers.
THEOREM TypeCorrect == Spec => []TypeOK
<1>1. IInv => TypeOK
  BY DEF IInv
<1>2. QED
  BY <1>1, Inductive, PTL

\* A case awaits review exactly while one closure request of it is undecided: neither an
\* analyst, nor a recurrence, nor a second reviewer leaves a request behind.
THEOREM OneReviewPerPendingCase == Spec => []PendingIffUnderReview
<1>1. IInv => PendingIffUnderReview
  <2> SUFFICES ASSUME IInv, NEW c \in Cases
               PROVE Cardinality(Asked(c, {"PENDING"}))
                        = IF case[c].state = "CLOSURE_PENDING" THEN 1 ELSE 0
    BY DEF PendingIffUnderReview
  <2>1. \A r : r \in Asked(c, {"PENDING"})
                 <=> r \in Requests /\ request[r].case = c /\ request[r].state = "PENDING"
    BY DEF Asked
  <2>2. CASE case[c].state = "CLOSURE_PENDING"
    <3>1. PICK r \in Requests : request[r].case = c /\ request[r].state = "PENDING"
      BY <2>2 DEF IInv, ReviewInv, OneReviewAtATime
    <3>2. \A q \in Asked(c, {"PENDING"}) : q = r
      BY <3>1, <2>1 DEF IInv, ReviewInv, OneReviewAtATime
    <3>3. Asked(c, {"PENDING"}) = {r}
      BY <3>1, <3>2, <2>1
    <3>4. QED
      BY <3>3, <2>2, FS_Singleton
  <2>3. CASE case[c].state # "CLOSURE_PENDING"
    <3>1. Asked(c, {"PENDING"}) = {}
      BY <2>1, <2>3 DEF IInv, ReviewInv, OneReviewAtATime
    <3>2. QED
      BY <3>1, <2>3, FS_EmptySet
  <2>4. QED
    BY <2>2, <2>3
<1>2. QED
  BY <1>1, Inductive, PTL

\* Separation of duties: an approval is never the requester's own without the override,
\* and a closed case gives the reason of a request that was approved, supported by a
\* response where the reason is remediation.
THEOREM ClosuresAreReviewed == Spec => []ClosureWasReviewed
<1>1. IInv => ClosureWasReviewed
  BY DEF IInv, ReviewInv, ApproversAreEntitled, RequestsAreSupported, Supported,
     ClosuresGiveReasons, ClosureWasReviewed, Asked
<1>2. QED
  BY <1>1, Inductive, PTL

-----------------------------------------------------------------------------
(* What no step may do.                                                    *)

\* Decisions, responses and ledger rows are never rewritten, however the passes of
\* several ingestions interleave.
THEOREM EvidenceStands == Spec => EvidenceIsPermanent
<1> DEFINE Kept ==
      /\ \A r \in Requests : request[r].state \in Decided => request'[r] = request[r]
      /\ \A p \in Responses : response[p].case # None => response'[p] = response[p]
      /\ \A k \in Occurrences \X Cases : ledger[k] # "NONE" => ledger'[k] = ledger[k]
<1>1. ASSUME IInv, [Next]_vars
      PROVE  [Kept]_vars
  <2>1. ASSUME NEW c \in Cases, CaseStep(c)
        PROVE  Kept
    BY <2>1, <1>1 DEF CaseStep, CreateCase, ReopenCase, ChangeCaseState, RequestClosure,
       UnlinkFinding, Decided, IInv, TypeOK
  <2>2. ASSUME NEW r \in Requests, ReviewStep(r)
        PROVE  Kept
    BY <2>2, <1>1 DEF ReviewStep, ApproveClosure, RejectClosure, Decide, Pending, Decided,
       IInv, TypeOK
  <2>3. ASSUME NEW f \in Findings, FindingStep(f)
        PROVE  Kept
    BY <2>3 DEF FindingStep, RecordTriageDecision, OwnershipChanges
  <2>4. ASSUME NEW h \in Handlers, HandlerStep(h)
        PROVE  Kept
    <3>1. UNCHANGED request
      BY <2>4 DEF HandlerStep, ReadCaseForResponse, ReadCaseForLink, ListLinks, LinkFinding,
         RecordOrganizationResponse, ReopenByRecurrence, DeclineReopen, PairFails, Abandon
    <3>2. \A p \in Responses : response[p].case # None => response'[p] = response[p]
      BY <2>4, <1>1 DEF HandlerStep, ReadCaseForResponse, ReadCaseForLink, ListLinks, LinkFinding,
         RecordOrganizationResponse, ReopenByRecurrence, DeclineReopen, PairFails, Abandon,
         IInv, TypeOK
    <3>3. \A k \in Occurrences \X Cases : ledger[k] # "NONE" => ledger'[k] = ledger[k]
      BY <2>4, <1>1 DEF HandlerStep, ReadCaseForResponse, ReadCaseForLink, ListLinks, LinkFinding,
         RecordOrganizationResponse, ReopenByRecurrence, DeclineReopen, PairFails, Abandon,
         LedgerOutcome, IInv, TypeOK
    <3>4. QED
      BY <3>1, <3>2, <3>3
  <2>5. CASE UNCHANGED vars
    BY <2>5
  <2>6. QED
    BY <1>1, <2>1, <2>2, <2>3, <2>4, <2>5 DEF Next
<1>2. QED
  BY <1>1, Inductive, PTL DEF Spec, EvidenceIsPermanent

\* A link is written only for the organization that owns the finding at that moment, and
\* whatever links a finding or reopens a case escalates the finding in the same step.
THEOREM LinksFollowOwnership == Spec => LinksMatchOwnership
<1> DEFINE Matches ==
      /\ \A c \in Cases, f \in Findings :
           link[<<c, f>>] # "LINKED" /\ link'[<<c, f>>] = "LINKED" => owner[f] = OrgOf[c]
      /\ \A c \in Cases, f \in Findings :
           link[<<c, f>>] # "LINKED" /\ link'[<<c, f>>] = "LINKED" => triage'[f] = "ESCALATED"
      /\ \A o \in Occurrences, c \in Cases :
           ledger[<<o, c>>] # ledger'[<<o, c>>] /\ ledger'[<<o, c>>] = "REOPENED"
             => triage'[FindingOf[o]] = "ESCALATED"
<1>1. ASSUME IInv, [Next]_vars
      PROVE  [Matches]_vars
  <2>1. ASSUME NEW c \in Cases, CaseStep(c)
        PROVE  Matches
    BY <2>1, <1>1 DEF CaseStep, CreateCase, ReopenCase, ChangeCaseState, RequestClosure,
       UnlinkFinding, IInv, TypeOK
  <2>2. ASSUME NEW r \in Requests, ReviewStep(r)
        PROVE  Matches
    BY <2>2 DEF ReviewStep, ApproveClosure, RejectClosure
  <2>3. ASSUME NEW f \in Findings, FindingStep(f)
        PROVE  Matches
    BY <2>3 DEF FindingStep, RecordTriageDecision, OwnershipChanges
  <2>4. ASSUME NEW h \in Handlers, LinkFinding(h)
        PROVE  Matches
    <3>1. UNCHANGED <<ledger, owner>>
      BY <2>4 DEF LinkFinding
    <3>2. ASSUME NEW c \in Cases, NEW f \in Findings,
                 link[<<c, f>>] # "LINKED", link'[<<c, f>>] = "LINKED"
          PROVE  owner[f] = OrgOf[c] /\ triage'[f] = "ESCALATED"
      <4>1. /\ link \in [Cases \X Findings -> {"NONE", "LINKED", "UNLINKED"}]
            /\ triage \in [Findings -> {"UNTRIAGED", "IN_REVIEW", "ESCALATED", "DISMISSED"}]
        BY <1>1 DEF IInv, TypeOK
      <4>2. /\ LinkEligible(handler[h].case, handler[h].finding)
            /\ link' = [link EXCEPT ![<<handler[h].case, handler[h].finding>>] = "LINKED"]
            /\ triage' = [triage EXCEPT ![handler[h].finding] = "ESCALATED"]
        BY <2>4, <3>2 DEF LinkFinding, Escalated
      <4>3. c = handler[h].case /\ f = handler[h].finding
        BY <4>1, <4>2, <3>2
      <4>4. QED
        BY <4>1, <4>2, <4>3 DEF LinkEligible
    <3>3. QED
      BY <3>1, <3>2
  <2>5. ASSUME NEW h \in Handlers, NEW c \in Cases, ReopenByRecurrence(h, c)
        PROVE  Matches
    <3>1. UNCHANGED link
      BY <2>5 DEF ReopenByRecurrence
    <3>2. ASSUME NEW o \in Occurrences, NEW d \in Cases,
                 ledger[<<o, d>>] # ledger'[<<o, d>>], ledger'[<<o, d>>] = "REOPENED"
          PROVE  triage'[FindingOf[o]] = "ESCALATED"
      <4>1. ledger' = [ledger EXCEPT ![<<handler[h].occ, c>>] = "REOPENED"]
        BY <2>5 DEF ReopenByRecurrence
      <4>2. o = handler[h].occ
        BY <4>1, <3>2, <1>1 DEF IInv, TypeOK
      <4>3. triage' = [triage EXCEPT ![FindingOf[o]] = "ESCALATED"] /\ FindingOf[o] \in Findings
        BY <2>5, <4>2, ParamFacts DEF ReopenByRecurrence, Escalated
      <4>4. QED
        BY <4>3, <1>1 DEF IInv, TypeOK
    <3>3. QED
      BY <3>1, <3>2
  <2>6. ASSUME NEW h \in Handlers, NEW c \in Cases, DeclineReopen(h, c)
        PROVE  Matches
    <3>1. UNCHANGED link
      BY <2>6 DEF DeclineReopen
    <3>2. ASSUME NEW o \in Occurrences, NEW d \in Cases, ledger'[<<o, d>>] = "REOPENED"
          PROVE  ledger[<<o, d>>] = "REOPENED"
      <4>1. ledger' = [ledger EXCEPT ![<<handler[h].occ, c>>] = LedgerOutcome(handler[h].occ, c)]
        BY <2>6 DEF DeclineReopen
      <4>2. QED
        BY <4>1, <3>2, <1>1 DEF LedgerOutcome, IInv, TypeOK
    <3>3. QED
      BY <3>1, <3>2
  <2>7. ASSUME NEW h \in Handlers, HandlerStep(h), ~LinkFinding(h),
               \A c \in Cases : ~ReopenByRecurrence(h, c) /\ ~DeclineReopen(h, c)
        PROVE  Matches
    BY <2>7 DEF HandlerStep, ReadCaseForResponse, ReadCaseForLink, ListLinks,
       RecordOrganizationResponse, PairFails, Abandon
  <2>8. CASE UNCHANGED vars
    BY <2>8
  <2>9. QED
    BY <1>1, <2>1, <2>2, <2>3, <2>4, <2>5, <2>6, <2>7, <2>8 DEF Next
<1>2. QED
  BY <1>1, Inductive, PTL DEF Spec, LinksMatchOwnership

\* The last entry of the timeline after a transition is the transition.
LEMMA LastEvent ==
    ASSUME TypeOK, NEW c \in Cases, NEW code, NEW to, Log(c, code, to)
    PROVE  events'[c][Len(events'[c])].code = code
<1>1. events[c] \in Seq(Event) /\ events \in [Cases -> Seq(Event)]
  BY DEF TypeOK
<1>2. events'[c] = Append(events[c], [code |-> code, to |-> to])
  BY <1>1 DEF Log
<1> DEFINE e == [code |-> code, to |-> to]
<1>3. \A s \in Seq(Event) : Append(s, e)[Len(Append(s, e))] = e
  OBVIOUS
<1>4. QED
  BY <1>1, <1>2, <1>3

\* A closure for any reason but remediation ends only by somebody's hand.
THEOREM HumanClosuresEndByHand == Spec => HumanClosureStands
<1> DEFINE Stands ==
      \A c \in Cases :
        case[c].state = "CLOSED" /\ case[c].closureReason # "REMEDIATED" /\ case'[c] # case[c]
          => events'[c][Len(events'[c])].code = "REOPENED_MANUALLY"
<1>1. ASSUME IInv, [Next]_vars
      PROVE  [Stands]_vars
  <2>1. ASSUME NEW c \in Cases, CaseStep(c)
        PROVE  Stands
    <3>1. ASSUME ReopenCase(c)
          PROVE  Stands
      BY <3>1, <1>1, LastEvent DEF ReopenCase, Transition, IInv, TypeOK
    <3>2. ASSUME ~ReopenCase(c)
          PROVE  Stands
      BY <3>2, <2>1, <1>1 DEF CaseStep, CreateCase, ChangeCaseState, RequestClosure, UnlinkFinding,
         Transition, AnalystSettable, IInv, TypeOK
    <3>3. QED
      BY <3>1, <3>2
  <2>2. ASSUME NEW r \in Requests, ReviewStep(r)
        PROVE  Stands
    BY <2>2, <1>1 DEF ReviewStep, ApproveClosure, RejectClosure, Transition, IInv, TypeOK
  <2>3. ASSUME NEW f \in Findings, FindingStep(f)
        PROVE  Stands
    BY <2>3 DEF FindingStep, RecordTriageDecision, OwnershipChanges
  <2>4. ASSUME NEW h \in Handlers, HandlerStep(h)
        PROVE  Stands
    BY <2>4, <1>1 DEF HandlerStep, ReadCaseForResponse, ReadCaseForLink, ListLinks, LinkFinding,
       RecordOrganizationResponse, ReopenByRecurrence, DeclineReopen, PairFails, Abandon,
       QualifiesForReopen, Transition, IInv, TypeOK
  <2>5. CASE UNCHANGED vars
    BY <2>5
  <2>6. QED
    BY <1>1, <2>1, <2>2, <2>3, <2>4, <2>5 DEF Next
<1>2. QED
  BY <1>1, Inductive, PTL DEF Spec, HumanClosureStands


-----------------------------------------------------------------------------
(* The timeline accounts for what is stored.                               *)

Reopeners(c) == {o \in Occurrences : ledger[<<o, c>>] = "REOPENED"}

\* What the timeline of one case accounts for.
Accounts(c) ==
    /\ events[c] # <<>> => events[c][Len(events[c])].to = case[c].state
    /\ Count(c, {"CLOSURE_REQUESTED_BY_ANALYST"}) = Cardinality(Asked(c, {"PENDING"} \cup Decided))
    /\ Count(c, {"CLOSURE_APPROVED_BY_REVIEWER"}) = Cardinality(Asked(c, {"APPROVED"}))
    /\ Count(c, {"CLOSURE_REJECTED_BY_REVIEWER"}) = Cardinality(Asked(c, {"REJECTED"}))
    /\ Count(c, {"REOPENED_MANUALLY", "REOPENED_BY_RECURRENCE"}) = case[c].reopenedCount
    /\ Count(c, {"REOPENED_BY_RECURRENCE"}) = Cardinality(Reopeners(c))

\* A pass is of an occurrence, and a case was reopened for finitely many.
PassesAreOfOccurrences ==
    \A h \in Handlers : handler[h].pc = "reopening" => handler[h].occ \in Occurrences

ReopenersAreFinite == \A c \in Cases : IsFiniteSet(Reopeners(c))

AccountsInv == PassesAreOfOccurrences /\ ReopenersAreFinite /\ \A c \in Cases : Accounts(c)

LEMMA TimelineIsAccounts == TimelineAccounts <=> \A c \in Cases : Accounts(c)
  BY DEF TimelineAccounts, Accounts, Reopeners

\* One more entry in the timeline of a case is counted under its code and ends it.
LEMMA LogTally ==
    ASSUME TypeOK, NEW c \in Cases, NEW code \in Codes, NEW to \in States, Log(c, code, to)
    PROVE  /\ \A d \in Cases \ {c} : events'[d] = events[d]
           /\ events'[c] # <<>> /\ events'[c][Len(events'[c])].to = to
           /\ \A codes : /\ Count(c, codes) \in Nat
                         /\ Count(c, codes)' = Count(c, codes) + (IF code \in codes THEN 1 ELSE 0)
<1> DEFINE e == [code |-> code, to |-> to]
           n == Len(events[c])
<1>1. events \in [Cases -> Seq(Event)] /\ e \in Event /\ e.to = to /\ e.code = code
  BY DEF TypeOK, Event
<1>2. events' = [events EXCEPT ![c] = Append(events[c], e)]
  BY DEF Log
<1> HIDE DEF e
<1>3. /\ events'[c] = Append(events[c], e)
      /\ \A d \in Cases \ {c} : events'[d] = events[d]
  BY <1>1, <1>2
<1>4. events[c] \in Seq(Event)
  BY <1>1
<1>5. /\ n \in Nat /\ DOMAIN events[c] = 1 .. n
      /\ events'[c] # <<>> /\ Len(events'[c]) = n + 1 /\ DOMAIN events'[c] = 1 .. (n + 1)
      /\ \A i \in 1 .. n : events'[c][i] = events[c][i]
      /\ events'[c][n + 1] = e
  BY <1>1, <1>3, <1>4
<1> HIDE DEF n
<1>6. ASSUME NEW codes
      PROVE  /\ Count(c, codes) \in Nat
             /\ Count(c, codes)' = Count(c, codes) + (IF code \in codes THEN 1 ELSE 0)
  <2> DEFINE S == {i \in DOMAIN events[c] : events[c][i].code \in codes}
             T == {i \in DOMAIN events'[c] : events'[c][i].code \in codes}
  <2>1. T = IF code \in codes THEN S \cup {n + 1} ELSE S
    BY <1>1, <1>5
  <2>2. S \in SUBSET (1 .. n) /\ n + 1 \notin S
    BY <1>5
  <2> HIDE DEF S, T
  <2>3. IsFiniteSet(S) /\ Cardinality(S) \in Nat
    <3>1. IsFiniteSet(1 .. n)
      BY <1>5, FS_Interval
    <3>2. QED
      BY <2>2, <3>1, FS_Subset, FS_CardinalityType
  <2>4. Cardinality(S \cup {n + 1}) = Cardinality(S) + 1
    BY <2>2, <2>3, FS_AddElement
  <2>5. Cardinality(T) = Cardinality(S) + (IF code \in codes THEN 1 ELSE 0)
    BY <2>1, <2>3, <2>4
  <2>6. QED
    BY <2>3, <2>5 DEF Count, S, T
<1>7. QED
  BY <1>1, <1>3, <1>5, <1>6

\* A case that a step does not concern keeps its account.
LEMMA AccountKept ==
    ASSUME NEW d \in Cases, Accounts(d), events'[d] = events[d], case'[d] = case[d],
           \A q \in Requests : request'[q] = request[q] \/ (request'[q].case # d /\ request[q].case # d),
           Reopeners(d)' = Reopeners(d)
    PROVE  Accounts(d)'
<1>1. ASSUME NEW codes
      PROVE  Count(d, codes)' = Count(d, codes)
  BY DEF Count
<1>2. ASSUME NEW states
      PROVE  Asked(d, states)' = Asked(d, states)
  BY DEF Asked
<1>3. /\ Asked(d, {"PENDING"} \cup Decided)' = Asked(d, {"PENDING"} \cup Decided)
      /\ Asked(d, {"APPROVED"})' = Asked(d, {"APPROVED"})
      /\ Asked(d, {"REJECTED"})' = Asked(d, {"REJECTED"})
  BY <1>2 DEF Decided
<1>4. /\ Count(d, {"CLOSURE_REQUESTED_BY_ANALYST"})' = Count(d, {"CLOSURE_REQUESTED_BY_ANALYST"})
      /\ Count(d, {"CLOSURE_APPROVED_BY_REVIEWER"})' = Count(d, {"CLOSURE_APPROVED_BY_REVIEWER"})
      /\ Count(d, {"CLOSURE_REJECTED_BY_REVIEWER"})' = Count(d, {"CLOSURE_REJECTED_BY_REVIEWER"})
      /\ Count(d, {"REOPENED_MANUALLY", "REOPENED_BY_RECURRENCE"})'
           = Count(d, {"REOPENED_MANUALLY", "REOPENED_BY_RECURRENCE"})
      /\ Count(d, {"REOPENED_BY_RECURRENCE"})' = Count(d, {"REOPENED_BY_RECURRENCE"})
  BY <1>1
<1>5. QED
  BY <1>3, <1>4 DEF Accounts

\* Entries that are neither of a closure nor of a reopening count nothing.
OtherCodes == {"CASE_CREATED", "STATE_CHANGED_BY_ANALYST"}

LEMMA MoveAccounted ==
    ASSUME TypeOK, NEW c \in Cases, Accounts(c), NEW code \in OtherCodes, NEW to \in States,
           Log(c, code, to), case'[c].state = to, case'[c].reopenedCount = case[c].reopenedCount,
           request' = request, Reopeners(c)' = Reopeners(c)
    PROVE  Accounts(c)'
<1>1. code \in Codes
  BY DEF OtherCodes, Codes
<1>2. /\ events'[c] # <<>> /\ events'[c][Len(events'[c])].to = to
      /\ \A codes : /\ Count(c, codes) \in Nat
                    /\ Count(c, codes)' = Count(c, codes) + (IF code \in codes THEN 1 ELSE 0)
  BY <1>1, LogTally
<1>3. /\ Count(c, {"CLOSURE_REQUESTED_BY_ANALYST"})' = Count(c, {"CLOSURE_REQUESTED_BY_ANALYST"})
      /\ Count(c, {"CLOSURE_APPROVED_BY_REVIEWER"})' = Count(c, {"CLOSURE_APPROVED_BY_REVIEWER"})
      /\ Count(c, {"CLOSURE_REJECTED_BY_REVIEWER"})' = Count(c, {"CLOSURE_REJECTED_BY_REVIEWER"})
      /\ Count(c, {"REOPENED_MANUALLY", "REOPENED_BY_RECURRENCE"})'
           = Count(c, {"REOPENED_MANUALLY", "REOPENED_BY_RECURRENCE"})
      /\ Count(c, {"REOPENED_BY_RECURRENCE"})' = Count(c, {"REOPENED_BY_RECURRENCE"})
  BY <1>2 DEF OtherCodes
<1>4. /\ Asked(c, {"PENDING"} \cup Decided)' = Asked(c, {"PENDING"} \cup Decided)
      /\ Asked(c, {"APPROVED"})' = Asked(c, {"APPROVED"})
      /\ Asked(c, {"REJECTED"})' = Asked(c, {"REJECTED"})
  BY DEF Asked, Decided
<1>5. QED
  BY <1>2, <1>3, <1>4 DEF Accounts

\* Requests of a case are finitely many.
LEMMA AskedIsFinite ==
    ASSUME NEW c, NEW states
    PROVE  IsFiniteSet(Asked(c, states)) /\ Cardinality(Asked(c, states)) \in Nat
<1>1. Asked(c, states) \subseteq Requests
  BY DEF Asked
<1>2. QED
  BY <1>1, ParamFacts, FS_Subset, FS_CardinalityType

\* A step that adds nothing to any account.
LEMMA NothingAccounted ==
    ASSUME AccountsInv, UNCHANGED <<case, events, request>>,
           \A c \in Cases : Reopeners(c)' = Reopeners(c),
           PassesAreOfOccurrences'
    PROVE  AccountsInv'
<1>1. ReopenersAreFinite'
  BY DEF AccountsInv, ReopenersAreFinite
<1>2. ASSUME NEW d \in Cases
      PROVE  Accounts(d)'
  BY AccountKept DEF AccountsInv
<1>3. QED
  BY <1>1, <1>2 DEF AccountsInv

\* A step of case c that logs an entry, and touches no request of another case and no
\* other ledger row.
LEMMA OneCaseAccounted ==
    ASSUME TypeOK, AccountsInv, NEW c \in Cases, NEW code \in Codes, NEW to \in States,
           Log(c, code, to),
           \A d \in Cases \ {c} : case'[d] = case[d] /\ Reopeners(d)' = Reopeners(d),
           \A q \in Requests : \/ request'[q] = request[q]
                               \/ request'[q].case \in {c, None} /\ request[q].case \in {c, None},
           IsFiniteSet(Reopeners(c))', Accounts(c)',
           PassesAreOfOccurrences'
    PROVE  AccountsInv'
<1>1. ASSUME NEW d \in Cases \ {c}
      PROVE  Accounts(d)' /\ IsFiniteSet(Reopeners(d))'
  <2>1. d \in Cases /\ d # c /\ d # None
    BY ParamFacts
  <2>2. Accounts(d) /\ IsFiniteSet(Reopeners(d))
    BY <2>1 DEF AccountsInv, ReopenersAreFinite
  <2>3. events'[d] = events[d]
    BY LogTally
  <2>4. Reopeners(d)' = Reopeners(d) /\ case'[d] = case[d]
    OBVIOUS
  <2>5. \A q \in Requests :
           request'[q] = request[q] \/ (request'[q].case # d /\ request[q].case # d)
    BY <2>1
  <2>6. Accounts(d)'
    BY <2>1, <2>2, <2>3, <2>4, <2>5, AccountKept
  <2>7. QED
    BY <2>2, <2>4, <2>6
<1>2. QED
  BY <1>1 DEF AccountsInv, ReopenersAreFinite

LEMMA LedgerKept ==
    ASSUME ledger' = ledger, NEW c
    PROVE  Reopeners(c)' = Reopeners(c)
  BY DEF Reopeners

\* Creating a case, and moving it between the states an analyst sets.
LEMMA MovesAccounted ==
    ASSUME IInv, AccountsInv, NEW c \in Cases,
           CreateCase(c) \/ \E to \in AnalystSettable : ChangeCaseState(c, to)
    PROVE  AccountsInv'
<1>1. PICK code \in OtherCodes, to \in States :
         /\ Log(c, code, to)
         /\ case' = [case EXCEPT ![c] = [case[c] EXCEPT !.state = to]]
         /\ UNCHANGED <<request, ledger, handler>>
  BY StatesAre DEF IInv, TypeOK, CreateCase, ChangeCaseState, Transition, OtherCodes, AnalystSettable
<1>2. /\ case'[c].state = to /\ case'[c].reopenedCount = case[c].reopenedCount
      /\ \A d \in Cases \ {c} : case'[d] = case[d]
  BY <1>1 DEF IInv, TypeOK, CaseRow
<1>3. \A d \in Cases : Reopeners(d)' = Reopeners(d)
  BY <1>1, LedgerKept
<1>4. Accounts(c)'
  BY <1>1, <1>2, <1>3, MoveAccounted DEF IInv, AccountsInv
<1>5. PassesAreOfOccurrences'
  BY <1>1 DEF AccountsInv, PassesAreOfOccurrences
<1>6. code \in Codes /\ IsFiniteSet(Reopeners(c))'
  BY <1>3 DEF OtherCodes, Codes, AccountsInv, ReopenersAreFinite
<1>7. QED
  BY <1>1, <1>2, <1>3, <1>4, <1>5, <1>6, OneCaseAccounted DEF IInv

\* A request for closure: one more row and one more entry.
LEMMA RequestAccounted ==
    ASSUME IInv, AccountsInv, NEW c \in Cases, NEW r \in Requests, NEW u \in Users,
           NEW reason \in Reasons, RequestClosure(c, r, u, reason)
    PROVE  AccountsInv'
<1> DEFINE code == "CLOSURE_REQUESTED_BY_ANALYST"
           to == "CLOSURE_PENDING"
<1>1. /\ Log(c, code, to)
      /\ case' = [case EXCEPT ![c] = [case[c] EXCEPT !.state = to]]
      /\ request[r].state = "ABSENT"
      /\ UNCHANGED <<ledger, handler>>
  BY DEF RequestClosure, Transition
<1>2. code \in Codes /\ to \in States
  BY StatesAre DEF Codes
<1>3. /\ case'[c].state = to /\ case'[c].reopenedCount = case[c].reopenedCount
      /\ \A d \in Cases \ {c} : case'[d] = case[d]
  BY <1>1 DEF IInv, TypeOK, CaseRow
<1>4. /\ request'[r].state = "PENDING" /\ request'[r].case = c
      /\ \A q \in Requests \ {r} : request'[q] = request[q]
  BY DEF RequestClosure, IInv, TypeOK
<1>5. request[r].case = None
  BY <1>1 DEF IInv, ReviewInv, RequestsAreAboutCases
<1>6. \A d \in Cases : Reopeners(d)' = Reopeners(d)
  BY <1>1, LedgerKept
<1>7. PassesAreOfOccurrences'
  BY <1>1 DEF AccountsInv, PassesAreOfOccurrences
<1>8. Accounts(c)'
  <2>1. /\ events'[c] # <<>> /\ events'[c][Len(events'[c])].to = to
        /\ \A codes : /\ Count(c, codes) \in Nat
                      /\ Count(c, codes)' = Count(c, codes) + (IF code \in codes THEN 1 ELSE 0)
    BY <1>1, <1>2, LogTally DEF IInv
  <2>2. /\ Count(c, {"CLOSURE_REQUESTED_BY_ANALYST"})'
             = Count(c, {"CLOSURE_REQUESTED_BY_ANALYST"}) + 1
        /\ Count(c, {"CLOSURE_APPROVED_BY_REVIEWER"})' = Count(c, {"CLOSURE_APPROVED_BY_REVIEWER"})
        /\ Count(c, {"CLOSURE_REJECTED_BY_REVIEWER"})' = Count(c, {"CLOSURE_REJECTED_BY_REVIEWER"})
        /\ Count(c, {"REOPENED_MANUALLY", "REOPENED_BY_RECURRENCE"})'
             = Count(c, {"REOPENED_MANUALLY", "REOPENED_BY_RECURRENCE"})
        /\ Count(c, {"REOPENED_BY_RECURRENCE"})' = Count(c, {"REOPENED_BY_RECURRENCE"})
    BY <2>1
  <2>3. /\ Asked(c, {"PENDING"} \cup Decided)' = Asked(c, {"PENDING"} \cup Decided) \cup {r}
        /\ r \notin Asked(c, {"PENDING"} \cup Decided)
        /\ Asked(c, {"APPROVED"})' = Asked(c, {"APPROVED"})
        /\ Asked(c, {"REJECTED"})' = Asked(c, {"REJECTED"})
    BY <1>1, <1>4 DEF Asked, Decided
  <2>4. Cardinality(Asked(c, {"PENDING"} \cup Decided)')
          = Cardinality(Asked(c, {"PENDING"} \cup Decided)) + 1
    BY <2>3, AskedIsFinite, FS_AddElement
  <2>5. QED
    BY <1>3, <1>6, <2>1, <2>2, <2>3, <2>4 DEF AccountsInv, Accounts, Decided
<1>9. IsFiniteSet(Reopeners(c))'
  BY <1>6 DEF AccountsInv, ReopenersAreFinite
<1>10. \A q \in Requests : \/ request'[q] = request[q]
                           \/ request'[q].case \in {c, None} /\ request[q].case \in {c, None}
  BY <1>4, <1>5
<1> HIDE DEF code, to
<1>11. QED
  BY <1>1, <1>2, <1>3, <1>6, <1>7, <1>8, <1>9, <1>10, OneCaseAccounted DEF IInv

\* A decision: the row was there already, and one more of them is decided.
LEMMA DecisionAccounted ==
    ASSUME IInv, AccountsInv, NEW r \in Requests, NEW u \in Users,
           ApproveClosure(r, u) \/ RejectClosure(r, u)
    PROVE  AccountsInv'
<1> DEFINE c == request[r].case
<1>1. PICK d \in Decided, to \in States, code \in Codes, row \in CaseRow :
         /\ row.reopenedCount = case[c].reopenedCount
         /\ code = IF d = "APPROVED" THEN "CLOSURE_APPROVED_BY_REVIEWER"
                                     ELSE "CLOSURE_REJECTED_BY_REVIEWER"
         /\ Pending(r) /\ Decide(r, u, d)
         /\ Log(c, code, to)
         /\ case' = [case EXCEPT ![c] = [row EXCEPT !.state = to]]
         /\ UNCHANGED <<ledger, handler>>
  <2>1. "APPROVED" \in Decided /\ "REJECTED" \in Decided /\ "APPROVED" # "REJECTED"
    BY DEF Decided
  <2>2. "CLOSED" \in States /\ "OPEN" \in States
    BY StatesAre
  <2>3. "CLOSURE_APPROVED_BY_REVIEWER" \in Codes /\ "CLOSURE_REJECTED_BY_REVIEWER" \in Codes
    BY DEF Codes
  <2> DEFINE closed == [case[c] EXCEPT !.closureReason = request[r].reason]
  <2>4. c \in Cases /\ request[r].reason \in Reasons
    BY DEF ApproveClosure, RejectClosure, IInv, ReviewInv, RequestsAreAboutCases, Pending
  <2>5. case[c] \in CaseRow
    BY <2>4 DEF IInv, TypeOK
  <2>6. closed \in CaseRow /\ closed.reopenedCount = case[c].reopenedCount
    BY <2>4, <2>5 DEF CaseRow
  <2>7. CASE ApproveClosure(r, u)
    <3>1. /\ Pending(r) /\ Decide(r, u, "APPROVED")
          /\ Log(c, "CLOSURE_APPROVED_BY_REVIEWER", "CLOSED")
          /\ case' = [case EXCEPT ![c] = [closed EXCEPT !.state = "CLOSED"]]
          /\ UNCHANGED <<ledger, handler>>
      BY <2>7 DEF ApproveClosure, Transition
    <3> HIDE DEF closed, c
    <3>2. QED
      BY <2>1, <2>2, <2>3, <2>6, <3>1
  <2>8. CASE RejectClosure(r, u)
    <3>1. /\ Pending(r) /\ Decide(r, u, "REJECTED")
          /\ Log(c, "CLOSURE_REJECTED_BY_REVIEWER", "OPEN")
          /\ case' = [case EXCEPT ![c] = [case[c] EXCEPT !.state = "OPEN"]]
          /\ UNCHANGED <<ledger, handler>>
      BY <2>8 DEF RejectClosure, Transition
    <3> HIDE DEF closed, c
    <3>2. QED
      BY <2>1, <2>2, <2>3, <2>5, <3>1
  <2>9. QED
    BY <2>7, <2>8
<1>2. /\ c \in Cases
      /\ request' \in [Requests -> RequestRow]
      /\ \A q \in Requests :
           request'[q] = IF q = r THEN [request[r] EXCEPT !.state = d, !.reviewer = u]
                         ELSE request[q]
  BY <1>1, DecisionEffect
<1>3. request[r] \in RequestRow /\ request[r].state = "PENDING"
  BY <1>1 DEF IInv, TypeOK, Pending
<1>4. /\ request'[r].state = d /\ request'[r].case = c
      /\ \A q \in Requests \ {r} : request'[q] = request[q]
  BY <1>2, <1>3 DEF RequestRow
<1>5. PICK k \in Cases : k = c
  BY <1>2
<1>6. /\ case'[k].state = to /\ case'[k].reopenedCount = case[k].reopenedCount
      /\ \A e \in Cases \ {k} : case'[e] = case[e]
  BY <1>1, <1>5 DEF IInv, TypeOK, CaseRow
<1>7. Log(k, code, to) /\ request[r].case = k /\ request'[r].case = k
  BY <1>1, <1>4, <1>5
<1> HIDE DEF c
<1>8. \A e \in Cases : Reopeners(e)' = Reopeners(e)
  BY <1>1, LedgerKept
<1>9. PassesAreOfOccurrences'
  BY <1>1 DEF AccountsInv, PassesAreOfOccurrences
<1>10. Accounts(k)'
  <2>1. /\ events'[k] # <<>> /\ events'[k][Len(events'[k])].to = to
        /\ \A codes : /\ Count(k, codes) \in Nat
                      /\ Count(k, codes)' = Count(k, codes) + (IF code \in codes THEN 1 ELSE 0)
    BY <1>7, LogTally DEF IInv
  <2>2. Accounts(k)
    BY DEF AccountsInv
  <2>3. /\ Count(k, {"CLOSURE_REQUESTED_BY_ANALYST"})' = Count(k, {"CLOSURE_REQUESTED_BY_ANALYST"})
        /\ Count(k, {"REOPENED_MANUALLY", "REOPENED_BY_RECURRENCE"})'
             = Count(k, {"REOPENED_MANUALLY", "REOPENED_BY_RECURRENCE"})
        /\ Count(k, {"REOPENED_BY_RECURRENCE"})' = Count(k, {"REOPENED_BY_RECURRENCE"})
        /\ Count(k, {"CLOSURE_APPROVED_BY_REVIEWER"})'
             = Count(k, {"CLOSURE_APPROVED_BY_REVIEWER"}) + (IF d = "APPROVED" THEN 1 ELSE 0)
        /\ Count(k, {"CLOSURE_REJECTED_BY_REVIEWER"})'
             = Count(k, {"CLOSURE_REJECTED_BY_REVIEWER"}) + (IF d = "APPROVED" THEN 0 ELSE 1)
    BY <1>1, <2>1
  <2>4. /\ Asked(k, {"PENDING"} \cup Decided)' = Asked(k, {"PENDING"} \cup Decided)
        /\ Asked(k, {"APPROVED"})' = IF d = "APPROVED" THEN Asked(k, {"APPROVED"}) \cup {r}
                                                       ELSE Asked(k, {"APPROVED"})
        /\ Asked(k, {"REJECTED"})' = IF d = "APPROVED" THEN Asked(k, {"REJECTED"})
                                                       ELSE Asked(k, {"REJECTED"}) \cup {r}
        /\ r \notin Asked(k, {"APPROVED"}) /\ r \notin Asked(k, {"REJECTED"})
    BY <1>1, <1>3, <1>4, <1>7 DEF Asked, Decided
  <2>5. /\ Cardinality(Asked(k, {"APPROVED"}) \cup {r}) = Cardinality(Asked(k, {"APPROVED"})) + 1
        /\ Cardinality(Asked(k, {"REJECTED"}) \cup {r}) = Cardinality(Asked(k, {"REJECTED"})) + 1
        /\ Cardinality(Asked(k, {"APPROVED"})) \in Nat /\ Cardinality(Asked(k, {"REJECTED"})) \in Nat
    BY <2>4, AskedIsFinite, FS_AddElement
  <2>6. /\ Count(k, {"CLOSURE_APPROVED_BY_REVIEWER"})' = Cardinality(Asked(k, {"APPROVED"})')
        /\ Count(k, {"CLOSURE_REJECTED_BY_REVIEWER"})' = Cardinality(Asked(k, {"REJECTED"})')
    <3>1. /\ Count(k, {"CLOSURE_APPROVED_BY_REVIEWER"}) = Cardinality(Asked(k, {"APPROVED"}))
          /\ Count(k, {"CLOSURE_REJECTED_BY_REVIEWER"}) = Cardinality(Asked(k, {"REJECTED"}))
      BY <2>2 DEF Accounts
    <3>2. CASE d = "APPROVED"
      BY <2>3, <2>4, <2>5, <3>1, <3>2
    <3>3. CASE d # "APPROVED"
      <4>1. /\ Asked(k, {"APPROVED"})' = Asked(k, {"APPROVED"})
            /\ Asked(k, {"REJECTED"})' = Asked(k, {"REJECTED"}) \cup {r}
        BY <2>4, <3>3
      <4>2. /\ Count(k, {"CLOSURE_APPROVED_BY_REVIEWER"})'
                 = Count(k, {"CLOSURE_APPROVED_BY_REVIEWER"}) + 0
            /\ Count(k, {"CLOSURE_REJECTED_BY_REVIEWER"})'
                 = Count(k, {"CLOSURE_REJECTED_BY_REVIEWER"}) + 1
        BY <2>3, <3>3
      <4>3. Count(k, {"CLOSURE_APPROVED_BY_REVIEWER"})' = Cardinality(Asked(k, {"APPROVED"})')
        <5>1. Cardinality(Asked(k, {"APPROVED"})) \in Nat
          BY AskedIsFinite
        <5>2. Count(k, {"CLOSURE_APPROVED_BY_REVIEWER"})' = Cardinality(Asked(k, {"APPROVED"}))
          BY <3>1, <4>2, <5>1
        <5>3. QED
          BY <4>1, <5>2
      <4>4. Count(k, {"CLOSURE_REJECTED_BY_REVIEWER"})' = Cardinality(Asked(k, {"REJECTED"})')
        BY <2>5, <3>1, <4>1, <4>2
      <4>5. QED
        BY <4>3, <4>4
    <3>4. QED
      BY <3>2, <3>3
  <2>7. /\ Count(k, {"CLOSURE_REQUESTED_BY_ANALYST"})'
             = Cardinality(Asked(k, {"PENDING"} \cup Decided)')
        /\ Count(k, {"REOPENED_MANUALLY", "REOPENED_BY_RECURRENCE"})' = case'[k].reopenedCount
        /\ Count(k, {"REOPENED_BY_RECURRENCE"})' = Cardinality(Reopeners(k)')
    BY <1>6, <1>8, <2>2, <2>3, <2>4 DEF Accounts
  <2>8. QED
    BY <1>6, <2>1, <2>6, <2>7 DEF Accounts, Decided
<1>11. IsFiniteSet(Reopeners(k))'
  BY <1>8 DEF AccountsInv, ReopenersAreFinite
<1>12. \A q \in Requests : \/ request'[q] = request[q]
                           \/ request'[q].case \in {k, None} /\ request[q].case \in {k, None}
  BY <1>4, <1>7
<1>13. QED
  BY <1>6, <1>7, <1>8, <1>9, <1>10, <1>11, <1>12, OneCaseAccounted DEF IInv

\* A case is reopened: the counter and the timeline, and the ledger where a recurrence did it.
LEMMA ReopeningAccounted ==
    ASSUME IInv, AccountsInv, NEW c \in Cases, NEW code, NEW o,
           Transition(c, "OPEN", code, Reopened(c)), request' = request,
           PassesAreOfOccurrences',
           \A d \in Cases \ {c} : Reopeners(d)' = Reopeners(d),
           \/ code = "REOPENED_MANUALLY" /\ Reopeners(c)' = Reopeners(c)
           \/ /\ code = "REOPENED_BY_RECURRENCE" /\ o \notin Reopeners(c)
              /\ Reopeners(c)' = Reopeners(c) \cup {o}
    PROVE  AccountsInv'
<1>1. /\ Log(c, code, "OPEN") /\ code \in Codes /\ "OPEN" \in States
      /\ case' = [case EXCEPT ![c] = [Reopened(c) EXCEPT !.state = "OPEN"]]
  BY StatesAre DEF Transition, Codes
<1>2. /\ case'[c].state = "OPEN"
      /\ case'[c].reopenedCount = case[c].reopenedCount + 1
      /\ \A d \in Cases \ {c} : case'[d] = case[d]
  <2>1. case[c] \in CaseRow /\ case \in [Cases -> CaseRow]
    BY DEF IInv, TypeOK
  <2>2. Reopened(c) = [case[c] EXCEPT !.closureReason = None,
                                      !.reopenedCount = case[c].reopenedCount + 1]
    BY <2>1 DEF Reopened, CaseRow
  <2>3. QED
    BY <1>1, <2>1, <2>2 DEF CaseRow
<1>3. Accounts(c) /\ IsFiniteSet(Reopeners(c))
  BY DEF AccountsInv, ReopenersAreFinite
<1>4. /\ events'[c] # <<>> /\ events'[c][Len(events'[c])].to = "OPEN"
      /\ \A codes : /\ Count(c, codes) \in Nat
                    /\ Count(c, codes)' = Count(c, codes) + (IF code \in codes THEN 1 ELSE 0)
  BY <1>1, LogTally DEF IInv
<1>5. /\ Count(c, {"CLOSURE_REQUESTED_BY_ANALYST"})' = Count(c, {"CLOSURE_REQUESTED_BY_ANALYST"})
      /\ Count(c, {"CLOSURE_APPROVED_BY_REVIEWER"})' = Count(c, {"CLOSURE_APPROVED_BY_REVIEWER"})
      /\ Count(c, {"CLOSURE_REJECTED_BY_REVIEWER"})' = Count(c, {"CLOSURE_REJECTED_BY_REVIEWER"})
      /\ Count(c, {"REOPENED_MANUALLY", "REOPENED_BY_RECURRENCE"})'
           = Count(c, {"REOPENED_MANUALLY", "REOPENED_BY_RECURRENCE"}) + 1
      /\ Count(c, {"REOPENED_BY_RECURRENCE"})'
           = Count(c, {"REOPENED_BY_RECURRENCE"}) + (IF code = "REOPENED_MANUALLY" THEN 0 ELSE 1)
  BY <1>4
<1>6. /\ Asked(c, {"PENDING"} \cup Decided)' = Asked(c, {"PENDING"} \cup Decided)
      /\ Asked(c, {"APPROVED"})' = Asked(c, {"APPROVED"})
      /\ Asked(c, {"REJECTED"})' = Asked(c, {"REJECTED"})
  BY DEF Asked, Decided
<1>7. /\ IsFiniteSet(Reopeners(c) \cup {o})
      /\ o \notin Reopeners(c) =>
           Cardinality(Reopeners(c) \cup {o}) = Cardinality(Reopeners(c)) + 1
      /\ Cardinality(Reopeners(c)) \in Nat
  BY <1>3, FS_AddElement, FS_CardinalityType
<1>8. IsFiniteSet(Reopeners(c))'
  BY <1>3, <1>7
<1>9. /\ Cardinality(Reopeners(c)') \in Nat
      /\ Cardinality(Reopeners(c)')
           = Cardinality(Reopeners(c)) + (IF code = "REOPENED_MANUALLY" THEN 0 ELSE 1)
  <2>1. CASE code = "REOPENED_MANUALLY"
    BY <1>7, <2>1
  <2>2. CASE code # "REOPENED_MANUALLY"
    BY <1>7, <2>2
  <2>3. QED
    BY <2>1, <2>2
<1>10. Accounts(c)'
  BY <1>2, <1>3, <1>4, <1>5, <1>6, <1>9 DEF Accounts
<1>11. QED
  BY <1>1, <1>2, <1>8, <1>10, OneCaseAccounted DEF IInv

LEMMA ReopenAccounted ==
    ASSUME IInv, AccountsInv, NEW c \in Cases, ReopenCase(c)
    PROVE  AccountsInv'
<1>1. /\ Transition(c, "OPEN", "REOPENED_MANUALLY", Reopened(c))
      /\ UNCHANGED <<request, ledger, handler>>
  BY DEF ReopenCase
<1>2. \A d \in Cases : Reopeners(d)' = Reopeners(d)
  BY <1>1, LedgerKept
<1>3. PassesAreOfOccurrences'
  BY <1>1 DEF AccountsInv, PassesAreOfOccurrences
<1>4. QED
  BY <1>1, <1>2, <1>3, ReopeningAccounted

\* A pass that is still going is of the occurrence that it was of.
LEMMA PassesGoOn ==
    ASSUME TypeOK, PassesAreOfOccurrences, NEW h \in Handlers,
           Forget(h) \/ \E c \in Cases : Done(h, c)
    PROVE  PassesAreOfOccurrences'
<1>1. handler \in [Handlers -> Handler] /\ handler[h] \in Handler
  BY DEF TypeOK
<1>2. PICK m : /\ handler' = [handler EXCEPT ![h] = m]
               /\ \/ m.pc = "idle"
                  \/ m.pc = handler[h].pc /\ m.occ = handler[h].occ
  <2>1. NoHandler.pc = "idle"
    BY DEF NoHandler
  <2>2. CASE Forget(h)
    BY <2>1, <2>2 DEF Forget
  <2>3. ASSUME NEW c \in Cases, Done(h, c)
        PROVE  \E m : /\ handler' = [handler EXCEPT ![h] = m]
                      /\ \/ m.pc = "idle"
                         \/ m.pc = handler[h].pc /\ m.occ = handler[h].occ
    <3> DEFINE rest == [handler[h] EXCEPT !.todo = handler[h].todo \ {c}]
    <3>1. handler' = [handler EXCEPT ![h] = IF handler[h].todo = {c} THEN NoHandler ELSE rest]
      BY <1>1, <2>3 DEF Done
    <3>2. rest.pc = handler[h].pc /\ rest.occ = handler[h].occ
      BY <1>1 DEF Handler
    <3> HIDE DEF rest
    <3>3. CASE handler[h].todo = {c}
      BY <2>1, <3>1, <3>3
    <3>4. CASE handler[h].todo # {c}
      BY <3>1, <3>2, <3>4
    <3>5. QED
      BY <3>3, <3>4
  <2>4. QED
    BY <2>2, <2>3
<1>3. QED
  BY <1>1, <1>2 DEF PassesAreOfOccurrences

LEMMA RecurrenceAccounted ==
    ASSUME IInv, AccountsInv, NEW h \in Handlers, NEW c \in Cases, ReopenByRecurrence(h, c)
    PROVE  AccountsInv'
<1> DEFINE o == handler[h].occ
<1>1. /\ Transition(c, "OPEN", "REOPENED_BY_RECURRENCE", Reopened(c))
      /\ handler[h].pc = "reopening"
      /\ ledger[<<o, c>>] = "NONE"
      /\ ledger' = [ledger EXCEPT ![<<o, c>>] = "REOPENED"]
      /\ Done(h, c)
      /\ request' = request
  BY DEF ReopenByRecurrence
<1>2. o \in Occurrences
  BY <1>1 DEF AccountsInv, PassesAreOfOccurrences
<1>3. PassesAreOfOccurrences'
  BY <1>1, PassesGoOn DEF IInv, AccountsInv
<1> HIDE DEF o
<1>4. /\ \A d \in Cases \ {c} : Reopeners(d)' = Reopeners(d)
      /\ o \notin Reopeners(c)
      /\ Reopeners(c)' = Reopeners(c) \cup {o}
  BY <1>1, <1>2 DEF Reopeners, IInv, TypeOK
<1>5. QED
  BY <1>1, <1>3, <1>4, ReopeningAccounted

\* A pair that is declined is never one that reopened.
LEMMA DeclineAccounted ==
    ASSUME IInv, AccountsInv, NEW h \in Handlers, NEW c \in Cases, DeclineReopen(h, c)
    PROVE  AccountsInv'
<1>1. /\ ledger' = [ledger EXCEPT ![<<handler[h].occ, c>>] = LedgerOutcome(handler[h].occ, c)]
      /\ Done(h, c)
      /\ UNCHANGED <<case, events, request>>
  BY DEF DeclineReopen
<1>2. PassesAreOfOccurrences'
  BY <1>1, PassesGoOn DEF IInv, AccountsInv
<1>3. \A d \in Cases : Reopeners(d)' = Reopeners(d)
  BY <1>1 DEF Reopeners, LedgerOutcome, IInv, TypeOK
<1>4. QED
  BY <1>1, <1>2, <1>3, NothingAccounted

LEMMA MemoryAccounted ==
    ASSUME IInv, AccountsInv, NEW h \in Handlers,
           \/ \E c \in Cases : \/ ReadCaseForResponse(h, c)
                               \/ \E f \in Findings : ReadCaseForLink(h, c, f)
                               \/ PairFails(h, c)
           \/ \E p \in Responses, type \in {"REMEDIATED", "OTHER"} :
                RecordOrganizationResponse(h, p, type)
           \/ LinkFinding(h)
           \/ \E o \in Occurrences : ListLinks(h, o)
           \/ Abandon(h)
    PROVE  AccountsInv'
<1>1. UNCHANGED <<case, events, request, ledger>>
  BY DEF ReadCaseForResponse, ReadCaseForLink, PairFails, RecordOrganizationResponse, LinkFinding,
     ListLinks, Abandon
<1>2. PassesAreOfOccurrences'
  <2>1. handler \in [Handlers -> Handler] /\ PassesAreOfOccurrences /\ TypeOK
    BY DEF IInv, TypeOK, AccountsInv
  <2>2. CASE Forget(h) \/ \E c \in Cases : Done(h, c)
    BY <2>1, <2>2, PassesGoOn
  <2>3. ASSUME NEW m, handler' = [handler EXCEPT ![h] = m], m.pc = "reopening" => m.occ \in Occurrences
        PROVE  PassesAreOfOccurrences'
    BY <2>1, <2>3 DEF PassesAreOfOccurrences
  <2>4. CASE \/ \E c \in Cases : \/ ReadCaseForResponse(h, c)
                                 \/ \E f \in Findings : ReadCaseForLink(h, c, f)
             \/ \E o \in Occurrences : ListLinks(h, o)
    <3>1. \E m : /\ handler' = [handler EXCEPT ![h] = m]
                 /\ m.pc = "reopening" => m.occ \in Occurrences
      <4>1. ASSUME NEW c \in Cases, NEW f, NEW pc \in {"responding", "linking"}, Recall(h, pc, c, f)
            PROVE  \E m : /\ handler' = [handler EXCEPT ![h] = m]
                          /\ m.pc = "reopening" => m.occ \in Occurrences
        <5> DEFINE m == [NoHandler EXCEPT !.pc = pc, !.case = c, !.finding = f]
        <5>1. m.pc # "reopening" /\ handler' = [handler EXCEPT ![h] = m]
          BY <4>1 DEF Recall, NoHandler
        <5> HIDE DEF m
        <5>2. QED
          BY <5>1
      <4>2. ASSUME NEW o \in Occurrences, ListLinks(h, o)
            PROVE  \E m : /\ handler' = [handler EXCEPT ![h] = m]
                          /\ m.pc = "reopening" => m.occ \in Occurrences
        <5> DEFINE linked == {c \in Cases : link[<<c, FindingOf[o]>>] = "LINKED"}
                   m == [NoHandler EXCEPT !.pc = "reopening", !.occ = o, !.todo = linked]
        <5>1. m.occ \in Occurrences
          BY DEF NoHandler
        <5>2. handler' = [handler EXCEPT ![h] = m]
          BY <4>2 DEF ListLinks
        <5> HIDE DEF m
        <5>3. QED
          BY <5>1, <5>2
      <4>3. QED
        BY <2>4, <4>1, <4>2 DEF ReadCaseForResponse, ReadCaseForLink
    <3>2. QED
      BY <2>3, <3>1
  <2>5. QED
    BY <2>2, <2>4 DEF PairFails, RecordOrganizationResponse, LinkFinding, Abandon
<1>3. \A d \in Cases : Reopeners(d)' = Reopeners(d)
  BY <1>1, LedgerKept
<1>4. QED
  BY <1>1, <1>2, <1>3, NothingAccounted

LEMMA StepAccounts == IInv /\ AccountsInv /\ [Next]_vars => AccountsInv'
<1> SUFFICES ASSUME IInv, AccountsInv, [Next]_vars
             PROVE  AccountsInv'
  OBVIOUS
<1>1. ASSUME UNCHANGED <<case, events, request, ledger, handler>>
      PROVE  AccountsInv'
  <2>1. \A d \in Cases : Reopeners(d)' = Reopeners(d)
    BY <1>1, LedgerKept
  <2>2. PassesAreOfOccurrences'
    BY <1>1 DEF AccountsInv, PassesAreOfOccurrences
  <2>3. QED
    BY <1>1, <2>1, <2>2, NothingAccounted
<1>2. ASSUME NEW c \in Cases, CaseStep(c)
      PROVE  AccountsInv'
  <2>1. CASE CreateCase(c) \/ \E to \in AnalystSettable : ChangeCaseState(c, to)
    BY <2>1, MovesAccounted
  <2>2. CASE ReopenCase(c)
    BY <2>2, ReopenAccounted
  <2>3. CASE \E r \in Requests, u \in Users, reason \in Reasons : RequestClosure(c, r, u, reason)
    BY <2>3, RequestAccounted
  <2>4. CASE \E f \in Findings : UnlinkFinding(c, f)
    BY <1>1, <2>4 DEF UnlinkFinding
  <2>5. QED
    BY <1>2, <2>1, <2>2, <2>3, <2>4 DEF CaseStep
<1>3. ASSUME NEW r \in Requests, ReviewStep(r)
      PROVE  AccountsInv'
  BY <1>3, DecisionAccounted DEF ReviewStep
<1>4. ASSUME NEW f \in Findings, FindingStep(f)
      PROVE  AccountsInv'
  BY <1>1, <1>4 DEF FindingStep, RecordTriageDecision, OwnershipChanges
<1>5. ASSUME NEW h \in Handlers, HandlerStep(h)
      PROVE  AccountsInv'
  <2>1. CASE \E c \in Cases : ReopenByRecurrence(h, c) \/ DeclineReopen(h, c)
    BY <2>1, RecurrenceAccounted, DeclineAccounted
  <2>2. CASE ~ \E c \in Cases : ReopenByRecurrence(h, c) \/ DeclineReopen(h, c)
    BY <1>5, <2>2, MemoryAccounted DEF HandlerStep
  <2>3. QED
    BY <2>1, <2>2
<1>6. CASE UNCHANGED vars
  BY <1>1, <1>6 DEF vars
<1>7. QED
  BY <1>2, <1>3, <1>4, <1>5, <1>6 DEF Next

LEMMA InitAccounts == Init => AccountsInv
<1> SUFFICES ASSUME Init PROVE AccountsInv
  OBVIOUS
<1>1. PassesAreOfOccurrences
  BY DEF Init, PassesAreOfOccurrences, NoHandler
<1>2. ASSUME NEW c \in Cases
      PROVE  Accounts(c) /\ IsFiniteSet(Reopeners(c))
  <2>1. /\ events[c] = <<>> /\ case[c].reopenedCount = 0
        /\ Reopeners(c) = {}
    BY DEF Init, Reopeners
  <2>2. ASSUME NEW codes
        PROVE  Count(c, codes) = 0
    BY <2>1, FS_EmptySet DEF Count
  <2>3. ASSUME NEW states
        PROVE  Asked(c, states) = {}
    BY ParamFacts DEF Init, Asked, NoRequest
  <2>4. QED
    BY <2>1, <2>2, <2>3, FS_EmptySet DEF Accounts
<1>3. QED
  BY <1>1, <1>2 DEF AccountsInv, ReopenersAreFinite

\* The timeline of a case accounts for everything else that is stored about it: its state,
\* its requests and the decisions on them, its counter of reopenings, and the ledger of
\* the recurrences that reopened it.
THEOREM TimelinesAccount == Spec => []TimelineAccounts
<1>1. AccountsInv => TimelineAccounts
  BY TimelineIsAccounts DEF AccountsInv
<1>2. QED
  BY <1>1, InitAccounts, StepAccounts, Inductive, PTL DEF Spec
=============================================================================
