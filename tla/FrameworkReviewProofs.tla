------------------------ MODULE FrameworkReviewProofs ------------------------
(***************************************************************************)
(* Theorems about FrameworkReview that hold for every number of findings,  *)
(* references, frameworks, suggestions and concurrent requests.            *)
(***************************************************************************)
EXTENDS FrameworkReview, TLAPS

-----------------------------------------------------------------------------
(* The inductive invariant.                                                *)

\* What a request remembers is of the case as it was, and so of rows that only grew since.
Names(x) ==
    x.reference # NoReference => x.framework = FrameworkOf[x.reference]

Saw(x) ==
    x.pc = "writing" =>
        \A r \in References : /\ x.view.mapping[r].id <= mapping[r].id
                              /\ x.view.mapping[r].state # "NONE" => x.view.mapping[r].id > 0

DecidesOn(x) ==
    x.kind \in {"APPROVE", "REJECT"} =>
        /\ x.of \in Suggestions
        /\ suggestion[x.of].state # "NONE"
        /\ suggestion[x.of].reference = x.reference
        /\ suggestion[x.of].finding = x.finding

Fit(x) ==
    /\ Names(x)
    /\ Saw(x)
    /\ DecidesOn(x)
    /\ x.pc # "idle" /\ x.kind \in {"MAP", "REMOVE"} => x.reference \in References
    /\ x.pc \in {"expiring", "overwriting"} => x.kind = "APPROVE" /\ x.reference = NoReference

RequestsFit == \A q \in Requests : Fit(req[q])

\* Every row that was made has an id, and a promotion is of a row that was made.
RowsAreMade == \A r \in References : mapping[r].state # "NONE" => mapping[r].id > 0

SuggestionsFit ==
    \A s \in Suggestions :
        /\ suggestion[s].state = "NONE" => suggestion[s].reference = NoReference
        /\ suggestion[s].reference = NoReference => suggestion[s].promoted = 0 /\ ledger[s] = <<>>
        /\ suggestion[s].reference # NoReference =>
              suggestion[s].promoted <= mapping[suggestion[s].reference].id

\* The parts of PromotionsAreDecisions.
LedgerAgrees(s) ==
    suggestion[s].reference # NoReference =>
        /\ suggestion[s].state = "PENDING" => ledger[s] = <<>> /\ suggestion[s].promoted = 0
        /\ suggestion[s].state = "APPROVED" =>
              /\ suggestion[s].promoted > 0
              /\ \/ ledger[s] = <<"APPROVED_AND_PROMOTED">>
                 \/ ledger[s] = <<"APPROVED_MAPPING_UNCHANGED">>
        /\ suggestion[s].state = "REJECTED" => ledger[s] = <<"REJECTED">> /\ suggestion[s].promoted = 0
        /\ suggestion[s].state \in {"PENDING", "APPROVED", "REJECTED"}

LedgersAgree == \A s \in Suggestions : LedgerAgrees(s)

PromotedBy(s, r) ==
    /\ suggestion[s].reference = r
    /\ suggestion[s].promoted = mapping[r].id
    /\ suggestion[s].finding = mapping[r].finding
    /\ ledger[s] = <<"APPROVED_AND_PROMOTED">>

PromotedRowsAreApproved ==
    \A r \in References :
        mapping[r].state = "ACTIVE" /\ mapping[r].source = "AI_SUGGESTION_PROMOTED" =>
            \E s \in Suggestions : PromotedBy(s, r)

ApprovalsDiffer ==
    \A s, t \in Suggestions :
        /\ suggestion[s].promoted > 0
        /\ suggestion[s].promoted = suggestion[t].promoted
        /\ suggestion[s].reference = suggestion[t].reference
        => s = t

Tables ==
    /\ RowsAreMade
    /\ DeterminationsExclude
    /\ SuggestionsFit
    /\ LedgersAgree
    /\ PromotedRowsAreApproved
    /\ ApprovalsDiffer

IInv == TypeOK /\ RequestsFit /\ Tables

-----------------------------------------------------------------------------
(* Values.                                                                 *)

LEMMA Fresh ==
    ASSUME Params
    PROVE  /\ NoMapping \in Mapping /\ NoAssertion \in Assertion
           /\ NoFingerprint \in Fingerprint
           /\ NoSuggestion \in Suggestion
           /\ NoView \in View
           /\ NewRequest \in Request
<1>1. /\ 0 \in 0..MaxRows /\ Unlinked \in Unlinked..MaxEvidence
      /\ (CHOOSE f \in Findings : TRUE) \in Findings
      /\ (CHOOSE w \in Frameworks : TRUE) \in Frameworks
  BY Params DEF ParamsAssumption, Unlinked
<1>2. NoMapping \in Mapping /\ NoAssertion \in Assertion /\ NoFingerprint \in Fingerprint
  BY <1>1 DEF NoMapping, Mapping, NoAssertion, Assertion, NoFingerprint, Fingerprint
<1>3. NoSuggestion \in Suggestion
  BY <1>1, <1>2 DEF NoSuggestion, Suggestion
<1>4. NoView \in View
  BY <1>2, <1>3 DEF NoView, View
<1>5. NewRequest \in Request
  BY <1>1, <1>2, <1>4 DEF NewRequest, Request, RequestPCs, Kinds
<1>6. QED
  BY <1>2, <1>3, <1>4, <1>5

LEMMA NewIsFit ==
    ASSUME TypeOK, Params
    PROVE  Fit(NewRequest)
  BY Params DEF TypeOK, ParamsAssumption, Fit, Names, Saw, DecidesOn, NewRequest

LEMMA EvidenceIsTyped ==
    ASSUME TypeOK, Params, NEW S \in SUBSET Findings
    PROVE  EvidenceOf(S) \in [Findings -> Unlinked..MaxEvidence]
<1>1. \A f \in Findings : evidence[f] \in Unlinked..MaxEvidence
  BY Params DEF TypeOK, ParamsAssumption, Unlinked
<1>2. Unlinked \in Unlinked..MaxEvidence
  BY Params DEF ParamsAssumption, Unlinked
<1>3. QED
  BY <1>1, <1>2 DEF EvidenceOf

LEMMA InitHolds ==
    ASSUME Init, Params
    PROVE  IInv
<1>1. TypeOK
  <2>1. 0 \in 0..MaxEvidence
    BY Params DEF ParamsAssumption
  <2>2. <<>> \in Seq(Outcomes)
    OBVIOUS
  <2>3. QED
    BY <2>1, <2>2, Fresh DEF Init, TypeOK
<1>2. RequestsFit
  BY <1>1, NewIsFit DEF Init, RequestsFit
<1>3. Tables
  BY DEF Init, Tables, RowsAreMade, DeterminationsExclude, SuggestionsFit, LedgersAgree, LedgerAgrees,
     PromotedRowsAreApproved, ApprovalsDiffer, NoMapping, NoAssertion, NoSuggestion
<1>4. QED
  BY <1>1, <1>2, <1>3 DEF IInv

-----------------------------------------------------------------------------
(* Steps that touch only the memory of a request.                          *)

LEMMA TablesStand ==
    ASSUME Tables, UNCHANGED <<case, rows>>
    PROVE  Tables'
  BY DEF Tables, case, rows, RowsAreMade, DeterminationsExclude, SuggestionsFit, LedgersAgree,
     LedgerAgrees, PromotedRowsAreApproved, PromotedBy, ApprovalsDiffer

LEMMA MemoryStep ==
    ASSUME IInv, NEW q \in Requests, NEW x \in Request, Fit(x), Set(q, x),
           UNCHANGED <<evidence, linked, case, rows>>
    PROVE  IInv'
<1>1. TypeOK'
  BY DEF IInv, TypeOK, Set, case, rows
<1>2. RequestsFit'
  <2> SUFFICES ASSUME NEW p \in Requests
               PROVE  Fit(req[p])'
    BY DEF RequestsFit
  <2>1. CASE p = q
    <3>1. req'[p] = x
      BY <2>1 DEF Set, IInv, TypeOK
    <3>2. QED
      BY <3>1 DEF Fit, Names, Saw, DecidesOn, case, rows
  <2>2. CASE p # q
    <3>1. req'[p] = req[p] /\ Fit(req[p])
      BY <2>2 DEF Set, IInv, TypeOK, RequestsFit
    <3>2. QED
      BY <3>1 DEF Fit, Names, Saw, DecidesOn, case, rows
  <2>3. QED
    BY <2>1, <2>2
<1>3. Tables'
  BY TablesStand DEF IInv
<1>4. QED
  BY <1>1, <1>2, <1>3 DEF IInv

LEMMA AnswerHolds ==
    ASSUME IInv, Params, NEW q \in Requests, Answer(q),
           UNCHANGED <<evidence, linked, case, rows>>
    PROVE  IInv'
  BY Fresh, NewIsFit, MemoryStep DEF Answer, IInv

\* A request that asks for a mapping or a determination opens its transaction at once.
LEMMA BeginMappingHolds ==
    ASSUME IInv, Params, NEW q \in Requests, BeginMapping(q)
    PROVE  IInv'
<1>1. PICK r \in References, f \in Findings :
        Set(q, [NewRequest EXCEPT !.pc = "writing", !.kind = "MAP", !.reference = r,
                                  !.framework = FrameworkOf[r], !.finding = f,
                                  !.view = [NoView EXCEPT !.mapping = mapping, !.linked = linked,
                                                          !.assertion = assertion]])
  BY DEF BeginMapping
<1> DEFINE v == [NoView EXCEPT !.mapping = mapping, !.linked = linked, !.assertion = assertion]
           x == [NewRequest EXCEPT !.pc = "writing", !.kind = "MAP", !.reference = r,
                                   !.framework = FrameworkOf[r], !.finding = f, !.view = v]
<1>2. v \in View /\ v.mapping = mapping
  BY Fresh DEF View, IInv, TypeOK, NoView
<1> HIDE DEF v
<1>3. FrameworkOf[r] \in Frameworks
  BY Params DEF ParamsAssumption
<1>4. x \in Request
  BY <1>2, <1>3, Fresh DEF Request, RequestPCs, Kinds
<1>5. /\ x.pc = "writing" /\ x.kind = "MAP" /\ x.reference = r
      /\ x.framework = FrameworkOf[r] /\ x.view = v
  BY DEF NewRequest
<1>6. Set(q, x)
  BY <1>1 DEF v
<1> HIDE DEF x
<1>7. \A k \in References : mapping[k].id <= mapping[k].id
  BY DEF IInv, TypeOK, Mapping
<1>8. Fit(x)
  BY <1>2, <1>5, <1>7 DEF Fit, Names, Saw, DecidesOn, IInv, Tables, RowsAreMade
<1>9. QED
  BY <1>4, <1>6, <1>8, MemoryStep DEF BeginMapping

LEMMA BeginAssertionHolds ==
    ASSUME IInv, Params, NEW q \in Requests, BeginAssertion(q)
    PROVE  IInv'
<1>1. PICK w \in Frameworks :
        Set(q, [NewRequest EXCEPT !.pc = "writing", !.kind = "ASSERT", !.framework = w,
                                  !.view = [NoView EXCEPT !.mapping = mapping,
                                                          !.assertion = assertion]])
  BY DEF BeginAssertion
<1> DEFINE v == [NoView EXCEPT !.mapping = mapping, !.assertion = assertion]
           x == [NewRequest EXCEPT !.pc = "writing", !.kind = "ASSERT", !.framework = w, !.view = v]
<1>2. v \in View /\ v.mapping = mapping
  BY Fresh DEF View, IInv, TypeOK, NoView
<1> HIDE DEF v
<1>3. x \in Request
  BY <1>2, Fresh DEF Request, RequestPCs, Kinds
<1>4. x.pc = "writing" /\ x.kind = "ASSERT" /\ x.reference = NoReference /\ x.view = v
  BY DEF NewRequest
<1>5. Set(q, x)
  BY <1>1 DEF v
<1> HIDE DEF x
<1>6. \A k \in References : mapping[k].id <= mapping[k].id
  BY DEF IInv, TypeOK, Mapping
<1>7. Fit(x)
  BY <1>2, <1>4, <1>6 DEF Fit, Names, Saw, DecidesOn, IInv, Tables, RowsAreMade
<1>8. QED
  BY <1>3, <1>5, <1>7, MemoryStep DEF BeginAssertion

LEMMA BeginRemovalHolds ==
    ASSUME IInv, Params, NEW q \in Requests, BeginRemoval(q)
    PROVE  IInv'
<1>1. PICK r \in References :
        Set(q, [NewRequest EXCEPT !.pc = "reading", !.kind = "REMOVE", !.reference = r,
                                  !.framework = FrameworkOf[r], !.row = mapping[r].id])
  BY DEF BeginRemoval
<1> DEFINE x == [NewRequest EXCEPT !.pc = "reading", !.kind = "REMOVE", !.reference = r,
                                   !.framework = FrameworkOf[r], !.row = mapping[r].id]
<1>2. FrameworkOf[r] \in Frameworks /\ mapping[r].id \in 0..MaxRows
  BY Params DEF ParamsAssumption, IInv, TypeOK, Mapping
<1>3. x \in Request
  BY <1>2, Fresh DEF Request, RequestPCs, Kinds
<1>4. x.pc = "reading" /\ x.kind = "REMOVE" /\ x.reference = r /\ x.framework = FrameworkOf[r]
  BY DEF NewRequest
<1>5. Fit(x)
  BY <1>4 DEF Fit, Names, Saw, DecidesOn
<1>6. QED
  BY <1>1, <1>3, <1>5, MemoryStep DEF BeginRemoval

LEMMA BeginWithdrawalHolds ==
    ASSUME IInv, Params, NEW q \in Requests, BeginWithdrawal(q)
    PROVE  IInv'
<1>1. PICK w \in Frameworks :
        Set(q, [NewRequest EXCEPT !.pc = "reading", !.kind = "WITHDRAW", !.framework = w,
                                  !.row = assertion[w].id])
  BY DEF BeginWithdrawal
<1> DEFINE x == [NewRequest EXCEPT !.pc = "reading", !.kind = "WITHDRAW", !.framework = w,
                                   !.row = assertion[w].id]
<1>2. assertion[w].id \in 0..MaxRows
  BY DEF IInv, TypeOK, Assertion
<1>3. x \in Request
  BY <1>2, Fresh DEF Request, RequestPCs, Kinds
<1>4. x.pc = "reading" /\ x.kind = "WITHDRAW" /\ x.reference = NoReference
  BY DEF NewRequest
<1>5. Fit(x)
  BY <1>4 DEF Fit, Names, Saw, DecidesOn
<1>6. QED
  BY <1>1, <1>3, <1>5, MemoryStep DEF BeginWithdrawal

LEMMA BeginSuggestionHolds ==
    ASSUME IInv, Params, NEW q \in Requests, BeginSuggestion(q)
    PROVE  IInv'
<1>1. CASE Set(q, [NewRequest EXCEPT !.pc = "listing", !.kind = "SUGGEST"])
  <2> DEFINE x == [NewRequest EXCEPT !.pc = "listing", !.kind = "SUGGEST"]
  <2>1. x \in Request
    BY Fresh DEF Request, RequestPCs, Kinds
  <2>2. Fit(x)
    BY DEF NewRequest, Fit, Names, Saw, DecidesOn
  <2>3. QED
    BY <1>1, <2>1, <2>2, MemoryStep DEF BeginSuggestion
<1>2. ASSUME NEW f \in Findings,
             Set(q, [NewRequest EXCEPT !.pc = "listing", !.kind = "DRAFT", !.finding = f])
      PROVE  IInv'
  <2> DEFINE x == [NewRequest EXCEPT !.pc = "listing", !.kind = "DRAFT", !.finding = f]
  <2>1. x \in Request
    BY Fresh DEF Request, RequestPCs, Kinds
  <2>2. Fit(x)
    BY DEF NewRequest, Fit, Names, Saw, DecidesOn
  <2>3. QED
    BY <1>2, <2>1, <2>2, MemoryStep DEF BeginSuggestion
<1>3. QED
  BY <1>1, <1>2 DEF BeginSuggestion

LEMMA BeginDecisionHolds ==
    ASSUME IInv, Params, NEW q \in Requests, BeginDecision(q)
    PROVE  IInv'
<1> DEFINE first(kind) == IF kind = "APPROVE" THEN "listing" ELSE "reading"
           w(s) == IF suggestion[s].reference = NoReference THEN NewRequest.framework
                   ELSE FrameworkOf[suggestion[s].reference]
           print(s, kind) == IF kind = "APPROVE" THEN suggestion[s].fingerprint ELSE NoFingerprint
           x(s, kind) == [NewRequest EXCEPT !.pc = first(kind), !.kind = kind, !.of = s,
                                            !.reference = suggestion[s].reference,
                                            !.framework = w(s), !.finding = suggestion[s].finding,
                                            !.loaded = print(s, kind)]
<1>1. PICK s \in Suggestions, kind \in {"APPROVE", "REJECT"} :
        suggestion[s].state \in Open /\ Set(q, x(s, kind))
  BY DEF BeginDecision
<1>2. suggestion[s] \in Suggestion
  BY DEF IInv, TypeOK
<1>3. w(s) \in Frameworks /\ print(s, kind) \in Fingerprint /\ first(kind) \in {"listing", "reading"}
  BY <1>2, Fresh, Params DEF ParamsAssumption, Suggestion, Request
<1>4. x(s, kind) \in Request
  BY <1>2, <1>3, Fresh DEF Request, RequestPCs, Kinds, Suggestion
<1>5. /\ x(s, kind).pc = first(kind) /\ x(s, kind).kind = kind /\ x(s, kind).of = s
      /\ x(s, kind).reference = suggestion[s].reference /\ x(s, kind).framework = w(s)
      /\ x(s, kind).finding = suggestion[s].finding
  BY DEF NewRequest
<1>6. Fit(x(s, kind))
  BY <1>1, <1>3, <1>5 DEF Fit, Names, Saw, DecidesOn, Open
<1>7. QED
  BY <1>1, <1>4, <1>6, MemoryStep DEF BeginDecision

-----------------------------------------------------------------------------
(* Steps of a request that is under way and changes no row.                *)

LEMMA UnderWay ==
    ASSUME IInv, NEW q \in Requests
    PROVE  req[q] \in Request /\ Fit(req[q])
  BY DEF IInv, TypeOK, RequestsFit

LEMMA ListEvidenceHolds ==
    ASSUME IInv, Params, NEW q \in Requests, ListEvidence(q)
    PROVE  IInv'
<1> DEFINE e == EvidenceOf(linked)
           x == [req[q] EXCEPT !.pc = "comparing", !.fingerprint.about = e]
<1>1. e \in [Findings -> Unlinked..MaxEvidence]
  BY EvidenceIsTyped DEF IInv, TypeOK
<1>2. Set(q, x)
  BY DEF ListEvidence
<1> HIDE DEF e
<1>3. x \in Request
  BY <1>1, UnderWay DEF Request, RequestPCs, Fingerprint
<1>4. /\ x.kind = req[q].kind /\ x.reference = req[q].reference /\ x.of = req[q].of
      /\ x.framework = req[q].framework /\ x.finding = req[q].finding
      /\ x.pc = "comparing" /\ req[q].pc = "listing"
  BY UnderWay DEF Request, ListEvidence
<1> HIDE DEF x
<1>5. Fit(x)
  BY <1>4, UnderWay DEF Fit, Names, Saw, DecidesOn
<1>6. QED
  BY <1>2, <1>3, <1>5, MemoryStep DEF ListEvidence

LEMMA TakenIsTyped ==
    ASSUME IInv, Params, NEW q \in Requests
    PROVE  Taken(q) \in Fingerprint
<1>1. req[q].finding \in Findings /\ req[q].fingerprint.about \in [Findings -> Unlinked..MaxEvidence]
  BY UnderWay DEF Request, Fingerprint
<1>2. EvidenceOf({req[q].finding}) \in [Findings -> Unlinked..MaxEvidence]
  BY <1>1, EvidenceIsTyped DEF IInv
<1>3. QED
  BY <1>1, <1>2 DEF Taken, Fingerprint, ActiveReferences

LEMMA GenerateHolds ==
    ASSUME IInv, Params, NEW q \in Requests, Generate(q)
    PROVE  IInv'
<1> DEFINE t == Taken(q)
           x == [req[q] EXCEPT !.pc = "calling", !.fingerprint = t]
<1>1. t \in Fingerprint
  BY TakenIsTyped
<1>2. Set(q, x)
  BY DEF Generate
<1> HIDE DEF t
<1>3. x \in Request
  BY <1>1, UnderWay DEF Request, RequestPCs
<1>4. Fit(x)
  BY UnderWay DEF Request, Fit, Names, Saw, DecidesOn, Generate
<1>5. QED
  BY <1>2, <1>3, <1>4, MemoryStep DEF Generate

LEMMA CompareEvidenceHolds ==
    ASSUME IInv, Params, NEW q \in Requests, CompareEvidence(q)
    PROVE  IInv'
<1> DEFINE x(pc) == [req[q] EXCEPT !.pc = pc, !.fingerprint = NoFingerprint, !.loaded = NoFingerprint]
<1>1. CASE Set(q, x("reading"))
  <2>1. x("reading") \in Request
    BY Fresh, UnderWay DEF Request, RequestPCs
  <2>2. Fit(x("reading"))
    BY UnderWay DEF Request, Fit, Names, Saw, DecidesOn, CompareEvidence
  <2>3. QED
    BY <1>1, <2>1, <2>2, MemoryStep DEF CompareEvidence
<1>2. CASE Set(q, x("expiring")) /\ IsText(q)
  <2>1. x("expiring") \in Request
    BY Fresh, UnderWay DEF Request, RequestPCs
  <2>2. req[q].kind = "APPROVE" /\ req[q].reference = NoReference
    BY <1>2 DEF CompareEvidence, IsText
  <2>3. Fit(x("expiring"))
    BY <2>2, UnderWay DEF Request, Fit, Names, Saw, DecidesOn
  <2>4. QED
    BY <1>2, <2>1, <2>3, MemoryStep DEF CompareEvidence
<1>3. CASE Answer(q)
  BY <1>3, AnswerHolds DEF CompareEvidence
<1>4. QED
  BY <1>1, <1>2, <1>3 DEF CompareEvidence

LEMMA ReadExpiringHolds ==
    ASSUME IInv, Params, NEW q \in Requests, ReadExpiring(q)
    PROVE  IInv'
<1> DEFINE x == [req[q] EXCEPT !.pc = "overwriting"]
<1>1. CASE Set(q, x)
  <2>1. x \in Request
    BY UnderWay DEF Request, RequestPCs
  <2>2. Fit(x)
    BY UnderWay DEF Request, Fit, Names, Saw, DecidesOn, ReadExpiring
  <2>3. QED
    BY <1>1, <2>1, <2>2, MemoryStep DEF ReadExpiring
<1>2. CASE Answer(q)
  BY <1>2, AnswerHolds DEF ReadExpiring
<1>3. QED
  BY <1>1, <1>2 DEF ReadExpiring

LEMMA SnapshotIsTyped ==
    ASSUME IInv, Params, NEW q \in Requests
    PROVE  Snapshot(q) \in View
<1>1. Decides(q) => req[q].of \in Suggestions
  BY UnderWay DEF Decides, Fit, DecidesOn
<1>2. NoView.mapping \in [References -> Mapping] /\ NoView.assertion \in [Frameworks -> Assertion]
  BY Fresh DEF View
<1>3. QED
  BY <1>1, <1>2, Fresh DEF Snapshot, View, IInv, TypeOK

LEMMA SnapshotIsOfRows ==
    ASSUME IInv, NEW q \in Requests, NEW r \in References
    PROVE  /\ Snapshot(q).mapping[r].id <= mapping[r].id
           /\ Snapshot(q).mapping[r].state # "NONE" => Snapshot(q).mapping[r].id > 0
<1>1. mapping[r].id \in Nat /\ (mapping[r].state # "NONE" => mapping[r].id > 0)
  BY DEF IInv, TypeOK, Mapping, Tables, RowsAreMade
<1>2. CASE Snapshot(q).mapping = mapping
  BY <1>1, <1>2
<1>3. CASE Snapshot(q).mapping = NoView.mapping
  <2>1. Snapshot(q).mapping[r].id = 0 /\ Snapshot(q).mapping[r].state = "NONE"
    BY <1>3 DEF NoView, NoMapping
  <2>2. QED
    BY <1>1, <2>1
<1>4. QED
  BY <1>2, <1>3 DEF Snapshot

LEMMA ReadHolds ==
    ASSUME IInv, Params, NEW q \in Requests, Read(q)
    PROVE  IInv'
<1> DEFINE y == [req[q] EXCEPT !.pc = "writing", !.view = Snapshot(q)]
<1>1. Set(q, y)
  BY DEF Read
<1>2. y \in Request
  BY SnapshotIsTyped, UnderWay DEF Request, RequestPCs
<1>3. /\ y.kind = req[q].kind /\ y.reference = req[q].reference /\ y.of = req[q].of
      /\ y.framework = req[q].framework /\ y.finding = req[q].finding
      /\ y.pc = "writing" /\ y.view = Snapshot(q) /\ req[q].pc = "reading"
  BY UnderWay DEF Request, Read
<1> HIDE DEF y
<1>4. Names(y) /\ DecidesOn(y)
  BY <1>3, UnderWay DEF Fit, Names, DecidesOn
<1>5. Saw(y)
  BY <1>3, SnapshotIsOfRows DEF Saw
<1>6. Fit(y)
  BY <1>3, <1>4, <1>5, UnderWay DEF Fit
<1>7. QED
  BY <1>1, <1>2, <1>6, MemoryStep DEF Read

LEMMA ConflictHolds ==
    ASSUME IInv, Params, NEW q \in Requests, Conflict(q)
    PROVE  IInv'
<1> DEFINE x == [req[q] EXCEPT !.pc = "reading", !.view = NoView]
<1>1. CASE Set(q, x)
  <2>1. x \in Request
    BY Fresh, UnderWay DEF Request, RequestPCs
  <2>2. Fit(x)
    BY UnderWay DEF Request, Fit, Names, Saw, DecidesOn, Conflict
  <2>3. QED
    BY <1>1, <2>1, <2>2, MemoryStep DEF Conflict
<1>2. CASE Answer(q)
  BY <1>2, AnswerHolds DEF Conflict
<1>3. QED
  BY <1>1, <1>2 DEF Conflict

LEMMA RefuseHolds ==
    ASSUME IInv, Params, NEW q \in Requests, Refuse(q)
    PROVE  IInv'
  BY AnswerHolds DEF Refuse

-----------------------------------------------------------------------------
(* What a step that changes rows leaves to the requests.                   *)

\* The rows only grow, and no suggestion is taken back.
RowsGrow == \A r \in References : mapping[r].id <= mapping'[r].id /\ mapping'[r].id \in Nat

SuggestionsKeep ==
    \A s \in Suggestions :
        suggestion[s].state # "NONE" => /\ suggestion'[s].state # "NONE"
                                        /\ suggestion'[s].reference = suggestion[s].reference
                                        /\ suggestion'[s].finding = suggestion[s].finding

LEMMA RequestsStand ==
    ASSUME IInv, Params, NEW q \in Requests, Answer(q), RowsGrow, SuggestionsKeep
    PROVE  RequestsFit'
<1> SUFFICES ASSUME NEW p \in Requests
             PROVE  Fit(req[p])'
  BY DEF RequestsFit
<1>1. CASE p = q
  <2>1. req'[p] = NewRequest
    BY <1>1 DEF Answer, Set, IInv, TypeOK
  <2>2. QED
    BY <2>1, Params DEF Fit, Names, Saw, DecidesOn, NewRequest, ParamsAssumption
<1>2. CASE p # q
  <2>1. req'[p] = req[p] /\ Fit(req[p]) /\ req[p] \in Request
    BY <1>2, UnderWay DEF Answer, Set, IInv, TypeOK
  <2>2. Names(req'[p])
    BY <2>1 DEF Fit, Names
  <2>3. Saw(req[p])'
    <3>1. \A r \in References : req[p].view.mapping[r].id \in Int
      BY <2>1 DEF Request, View, Mapping
    <3>2. \A r \in References : mapping[r].id \in Int
      BY DEF IInv, TypeOK, Mapping
    <3>3. QED
      BY <2>1, <3>1, <3>2 DEF Fit, Saw, RowsGrow
  <2>4. DecidesOn(req[p])'
    BY <2>1 DEF Fit, DecidesOn, SuggestionsKeep
  <2>5. QED
    BY <2>1, <2>2, <2>3, <2>4 DEF Fit, Names
<1>3. QED
  BY <1>1, <1>2

LEMMA AnswerIsTyped ==
    ASSUME IInv, Params, NEW q \in Requests, Answer(q)
    PROVE  req' \in [Requests -> Request]
  BY Fresh DEF IInv, TypeOK, Answer, Set

LEMMA MappingsKept ==
    ASSUME IInv, UNCHANGED mapping
    PROVE  RowsGrow
  BY DEF IInv, TypeOK, Mapping, RowsGrow

\* A row that is appended is the next of its reference.
LEMMA AppendRowSets ==
    ASSUME IInv, Params, NEW r \in References, NEW state \in {"ACTIVE", "REMOVED"},
           NEW source \in {"MANUAL", "AI_SUGGESTION_PROMOTED"}, NEW f \in Findings,
           AppendRow(r, state, source, f)
    PROVE  /\ mapping' \in [References -> Mapping]
           /\ mapping'[r].id = mapping[r].id + 1 /\ mapping'[r].state = state
           /\ mapping'[r].source = source /\ mapping'[r].finding = f
           /\ \A k \in References \ {r} : mapping'[k] = mapping[k]
           /\ RowsGrow
<1> DEFINE row == [id |-> mapping[r].id + 1, state |-> state, source |-> source, finding |-> f]
<1>1. mapping[r].id \in 0..MaxRows /\ mapping[r].id + 1 \in 0..MaxRows
  BY Params DEF ParamsAssumption, IInv, TypeOK, Mapping, AppendRow
<1>2. row \in Mapping
  BY <1>1 DEF Mapping
<1>3. mapping' = [mapping EXCEPT ![r] = row]
  BY DEF AppendRow
<1>4. mapping'[r] = row /\ \A k \in References \ {r} : mapping'[k] = mapping[k]
  BY <1>3 DEF IInv, TypeOK
<1>5. mapping' \in [References -> Mapping]
  BY <1>2, <1>3 DEF IInv, TypeOK
<1>6. RowsGrow
  <2>1. \A k \in References : mapping[k].id \in Nat
    BY DEF IInv, TypeOK, Mapping
  <2>2. mapping'[r].id = mapping[r].id + 1
    BY <1>4
  <2>3. QED
    BY <1>4, <2>1, <2>2 DEF RowsGrow
<1>7. QED
  BY <1>4, <1>5, <1>6

\* Two active rows of a reference have an id apart, so only the row that is appended can want
\* an approval or a withdrawn determination.
LEMMA AppendRowStands ==
    ASSUME IInv, Params, NEW r \in References, NEW state \in {"ACTIVE", "REMOVED"},
           NEW source \in {"MANUAL", "AI_SUGGESTION_PROMOTED"}, NEW f \in Findings,
           AppendRow(r, state, source, f), UNCHANGED assertion,
           state = "ACTIVE" => assertion[FrameworkOf[r]].state # "ASSERTED"
    PROVE  RowsAreMade' /\ DeterminationsExclude'
<1>1. mapping[r].id \in Nat
  BY DEF IInv, TypeOK, Mapping
<1>2. RowsAreMade'
  BY <1>1, AppendRowSets DEF IInv, Tables, RowsAreMade
<1>3. DeterminationsExclude'
  BY AppendRowSets DEF IInv, Tables, DeterminationsExclude
<1>4. QED
  BY <1>2, <1>3

\* A step that appends a row and decides nothing.
LEMMA MappingStep ==
    ASSUME IInv, Params, NEW q \in Requests, NEW r \in References,
           NEW state \in {"ACTIVE", "REMOVED"},
           NEW source \in {"MANUAL", "AI_SUGGESTION_PROMOTED"}, NEW f \in Findings,
           AppendRow(r, state, source, f), Answer(q), UNCHANGED <<evidence, linked, assertion, rows>>,
           state = "ACTIVE" => assertion[FrameworkOf[r]].state # "ASSERTED",
           ~(state = "ACTIVE" /\ source = "AI_SUGGESTION_PROMOTED")
    PROVE  IInv'
<1>1. TypeOK'
  BY AppendRowSets, AnswerIsTyped DEF IInv, TypeOK, rows
<1>2. RequestsFit'
  <2>1. SuggestionsKeep
    BY DEF SuggestionsKeep, rows
  <2>2. QED
    BY <2>1, AppendRowSets, RequestsStand
<1>3. SuggestionsFit'
  <2> SUFFICES ASSUME NEW s \in Suggestions, suggestion[s].reference # NoReference
               PROVE  suggestion[s].promoted <= mapping'[suggestion[s].reference].id
    BY DEF IInv, Tables, SuggestionsFit, rows
  <2>1. suggestion[s].promoted \in Nat /\ suggestion[s].reference \in References
    BY DEF IInv, TypeOK, Suggestion
  <2>2. \A k \in References : mapping[k].id \in Nat
    BY DEF IInv, TypeOK, Mapping
  <2>3. QED
    BY <2>1, <2>2, AppendRowSets DEF IInv, Tables, SuggestionsFit, RowsGrow
<1>4. LedgersAgree' /\ ApprovalsDiffer'
  BY DEF IInv, Tables, LedgersAgree, LedgerAgrees, ApprovalsDiffer, rows
<1>5. PromotedRowsAreApproved'
  <2> SUFFICES ASSUME NEW k \in References, mapping'[k].state = "ACTIVE",
                      mapping'[k].source = "AI_SUGGESTION_PROMOTED"
               PROVE  \E s \in Suggestions : PromotedBy(s, k)'
    BY DEF PromotedRowsAreApproved
  <2>1. mapping'[k] = mapping[k]
    BY AppendRowSets
  <2>2. PICK s \in Suggestions : PromotedBy(s, k)
    BY <2>1 DEF IInv, Tables, PromotedRowsAreApproved
  <2>3. PromotedBy(s, k)'
    BY <2>1, <2>2 DEF PromotedBy, rows
  <2>4. QED
    BY <2>3
<1>6. QED
  BY <1>1, <1>2, <1>3, <1>4, <1>5, AppendRowStands DEF IInv, Tables

\* What the mapping's transaction read of the determination is so still.
LEMMA MayMapMeans ==
    ASSUME IInv, Params, NEW q \in Requests, MayMap(q), CommitsMapping(q),
           req[q].reference \in References
    PROVE  /\ assertion[FrameworkOf[req[q].reference]].state # "ASSERTED"
           /\ req[q].finding \in Findings
<1>1. req[q].framework = FrameworkOf[req[q].reference] /\ req[q].finding \in Findings
  BY UnderWay, Params DEF Fit, Names, ParamsAssumption, Request
<1>2. QED
  BY <1>1 DEF MayMap, CommitsMapping, SameAssertion

LEMMA CreateMappingHolds ==
    ASSUME IInv, Params, NEW q \in Requests, CreateMapping(q)
    PROVE  IInv'
<1>1. req[q].reference \in References
  BY UnderWay DEF Fit, CreateMapping, Writes
<1>2. QED
  BY <1>1, MayMapMeans, MappingStep DEF CreateMapping, AppendMapping

LEMMA RemoveMappingHolds ==
    ASSUME IInv, Params, NEW q \in Requests, RemoveMapping(q)
    PROVE  IInv'
<1>1. req[q].reference \in References
  BY UnderWay DEF Fit, RemoveMapping, Writes
<1>2. SeenRow(q).source \in {"MANUAL", "AI_SUGGESTION_PROMOTED"} /\ SeenRow(q).finding \in Findings
  BY <1>1 DEF SameRow, RemoveMapping, IInv, TypeOK, Mapping
<1>3. QED
  BY <1>1, <1>2, MappingStep DEF RemoveMapping

LEMMA AppendAssertionHolds ==
    ASSUME IInv, Params, NEW q \in Requests, NEW w \in Frameworks,
           NEW state \in {"ASSERTED", "WITHDRAWN"}, AppendAssertion(w, state), Answer(q),
           UNCHANGED <<evidence, linked, mapping, rows>>,
           state = "ASSERTED" =>
              \A r \in References : FrameworkOf[r] = w => mapping[r].state # "ACTIVE"
    PROVE  IInv'
<1> DEFINE row == [id |-> assertion[w].id + 1, state |-> state]
<1>1. row \in Assertion
  BY Params DEF ParamsAssumption, IInv, TypeOK, Assertion, AppendAssertion
<1>2. assertion' = [assertion EXCEPT ![w] = row]
  BY DEF AppendAssertion
<1>3. /\ assertion' \in [Frameworks -> Assertion]
      /\ assertion'[w].state = state
      /\ \A v \in Frameworks \ {w} : assertion'[v] = assertion[v]
  BY <1>1, <1>2 DEF IInv, TypeOK
<1>4. TypeOK'
  BY <1>3, AnswerIsTyped DEF IInv, TypeOK, rows
<1>5. RequestsFit'
  <2>1. SuggestionsKeep
    BY DEF SuggestionsKeep, rows
  <2>2. QED
    BY <2>1, MappingsKept, RequestsStand
<1>6. DeterminationsExclude'
  BY <1>3, Params DEF ParamsAssumption, IInv, Tables, DeterminationsExclude
<1>7. /\ RowsAreMade' /\ SuggestionsFit' /\ LedgersAgree' /\ PromotedRowsAreApproved'
      /\ ApprovalsDiffer'
  BY DEF IInv, Tables, rows, RowsAreMade, SuggestionsFit, LedgersAgree, LedgerAgrees,
     PromotedRowsAreApproved, PromotedBy, ApprovalsDiffer
<1>8. QED
  BY <1>4, <1>5, <1>6, <1>7 DEF IInv, Tables

LEMMA AssertNoApplicableHolds ==
    ASSUME IInv, Params, NEW q \in Requests, AssertNoApplicable(q)
    PROVE  IInv'
<1>1. req[q].framework \in Frameworks
  BY UnderWay DEF Request
<1>2. \A r \in References : FrameworkOf[r] = req[q].framework => mapping[r].state # "ACTIVE"
  BY DEF AssertNoApplicable, MayAssert, CommitsAssertion
<1>3. QED
  BY <1>1, <1>2, AppendAssertionHolds DEF AssertNoApplicable

LEMMA WithdrawNoApplicableHolds ==
    ASSUME IInv, Params, NEW q \in Requests, WithdrawNoApplicable(q)
    PROVE  IInv'
<1>1. req[q].framework \in Frameworks
  BY UnderWay DEF Request
<1>2. QED
  BY <1>1, AppendAssertionHolds DEF WithdrawNoApplicable

-----------------------------------------------------------------------------
(* Steps that make or decide suggestions.                                  *)

\* Only the suggestion that is decided changes, and it remains what it was about.
DecidesTo(s, state, promoted) ==
    /\ suggestion' \in [Suggestions -> Suggestion]
    /\ suggestion'[s].state = state /\ suggestion'[s].promoted = promoted
    /\ suggestion'[s].reference = suggestion[s].reference
    /\ suggestion'[s].finding = suggestion[s].finding
    /\ \A t \in Suggestions \ {s} : suggestion'[t] = suggestion[t]

LEMMA ClosedIsTyped ==
    ASSUME Params, NEW x \in Suggestion
    PROVE  Closed(x) \in Suggestion /\ Closed(x).reference = x.reference
           /\ Closed(x).finding = x.finding /\ Closed(x).promoted = x.promoted
  BY Fresh DEF Closed, Suggestion

LEMMA DecideSets ==
    ASSUME IInv, Params, NEW q \in Requests, NEW state \in Decided, NEW promoted \in 0..MaxRows,
           req[q].of \in Suggestions, DecideAs(q, state, promoted)
    PROVE  DecidesTo(req[q].of, state, promoted)
<1> DEFINE s == req[q].of
           c == Closed(suggestion[s])
           row == [c EXCEPT !.state = state, !.promoted = promoted]
<1>1. suggestion[s] \in Suggestion
  BY DEF IInv, TypeOK
<1>2. c \in Suggestion /\ c.reference = suggestion[s].reference /\ c.finding = suggestion[s].finding
  BY <1>1, ClosedIsTyped
<1>3. suggestion' = [suggestion EXCEPT ![s] = row]
  BY DEF DecideAs
<1> HIDE DEF c, s
<1>4. /\ row \in Suggestion /\ row.state = state /\ row.promoted = promoted
      /\ row.reference = c.reference /\ row.finding = c.finding
  BY <1>2 DEF Suggestion
<1> HIDE DEF row
<1>5. s \in Suggestions
  BY DEF s
<1>6. DecidesTo(s, state, promoted)
  BY <1>2, <1>3, <1>4, <1>5 DEF DecidesTo, IInv, TypeOK
<1>7. QED
  BY <1>6 DEF s

\* A suggestion that is still open has promoted nothing and has no decision.
LEMMA OpenIsUndecided ==
    ASSUME IInv, Params, NEW q \in Requests, Decides(q), Decidable(q)
    PROVE  /\ req[q].of \in Suggestions
           /\ suggestion[req[q].of].state \in Open
           /\ suggestion[req[q].of].reference = req[q].reference
           /\ suggestion[req[q].of].finding = req[q].finding
           /\ suggestion[req[q].of].promoted = 0
           /\ ledger[req[q].of] = <<>>
<1>1. /\ req[q].of \in Suggestions
      /\ suggestion[req[q].of].reference = req[q].reference
      /\ suggestion[req[q].of].finding = req[q].finding
  BY UnderWay DEF Decides, Fit, DecidesOn
<1>2. suggestion[req[q].of].state \in Open
  BY DEF Decidable, SameSuggestion
<1>3. suggestion[req[q].of].promoted = 0 /\ ledger[req[q].of] = <<>>
  BY <1>1, <1>2 DEF Open, IInv, Tables, SuggestionsFit, LedgersAgree, LedgerAgrees
<1>4. QED
  BY <1>1, <1>2, <1>3

LEMMA DecisionKeeps ==
    ASSUME IInv, NEW s \in Suggestions, NEW state, NEW promoted, state # "NONE",
           DecidesTo(s, state, promoted)
    PROVE  SuggestionsKeep
  BY DEF DecidesTo, SuggestionsKeep

LEMMA RecordSets ==
    ASSUME IInv, NEW q \in Requests, req[q].of \in Suggestions, ledger[req[q].of] = <<>>,
           NEW outcome \in Outcomes, Record(q, outcome)
    PROVE  /\ ledger' \in [Suggestions -> Seq(Outcomes)]
           /\ ledger'[req[q].of] = <<outcome>>
           /\ \A t \in Suggestions \ {req[q].of} : ledger'[t] = ledger[t]
<1>1. Append(ledger[req[q].of], outcome) = <<outcome>> /\ <<outcome>> \in Seq(Outcomes)
  OBVIOUS
<1>2. ledger' = [ledger EXCEPT ![req[q].of] = <<outcome>>]
  BY <1>1 DEF Record
<1>3. QED
  BY <1>1, <1>2 DEF IInv, TypeOK

\* A decision that leaves the mappings alone.
LEMMA DecisionStep ==
    ASSUME IInv, Params, NEW q \in Requests, NEW s \in Suggestions,
           NEW state, state # "NONE", NEW promoted \in 0..MaxRows,
           DecidesTo(s, state, promoted), Answer(q), UNCHANGED <<evidence, linked, case>>,
           ledger' \in [Suggestions -> Seq(Outcomes)],
           \A t \in Suggestions \ {s} : ledger'[t] = ledger[t],
           ledger[s] = <<>>,
           LedgerAgrees(s)',
           suggestion[s].reference = NoReference => promoted = 0 /\ ledger'[s] = <<>>,
           suggestion[s].reference # NoReference => promoted <= mapping[suggestion[s].reference].id,
           promoted > 0 => ~Claimed(suggestion[s].reference, promoted)
    PROVE  IInv'
<1>1. TypeOK'
  BY AnswerIsTyped DEF IInv, TypeOK, DecidesTo, case
<1>2. RequestsFit'
  BY DecisionKeeps, MappingsKept, RequestsStand DEF case
<1>3. RowsAreMade' /\ DeterminationsExclude'
  BY DEF IInv, Tables, RowsAreMade, DeterminationsExclude, case
<1>4. SuggestionsFit'
  <2> SUFFICES ASSUME NEW t \in Suggestions
               PROVE  /\ suggestion'[t].state = "NONE" => suggestion'[t].reference = NoReference
                      /\ suggestion'[t].reference = NoReference =>
                            suggestion'[t].promoted = 0 /\ ledger'[t] = <<>>
                      /\ suggestion'[t].reference # NoReference =>
                            suggestion'[t].promoted <= mapping[suggestion'[t].reference].id
    BY DEF SuggestionsFit, case
  <2>1. CASE t = s
    BY <2>1 DEF DecidesTo
  <2>2. CASE t # s
    BY <2>2 DEF DecidesTo, IInv, Tables, SuggestionsFit
  <2>3. QED
    BY <2>1, <2>2
<1>5. LedgersAgree'
  <2> SUFFICES ASSUME NEW t \in Suggestions
               PROVE  LedgerAgrees(t)'
    BY DEF LedgersAgree
  <2>1. CASE t = s
    BY <2>1
  <2>2. CASE t # s
    BY <2>2 DEF DecidesTo, LedgerAgrees, IInv, Tables, LedgersAgree
  <2>3. QED
    BY <2>1, <2>2
<1>6. PromotedRowsAreApproved'
  <2> SUFFICES ASSUME NEW r \in References, mapping[r].state = "ACTIVE",
                      mapping[r].source = "AI_SUGGESTION_PROMOTED"
               PROVE  \E t \in Suggestions : PromotedBy(t, r)'
    BY DEF PromotedRowsAreApproved, case
  <2>1. PICK t \in Suggestions : PromotedBy(t, r)
    BY DEF IInv, Tables, PromotedRowsAreApproved
  <2>2. t # s
    <3>1. Len(<<"APPROVED_AND_PROMOTED">>) # Len(<<>>)
      OBVIOUS
    <3>2. QED
      BY <2>1, <3>1 DEF PromotedBy
  <2>3. PromotedBy(t, r)'
    BY <2>1, <2>2 DEF PromotedBy, DecidesTo, case
  <2>4. QED
    BY <2>3
<1>7. ApprovalsDiffer'
  BY DEF IInv, Tables, ApprovalsDiffer, DecidesTo, Claimed
<1>8. QED
  BY <1>1, <1>2, <1>3, <1>4, <1>5, <1>6, <1>7 DEF IInv, Tables

LEMMA LinkMappingHolds ==
    ASSUME IInv, Params, NEW q \in Requests, LinkMapping(q)
    PROVE  IInv'
<1>1. /\ Decides(q) /\ Decidable(q) /\ req[q].kind = "APPROVE" /\ req[q].reference # NoReference
      /\ req[q].pc = "writing"
  BY DEF LinkMapping, Writes, Decides, IsText
<1>s. PICK s \in Suggestions : s = req[q].of
  BY <1>1, OpenIsUndecided
<1>2. /\ suggestion[s].reference = req[q].reference
      /\ suggestion[s].state \in Open /\ ledger[s] = <<>>
  BY <1>s, <1>1, OpenIsUndecided
<1>3. req[q].reference \in References
  BY <1>1, UnderWay DEF Request
<1>4. /\ SeenRow(q).id \in 0..MaxRows /\ SeenRow(q).id > 0
      /\ SeenRow(q).id <= mapping[req[q].reference].id
  BY <1>1, <1>3, UnderWay DEF LinkMapping, SeenRow, Fit, Saw, Request, View, Mapping
<1>5. DecidesTo(s, "APPROVED", SeenRow(q).id)
  BY <1>s, <1>2, <1>4, DecideSets DEF LinkMapping, Decided
<1>6. /\ ledger' \in [Suggestions -> Seq(Outcomes)] /\ ledger'[s] = <<"APPROVED_MAPPING_UNCHANGED">>
      /\ \A t \in Suggestions \ {s} : ledger'[t] = ledger[t]
  BY <1>s, <1>2, RecordSets DEF LinkMapping, Outcomes
<1>7. LedgerAgrees(s)'
  BY <1>s, <1>4, <1>5, <1>6 DEF LedgerAgrees, DecidesTo
<1>8. ~Claimed(suggestion[s].reference, SeenRow(q).id)
  BY <1>s, <1>2 DEF LinkMapping
<1>9. Answer(q) /\ UNCHANGED <<evidence, linked, case>>
  BY DEF LinkMapping
<1>10. QED
  BY <1>s, <1>1, <1>2, <1>4, <1>5, <1>6, <1>7, <1>8, <1>9, DecisionStep

LEMMA AcceptTextHolds ==
    ASSUME IInv, Params, NEW q \in Requests, AcceptText(q)
    PROVE  IInv'
<1>1. Decides(q) /\ Decidable(q) /\ req[q].reference = NoReference
  BY DEF AcceptText, Writes, Decides, IsText
<1>s. PICK s \in Suggestions : s = req[q].of
  BY <1>1, OpenIsUndecided
<1>2. /\ suggestion[s].reference = NoReference /\ ledger[s] = <<>>
  BY <1>s, <1>1, OpenIsUndecided
<1>3. 0 \in 0..MaxRows /\ ~(0 > 0)
  BY Params DEF ParamsAssumption
<1>4. DecidesTo(s, "ACCEPTED", 0)
  BY <1>s, <1>2, <1>3, DecideSets DEF AcceptText, Decided
<1>5. LedgerAgrees(s)'
  BY <1>s, <1>2, <1>4 DEF LedgerAgrees, DecidesTo
<1>6. Answer(q) /\ UNCHANGED <<evidence, linked, case>> /\ ledger' = ledger
  BY DEF AcceptText
<1>7. ledger' \in [Suggestions -> Seq(Outcomes)] /\ ledger'[s] = <<>>
  BY <1>s, <1>2, <1>6 DEF IInv, TypeOK
<1>8. QED
  BY <1>s, <1>2, <1>3, <1>4, <1>5, <1>6, <1>7, DecisionStep

LEMMA RejectHolds ==
    ASSUME IInv, Params, NEW q \in Requests, Reject(q)
    PROVE  IInv'
<1>1. Decides(q) /\ Decidable(q) /\ (IsText(q) <=> req[q].reference = NoReference)
  BY DEF Reject, Writes, Decides, IsText
<1>s. PICK s \in Suggestions : s = req[q].of
  BY <1>1, OpenIsUndecided
<1>2. /\ suggestion[s].reference = req[q].reference /\ ledger[s] = <<>>
  BY <1>s, <1>1, OpenIsUndecided
<1>3. 0 \in 0..MaxRows /\ ~(0 > 0)
  BY Params DEF ParamsAssumption
<1>4. DecidesTo(s, "REJECTED", 0)
  BY <1>s, <1>2, <1>3, DecideSets DEF Reject, Decided
<1>5. /\ ledger' \in [Suggestions -> Seq(Outcomes)]
      /\ ledger'[s] = (IF req[q].reference = NoReference THEN <<>> ELSE <<"REJECTED">>)
      /\ \A t \in Suggestions \ {s} : ledger'[t] = ledger[t]
  <2>1. CASE IsText(q) /\ UNCHANGED ledger
    BY <1>s, <1>1, <1>2, <2>1 DEF IInv, TypeOK
  <2>2. CASE ~IsText(q) /\ Record(q, "REJECTED")
    BY <1>s, <1>1, <1>2, <2>2, RecordSets DEF Outcomes
  <2>3. QED
    BY <1>s, <2>1, <2>2 DEF Reject
<1>6. LedgerAgrees(s)'
  BY <1>s, <1>2, <1>4, <1>5 DEF LedgerAgrees, DecidesTo
<1>7. Answer(q) /\ UNCHANGED <<evidence, linked, case>>
  BY DEF Reject
<1>8. suggestion[s].reference # NoReference => 0 <= mapping[suggestion[s].reference].id
  BY <1>s, <1>2 DEF IInv, TypeOK, Mapping, Suggestion
<1>9. QED
  BY <1>s, <1>2, <1>3, <1>4, <1>5, <1>6, <1>7, <1>8, DecisionStep

\* The row an approval makes is later than every row an approval made or was given.
LEMMA PromoteHolds ==
    ASSUME IInv, Params, NEW q \in Requests, Promote(q)
    PROVE  IInv'
<1> DEFINE new == mapping[req[q].reference].id + 1
<1>1. Decides(q) /\ Decidable(q) /\ req[q].kind = "APPROVE" /\ req[q].reference # NoReference
  BY DEF Promote, Writes, Decides, IsText
<1>2. PICK s \in Suggestions : s = req[q].of
  BY <1>1, OpenIsUndecided
<1>3. PICK r \in References : r = req[q].reference
  BY <1>1, UnderWay DEF Request
<1>4. /\ suggestion[s].reference = r /\ suggestion[s].finding = req[q].finding
      /\ suggestion[s].state \in Open /\ ledger[s] = <<>>
  BY <1>1, <1>2, <1>3, OpenIsUndecided
<1>5. /\ assertion[FrameworkOf[r]].state # "ASSERTED" /\ req[q].finding \in Findings
      /\ AppendRow(r, "ACTIVE", "AI_SUGGESTION_PROMOTED", req[q].finding)
  BY <1>3, MayMapMeans DEF Promote, AppendMapping
<1>6. /\ mapping' \in [References -> Mapping] /\ RowsGrow
      /\ mapping'[r].id = mapping[r].id + 1 /\ mapping'[r].finding = req[q].finding
      /\ \A k \in References \ {r} : mapping'[k] = mapping[k]
  BY <1>5, AppendRowSets
<1>7. mapping[r].id \in Nat /\ new \in 0..MaxRows /\ new > 0 /\ new = mapping'[r].id
  BY <1>3, <1>6 DEF IInv, TypeOK, Mapping
<1>8. DecidesTo(s, "APPROVED", new)
  BY <1>2, <1>7, DecideSets DEF Promote, Decided
<1> HIDE DEF new
<1>9. /\ ledger' \in [Suggestions -> Seq(Outcomes)] /\ ledger'[s] = <<"APPROVED_AND_PROMOTED">>
      /\ \A t \in Suggestions \ {s} : ledger'[t] = ledger[t]
  BY <1>2, <1>4, RecordSets DEF Promote, Outcomes
<1>10. Answer(q) /\ UNCHANGED <<evidence, linked, assertion>>
  BY DEF Promote
<1>11. TypeOK'
  BY <1>6, <1>8, <1>9, <1>10, AnswerIsTyped DEF IInv, TypeOK, DecidesTo
<1>12. RequestsFit'
  BY <1>6, <1>8, <1>10, DecisionKeeps, RequestsStand
<1>13. RowsAreMade' /\ DeterminationsExclude'
  BY <1>5, <1>10, AppendRowStands
<1>14. \A t \in Suggestions \ {s} :
          /\ suggestion'[t] = suggestion[t] /\ ledger'[t] = ledger[t]
          /\ suggestion[t].promoted \in Nat
          /\ suggestion[t].reference = r => suggestion[t].promoted < new
  <2> SUFFICES ASSUME NEW t \in Suggestions \ {s}
               PROVE  /\ suggestion'[t] = suggestion[t] /\ ledger'[t] = ledger[t]
                      /\ suggestion[t].promoted \in Nat
                      /\ suggestion[t].reference = r => suggestion[t].promoted < new
    OBVIOUS
  <2>1. suggestion[t].promoted \in Nat
    BY DEF IInv, TypeOK, Suggestion
  <2>2. suggestion[t].reference = r => suggestion[t].promoted <= mapping[r].id
    BY Params DEF ParamsAssumption, IInv, Tables, SuggestionsFit
  <2>3. QED
    BY <1>6, <1>7, <1>8, <1>9, <2>1, <2>2 DEF DecidesTo
<1>15. r # NoReference
  BY Params DEF ParamsAssumption
<1>16. SuggestionsFit'
  <2> SUFFICES ASSUME NEW t \in Suggestions
               PROVE  /\ suggestion'[t].state = "NONE" => suggestion'[t].reference = NoReference
                      /\ suggestion'[t].reference = NoReference =>
                            suggestion'[t].promoted = 0 /\ ledger'[t] = <<>>
                      /\ suggestion'[t].reference # NoReference =>
                            suggestion'[t].promoted <= mapping'[suggestion'[t].reference].id
    BY DEF SuggestionsFit
  <2>1. CASE t = s
    BY <1>4, <1>6, <1>7, <1>8, <1>15, <2>1 DEF DecidesTo
  <2>2. CASE t # s
    <3>1. suggestion[t].reference # NoReference =>
             /\ suggestion[t].reference \in References
             /\ suggestion[t].promoted <= mapping[suggestion[t].reference].id
      BY DEF IInv, TypeOK, Suggestion, Tables, SuggestionsFit
    <3>2. \A k \in References : mapping[k].id \in Nat
      BY DEF IInv, TypeOK, Mapping
    <3>3. suggestion[t].reference # NoReference =>
             suggestion[t].promoted <= mapping'[suggestion[t].reference].id
      BY <1>6, <1>14, <2>2, <3>1, <3>2 DEF RowsGrow
    <3>4. QED
      BY <1>14, <2>2, <3>3 DEF IInv, Tables, SuggestionsFit
  <2>3. QED
    BY <2>1, <2>2
<1>17. LedgersAgree'
  <2> SUFFICES ASSUME NEW t \in Suggestions
               PROVE  LedgerAgrees(t)'
    BY DEF LedgersAgree
  <2>1. CASE t = s
    BY <1>7, <1>8, <1>9, <2>1 DEF DecidesTo, LedgerAgrees
  <2>2. CASE t # s
    BY <1>14, <2>2 DEF LedgerAgrees, IInv, Tables, LedgersAgree
  <2>3. QED
    BY <2>1, <2>2
<1>18. PromotedRowsAreApproved'
  <2> SUFFICES ASSUME NEW k \in References, mapping'[k].state = "ACTIVE",
                      mapping'[k].source = "AI_SUGGESTION_PROMOTED"
               PROVE  \E t \in Suggestions : PromotedBy(t, k)'
    BY DEF PromotedRowsAreApproved
  <2>1. CASE k = r
    <3>1. PromotedBy(s, k)'
      BY <1>4, <1>6, <1>7, <1>8, <1>9, <2>1 DEF PromotedBy, DecidesTo
    <3>2. QED
      BY <3>1
  <2>2. CASE k # r
    <3>1. mapping'[k] = mapping[k]
      BY <1>6, <2>2
    <3>2. PICK t \in Suggestions : PromotedBy(t, k)
      BY <3>1 DEF IInv, Tables, PromotedRowsAreApproved
    <3>3. t # s
      BY <1>4, <2>2, <3>2 DEF PromotedBy
    <3>4. PromotedBy(t, k)'
      BY <1>14, <3>1, <3>2, <3>3 DEF PromotedBy
    <3>5. QED
      BY <3>4
  <2>3. QED
    BY <2>1, <2>2
<1>19. ApprovalsDiffer'
  <2> SUFFICES ASSUME NEW t \in Suggestions, NEW u \in Suggestions,
                      suggestion'[t].promoted > 0,
                      suggestion'[t].promoted = suggestion'[u].promoted,
                      suggestion'[t].reference = suggestion'[u].reference
               PROVE  t = u
    BY DEF ApprovalsDiffer
  <2>1. CASE t # s /\ u # s
    BY <1>14, <2>1 DEF IInv, Tables, ApprovalsDiffer
  <2>2. suggestion'[s].promoted = new /\ suggestion'[s].reference = r
    BY <1>4, <1>8 DEF DecidesTo
  <2>3. CASE t = s /\ u # s
    BY <1>7, <1>14, <2>2, <2>3
  <2>4. CASE t # s /\ u = s
    BY <1>7, <1>14, <2>2, <2>4
  <2>5. QED
    BY <2>1, <2>3, <2>4
<1>20. QED
  BY <1>11, <1>12, <1>13, <1>16, <1>17, <1>18, <1>19 DEF IInv, Tables

\* A draft of a text is overwritten whatever became of it, and promotes nothing.
LEMMA ExpireHolds ==
    ASSUME IInv, Params, NEW q \in Requests, Expire(q)
    PROVE  IInv'
<1>1. PICK s \in Suggestions : s = req[q].of /\ suggestion[s].reference = NoReference
  BY UnderWay DEF Expire, Fit, DecidesOn
<1>2. suggestion[s] \in Suggestion
  BY DEF IInv, TypeOK
<1> DEFINE c == Closed(suggestion[s])
           row == [c EXCEPT !.state = "EXPIRED"]
<1>3. /\ c \in Suggestion /\ c.reference = suggestion[s].reference
      /\ c.finding = suggestion[s].finding /\ c.promoted = suggestion[s].promoted
  BY <1>2, ClosedIsTyped
<1>4. suggestion' = [suggestion EXCEPT ![s] = row]
  BY <1>1 DEF Expire
<1> HIDE DEF c
<1>5. /\ row \in Suggestion /\ row.state = "EXPIRED" /\ row.reference = NoReference
      /\ row.finding = suggestion[s].finding /\ row.promoted = suggestion[s].promoted
  BY <1>1, <1>3 DEF Suggestion
<1> HIDE DEF row
<1>6. /\ suggestion' \in [Suggestions -> Suggestion] /\ suggestion'[s] = row
      /\ \A t \in Suggestions \ {s} : suggestion'[t] = suggestion[t]
  BY <1>4, <1>5 DEF IInv, TypeOK
<1>7. /\ Answer(q)
      /\ evidence' = evidence /\ linked' = linked /\ mapping' = mapping
      /\ assertion' = assertion /\ ledger' = ledger
  BY DEF Expire, case
<1>8. TypeOK'
  BY <1>6, <1>7, AnswerIsTyped DEF IInv, TypeOK
<1>9. RequestsFit'
  <2>1. SuggestionsKeep
    BY <1>1, <1>5, <1>6 DEF SuggestionsKeep
  <2>2. QED
    BY <1>7, <2>1, MappingsKept, RequestsStand
<1>10. ASSUME NEW t \in Suggestions
       PROVE  /\ suggestion'[t].reference = suggestion[t].reference
              /\ suggestion'[t].promoted = suggestion[t].promoted
              /\ suggestion'[t].finding = suggestion[t].finding
              /\ suggestion[t].reference # NoReference => suggestion'[t] = suggestion[t]
  BY <1>1, <1>5, <1>6
<1>11. SuggestionsFit' /\ ApprovalsDiffer'
  BY <1>1, <1>5, <1>6, <1>7, <1>10 DEF IInv, Tables, SuggestionsFit, ApprovalsDiffer
<1>12. LedgersAgree'
  <2> SUFFICES ASSUME NEW t \in Suggestions
               PROVE  LedgerAgrees(t)'
    BY DEF LedgersAgree
  <2>1. CASE suggestion[t].reference = NoReference
    <3>1. suggestion'[t].reference = NoReference
      BY <1>10, <2>1
    <3>2. QED
      BY <3>1 DEF LedgerAgrees
  <2>2. CASE suggestion[t].reference # NoReference
    <3>1. suggestion'[t] = suggestion[t] /\ ledger' = ledger
      BY <1>7, <1>10, <2>2
    <3>2. LedgerAgrees(t)
      BY DEF IInv, Tables, LedgersAgree
    <3>3. QED
      BY <3>1, <3>2 DEF LedgerAgrees
  <2>3. QED
    BY <2>1, <2>2
<1>13. PromotedRowsAreApproved'
  <2> SUFFICES ASSUME NEW r \in References, mapping[r].state = "ACTIVE",
                      mapping[r].source = "AI_SUGGESTION_PROMOTED"
               PROVE  \E t \in Suggestions : PromotedBy(t, r)'
    BY <1>7 DEF PromotedRowsAreApproved
  <2>1. PICK t \in Suggestions : PromotedBy(t, r)
    BY DEF IInv, Tables, PromotedRowsAreApproved
  <2>2. PromotedBy(t, r)'
    BY <1>7, <1>10, <2>1 DEF PromotedBy
  <2>3. QED
    BY <2>2
<1>14. RowsAreMade' /\ DeterminationsExclude'
  BY <1>7 DEF IInv, Tables, RowsAreMade, DeterminationsExclude
<1>15. QED
  BY <1>8, <1>9, <1>11, <1>12, <1>13, <1>14 DEF IInv, Tables

\* What is new is open, undecided, and of ids that had no row.
MakesRows(new) ==
    /\ suggestion' \in [Suggestions -> Suggestion]
    /\ \A s \in Suggestions \ new : suggestion'[s] = suggestion[s]
    /\ \A s \in new : /\ suggestion[s].state = "NONE"
                      /\ suggestion'[s].promoted = 0
                      /\ \/ suggestion'[s].state = "PENDING"
                         \/ suggestion'[s].state = "DRAFT" /\ suggestion'[s].reference = NoReference

LEMMA NewRowsHold ==
    ASSUME IInv, Params, NEW q \in Requests, NEW new \in SUBSET Suggestions, MakesRows(new),
           Answer(q), UNCHANGED <<evidence, linked, case, ledger>>
    PROVE  IInv'
<1>1. TypeOK'
  BY AnswerIsTyped DEF IInv, TypeOK, case, MakesRows
<1>2. RequestsFit'
  <2>1. SuggestionsKeep
    BY DEF SuggestionsKeep, MakesRows
  <2>2. QED
    BY <2>1, MappingsKept, RequestsStand DEF case
<1>3. \A s \in new : ledger[s] = <<>> /\ ledger'[s] = <<>>
  BY DEF MakesRows, IInv, Tables, SuggestionsFit
<1>4. SuggestionsFit'
  <2> SUFFICES ASSUME NEW s \in Suggestions
               PROVE  /\ suggestion'[s].state = "NONE" => suggestion'[s].reference = NoReference
                      /\ suggestion'[s].reference = NoReference =>
                            suggestion'[s].promoted = 0 /\ ledger'[s] = <<>>
                      /\ suggestion'[s].reference # NoReference =>
                            suggestion'[s].promoted <= mapping'[suggestion'[s].reference].id
    BY DEF SuggestionsFit
  <2>1. CASE s \in new
    <3>1. suggestion'[s].reference # NoReference => mapping[suggestion'[s].reference].id \in Nat
      BY <1>1 DEF IInv, TypeOK, Mapping, Suggestion
    <3>2. suggestion'[s].promoted = 0 /\ suggestion'[s].state # "NONE" /\ mapping' = mapping
      BY <2>1 DEF MakesRows, case
    <3>3. QED
      BY <1>3, <2>1, <3>1, <3>2
  <2>2. CASE s \notin new
    <3>1. suggestion'[s] = suggestion[s] /\ ledger' = ledger /\ mapping' = mapping
      BY <2>2 DEF MakesRows, case
    <3>2. QED
      BY <3>1 DEF IInv, Tables, SuggestionsFit
  <2>3. QED
    BY <2>1, <2>2
<1>5. LedgersAgree'
  BY <1>3 DEF MakesRows, IInv, Tables, LedgersAgree, LedgerAgrees
<1>6. PromotedRowsAreApproved'
  <2> SUFFICES ASSUME NEW r \in References, mapping[r].state = "ACTIVE",
                      mapping[r].source = "AI_SUGGESTION_PROMOTED"
               PROVE  \E t \in Suggestions : PromotedBy(t, r)'
    BY DEF PromotedRowsAreApproved, case
  <2>1. PICK t \in Suggestions : PromotedBy(t, r)
    BY DEF IInv, Tables, PromotedRowsAreApproved
  <2>2. Len(<<"APPROVED_AND_PROMOTED">>) # Len(<<>>)
    OBVIOUS
  <2>3. t \notin new
    BY <1>3, <2>1, <2>2 DEF PromotedBy
  <2>4. PromotedBy(t, r)'
    BY <2>1, <2>3 DEF PromotedBy, MakesRows, case
  <2>5. QED
    BY <2>4
<1>7. ApprovalsDiffer'
  BY DEF IInv, Tables, ApprovalsDiffer, MakesRows
<1>8. RowsAreMade' /\ DeterminationsExclude'
  BY DEF IInv, Tables, RowsAreMade, DeterminationsExclude, case
<1>9. QED
  BY <1>1, <1>2, <1>4, <1>5, <1>6, <1>7, <1>8 DEF IInv, Tables

LEMMA PersistRunHolds ==
    ASSUME IInv, Params, NEW q \in Requests, PersistRun(q)
    PROVE  IInv'
<1>1. PICK new \in SUBSET {s \in Suggestions : suggestion[s].state = "NONE"} :
        \E r \in [new -> References],
           f \in [new -> {g \in Findings : req[q].fingerprint.about[g] # Unlinked}] :
              suggestion' = [s \in Suggestions |->
                  IF s \in new
                  THEN [NoSuggestion EXCEPT !.state = "PENDING", !.reference = r[s],
                                            !.finding = f[s], !.fingerprint = req[q].fingerprint]
                  ELSE suggestion[s]]
  BY DEF PersistRun
<1>2. PICK r \in [new -> References],
           f \in [new -> {g \in Findings : req[q].fingerprint.about[g] # Unlinked}] :
              suggestion' = [s \in Suggestions |->
                  IF s \in new
                  THEN [NoSuggestion EXCEPT !.state = "PENDING", !.reference = r[s],
                                            !.finding = f[s], !.fingerprint = req[q].fingerprint]
                  ELSE suggestion[s]]
  BY <1>1
<1> DEFINE row(s) == [NoSuggestion EXCEPT !.state = "PENDING", !.reference = r[s],
                                          !.finding = f[s], !.fingerprint = req[q].fingerprint]
<1>3. req[q].fingerprint \in Fingerprint
  BY UnderWay DEF Request
<1>4. ASSUME NEW s \in new
      PROVE  row(s) \in Suggestion /\ row(s).state = "PENDING" /\ row(s).promoted = 0
  BY <1>3, Fresh DEF Suggestion, Open, NoSuggestion
<1>5. \A s \in Suggestions : suggestion'[s] = IF s \in new THEN row(s) ELSE suggestion[s]
  BY <1>2
<1>6. suggestion' \in [Suggestions -> Suggestion]
  <2>1. suggestion' = [s \in Suggestions |-> suggestion'[s]]
    BY <1>2
  <2> HIDE DEF row
  <2>2. \A s \in Suggestions : suggestion'[s] \in Suggestion
    BY <1>4, <1>5 DEF IInv, TypeOK
  <2>3. QED
    BY <2>1, <2>2
<1> HIDE DEF row
<1>7. MakesRows(new)
  BY <1>1, <1>4, <1>5, <1>6 DEF MakesRows
<1>8. new \in SUBSET Suggestions /\ Answer(q) /\ UNCHANGED <<evidence, linked, case, ledger>>
  BY <1>1 DEF PersistRun
<1>9. QED
  BY <1>7, <1>8, NewRowsHold

LEMMA PersistSuggestionHolds ==
    ASSUME IInv, Params, NEW q \in Requests, PersistSuggestion(q)
    PROVE  IInv'
<1> DEFINE row == [NoSuggestion EXCEPT !.state = "DRAFT", !.finding = req[q].finding,
                                       !.fingerprint = req[q].fingerprint]
<1>1. PICK s \in Suggestions :
        suggestion[s].state = "NONE" /\ suggestion' = [suggestion EXCEPT ![s] = row]
  BY DEF PersistSuggestion
<1>2. req[q].fingerprint \in Fingerprint /\ req[q].finding \in Findings
  BY UnderWay DEF Request
<1>3. row \in Suggestion /\ row.state = "DRAFT" /\ row.promoted = 0 /\ row.reference = NoReference
  BY <1>2, Fresh DEF Suggestion, Open, NoSuggestion
<1> HIDE DEF row
<1>4. MakesRows({s})
  BY <1>1, <1>3 DEF MakesRows, IInv, TypeOK
<1>5. Answer(q) /\ UNCHANGED <<evidence, linked, case, ledger>>
  BY DEF PersistSuggestion
<1>6. QED
  BY <1>4, <1>5, NewRowsHold

-----------------------------------------------------------------------------
(* The case changes by itself.                                             *)

LEMMA CaseStepHolds ==
    ASSUME IInv, Params, NEW f \in Findings, CaseStep(f)
    PROVE  IInv'
<1>1. evidence' \in [Findings -> 0..MaxEvidence]
  BY DEF CaseStep, ChangeEvidence, LinkFinding, UnlinkFinding, IInv, TypeOK
<1>2. linked' \subseteq Findings /\ UNCHANGED <<case, rows, req>>
  BY DEF CaseStep, ChangeEvidence, LinkFinding, UnlinkFinding, IInv, TypeOK
<1>3. TypeOK'
  BY <1>1, <1>2 DEF IInv, TypeOK, case, rows
<1>4. RequestsFit'
  BY <1>2 DEF IInv, RequestsFit, Fit, Names, Saw, DecidesOn, case, rows
<1>5. Tables'
  BY <1>2, TablesStand DEF IInv
<1>6. QED
  BY <1>3, <1>4, <1>5 DEF IInv

LEMMA StutterHolds ==
    ASSUME IInv, UNCHANGED vars
    PROVE  IInv'
<1>1. TypeOK'
  BY DEF IInv, TypeOK, vars
<1>2. RequestsFit'
  BY DEF IInv, RequestsFit, Fit, Names, Saw, DecidesOn, vars
<1>3. Tables'
  BY TablesStand DEF IInv, vars, case, rows
<1>4. QED
  BY <1>1, <1>2, <1>3 DEF IInv

LEMMA RequestStepHolds ==
    ASSUME IInv, Params, NEW q \in Requests, RequestStep(q)
    PROVE  IInv'
<1>1. CASE BeginMapping(q) \/ BeginAssertion(q) \/ BeginRemoval(q) \/ BeginWithdrawal(q)
           \/ BeginSuggestion(q) \/ BeginDecision(q)
  BY <1>1, BeginMappingHolds, BeginAssertionHolds, BeginRemovalHolds, BeginWithdrawalHolds,
     BeginSuggestionHolds, BeginDecisionHolds
<1>2. CASE ListEvidence(q) \/ Generate(q) \/ PersistRun(q) \/ PersistSuggestion(q)
           \/ CompareEvidence(q) \/ ReadExpiring(q) \/ Expire(q)
  BY <1>2, ListEvidenceHolds, GenerateHolds, PersistRunHolds, PersistSuggestionHolds,
     CompareEvidenceHolds, ReadExpiringHolds, ExpireHolds
<1>3. CASE Read(q) \/ CreateMapping(q) \/ RemoveMapping(q)
           \/ AssertNoApplicable(q) \/ WithdrawNoApplicable(q)
  BY <1>3, ReadHolds, CreateMappingHolds, RemoveMappingHolds, AssertNoApplicableHolds,
     WithdrawNoApplicableHolds
<1>4. CASE Promote(q) \/ LinkMapping(q) \/ AcceptText(q) \/ Reject(q)
           \/ Refuse(q) \/ Conflict(q)
  BY <1>4, PromoteHolds, LinkMappingHolds, AcceptTextHolds, RejectHolds, RefuseHolds, ConflictHolds
<1>5. QED
  BY <1>1, <1>2, <1>3, <1>4 DEF RequestStep

-----------------------------------------------------------------------------
(* Theorems.                                                               *)

LEMMA Invariance == Spec => []IInv
<1>1. Init => IInv
  BY Params, InitHolds
<1>2. IInv /\ [Next]_vars => IInv'
  BY Params, RequestStepHolds, CaseStepHolds, StutterHolds DEF Next
<1>3. QED
  BY <1>1, <1>2, PTL DEF Spec

\* Every table holds rows of its shape, whichever requests run at once.
THEOREM TypeCorrect == Spec => []TypeOK
<1>1. IInv => TypeOK
  BY DEF IInv
<1>2. QED
  BY <1>1, Invariance, PTL

\* An active mapping and a standing determination of its framework exclude each other, because
\* either transaction is refused once the other's row is no longer what it read.
THEOREM MappingsExcludeDeterminations == Spec => []DeterminationsExclude
<1>1. IInv => DeterminationsExclude
  BY DEF IInv, Tables
<1>2. QED
  BY <1>1, Invariance, PTL

\* Each decided suggestion has its one decision, each promoted row its one approval.
THEOREM EveryPromotionIsDecided == Spec => []PromotionsAreDecisions
<1>1. IInv => PromotionsAreDecisions
  <2> SUFFICES ASSUME IInv
               PROVE  PromotionsAreDecisions
    OBVIOUS
  <2>1. ASSUME NEW s \in Suggestions, suggestion[s].reference # NoReference
        PROVE  /\ {ledger[s][i] : i \in DOMAIN ledger[s]} \subseteq DecisionOf(s)
               /\ Len(ledger[s]) = (IF suggestion[s].state = "PENDING" THEN 0 ELSE 1)
               /\ (suggestion[s].promoted > 0 <=> suggestion[s].state = "APPROVED")
    <3>1. LedgerAgrees(s)
      BY DEF IInv, Tables, LedgersAgree
    <3>2. CASE suggestion[s].state = "PENDING"
      BY <2>1, <3>1, <3>2 DEF LedgerAgrees, DecisionOf
    <3>3. CASE suggestion[s].state = "APPROVED"
      BY <2>1, <3>1, <3>3 DEF LedgerAgrees, DecisionOf
    <3>4. CASE suggestion[s].state = "REJECTED"
      BY <2>1, <3>1, <3>4 DEF LedgerAgrees, DecisionOf
    <3>5. QED
      BY <2>1, <3>1, <3>2, <3>3, <3>4 DEF LedgerAgrees
  <2>2. QED
    BY <2>1 DEF PromotionsAreDecisions, IInv, Tables, PromotedRowsAreApproved, PromotedBy,
       ApprovalsDiffer
<1>2. QED
  BY <1>1, Invariance, PTL

\* A decision stands: the only thing that can still overwrite it is the expiry of a text.
LEMMA DecidingStepsAreFirst ==
    ASSUME IInv, Params, NEW q \in Requests, NEW s \in Suggestions, RequestStep(q),
           suggestion[s].state \in Decided \cup {"EXPIRED"}
    PROVE  suggestion'[s].state \in {suggestion[s].state, "EXPIRED"}
<1>1. suggestion[s].state \notin Open /\ suggestion[s].state # "NONE"
  BY DEF Decided, Open
<1>2. CASE suggestion' = suggestion
  BY <1>2
<1>3. CASE Promote(q) \/ LinkMapping(q) \/ AcceptText(q) \/ Reject(q)
  <2>1. suggestion[req[q].of].state \in Open
    BY <1>3 DEF Promote, LinkMapping, AcceptText, Reject, Decidable, SameSuggestion
  <2>2. s # req[q].of
    BY <1>1, <2>1
  <2>3. suggestion'[s] = suggestion[s]
    BY <1>3, <2>2 DEF Promote, LinkMapping, AcceptText, Reject, DecideAs, IInv, TypeOK
  <2>4. QED
    BY <2>3
<1>4. CASE Expire(q)
  <2>1. CASE s = req[q].of
    <3>1. Closed(suggestion[s]) \in Suggestion
      BY ClosedIsTyped, Params DEF IInv, TypeOK
    <3>2. suggestion'[s] = [Closed(suggestion[s]) EXCEPT !.state = "EXPIRED"]
      BY <1>4, <2>1 DEF Expire, IInv, TypeOK
    <3>3. QED
      BY <3>1, <3>2 DEF Suggestion
  <2>2. CASE s # req[q].of
    BY <1>4, <2>2 DEF Expire, IInv, TypeOK
  <2>3. QED
    BY <2>1, <2>2
<1>5. CASE PersistRun(q)
  BY <1>1, <1>5 DEF PersistRun
<1>6. CASE PersistSuggestion(q)
  BY <1>1, <1>6 DEF PersistSuggestion, IInv, TypeOK
<1>7. QED
  BY <1>2, <1>3, <1>4, <1>5, <1>6 DEF RequestStep, BeginMapping, BeginAssertion, BeginRemoval,
     BeginWithdrawal, BeginSuggestion, BeginDecision, ListEvidence, Generate, CompareEvidence,
     ReadExpiring, Read, CreateMapping, RemoveMapping, AssertNoApplicable, WithdrawNoApplicable,
     Refuse, Conflict, rows

THEOREM DecisionsStand == Spec => DecidedOnce
<1> DEFINE Stands ==
        \A s \in Suggestions :
           suggestion[s].state \in Decided \cup {"EXPIRED"} =>
              suggestion'[s].state \in {suggestion[s].state, "EXPIRED"}
<1>1. IInv /\ [Next]_vars => [Stands]_vars
  <2> SUFFICES ASSUME IInv, [Next]_vars, vars' # vars
               PROVE  Stands
    OBVIOUS
  <2>1. CASE \E q \in Requests : RequestStep(q)
    BY <2>1, Params, DecidingStepsAreFirst
  <2>2. CASE \E f \in Findings : CaseStep(f)
    BY <2>2 DEF CaseStep, ChangeEvidence, LinkFinding, UnlinkFinding, rows
  <2>3. QED
    BY <2>1, <2>2 DEF Next
<1>2. Spec => [][Stands]_vars
  BY <1>1, Invariance, PTL DEF Spec
<1>3. QED
  BY <1>2 DEF DecidedOnce
=============================================================================
