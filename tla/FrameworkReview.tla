--------------------------- MODULE FrameworkReview ---------------------------
(***************************************************************************)
(* What analysts record about one case with the help of an AI provider:    *)
(* the framework mappings of the case, the determinations that nothing in  *)
(* a framework applies, the provider's suggestions of mappings, and its    *)
(* drafts of text about the findings.                                      *)
(*                                                                         *)
(* A suggestion carries the fingerprint of the evidence it was made from,  *)
(* and is approved only where the fingerprint is still that of the case.   *)
(* The fingerprint is taken outside the transaction, by several queries.   *)
(* The transaction is serializable: one step reads and a later step        *)
(* writes, and the write is refused where both orders of two transactions  *)
(* are lost, that is where a row it overwrites, or one it read from a      *)
(* table whose writers read what it writes, is no longer what it read.     *)
(* The one exception is the expiry of a draft, which runs at the default   *)
(* isolation of the database.                                              *)
(*                                                                         *)
(* Every mapping names the finding that is its evidence, its content is    *)
(* taken to be valid and its quote to be found.                            *)
(***************************************************************************)
EXTENDS Integers, Sequences, FiniteSets

CONSTANTS
    Findings,     \* findings that the case may hold
    References,   \* controls and techniques of the frameworks
    Frameworks,   \* framework families
    FrameworkOf,  \* the framework of each reference
    Suggestions,  \* ids of suggestions: bounds the rows that are ever made
    Requests,     \* requests of analysts, each of which serves one after the other
    MaxEvidence,  \* versions of the evidence about one finding
    MaxRows       \* rows of one reference, or of one framework's determination

VARIABLES
    evidence,     \* the version of what is known of each finding: triage, score, CVEs
    linked,       \* the findings currently linked to the case
    mapping,      \* the current CaseFrameworkMapping row of each reference
    assertion,    \* the current CaseFrameworkNoMappingAssertion row of each framework
    suggestion,   \* the AiFrameworkMappingSuggestion and FindingAiSuggestion rows
    ledger,       \* the AiSuggestionDecision rows of each suggestion that decided it
    req           \* each request's program counter and local variables

vars == <<evidence, linked, mapping, assertion, suggestion, ledger, req>>
case == <<mapping, assertion>>
rows == <<suggestion, ledger>>

NoReference == "none"
NoOne == "none"
Unlinked == -1

\* The id counts the rows the reference, or the framework, has had; 0 is no row.
Mapping == [id: 0..MaxRows, state: {"NONE", "ACTIVE", "REMOVED"},
            source: {"MANUAL", "AI_SUGGESTION_PROMOTED"}, finding: Findings]
NoMapping == [id |-> 0, state |-> "NONE", source |-> "MANUAL", finding |-> CHOOSE f \in Findings : TRUE]

Assertion == [id: 0..MaxRows, state: {"NONE", "ASSERTED", "WITHDRAWN"}]
NoAssertion == [id |-> 0, state |-> "NONE"]

\* What a fingerprint is the hash of: the evidence about the findings, and the active mappings.
Fingerprint == [about: [Findings -> Unlinked..MaxEvidence], mapped: SUBSET References]
NoFingerprint == [about |-> [f \in Findings |-> Unlinked], mapped |-> {}]

Open == {"PENDING", "DRAFT"}
Decided == {"APPROVED", "ACCEPTED", "REJECTED"}

\* A suggestion of a mapping names its reference, a draft of a text names none.
Suggestion ==
    [state: {"NONE", "EXPIRED"} \cup Open \cup Decided, reference: References \cup {NoReference},
     finding: Findings, fingerprint: Fingerprint, promoted: 0..MaxRows]
NoSuggestion ==
    [state |-> "NONE", reference |-> NoReference, finding |-> CHOOSE f \in Findings : TRUE,
     fingerprint |-> NoFingerprint, promoted |-> 0]

Outcomes == {"APPROVED_AND_PROMOTED", "APPROVED_MAPPING_UNCHANGED", "REJECTED"}

Kinds == {"MAP", "REMOVE", "ASSERT", "WITHDRAW", "SUGGEST", "DRAFT", "APPROVE", "REJECT"}
RequestPCs == {"idle", "listing", "comparing", "calling", "reading", "writing",
               "expiring", "overwriting"}
NoView == [mapping |-> [r \in References |-> NoMapping],
           assertion |-> [w \in Frameworks |-> NoAssertion],
           suggestion |-> NoSuggestion, linked |-> {}]
NewRequest ==
    [pc |-> "idle", kind |-> "MAP", reference |-> NoReference,
     framework |-> CHOOSE w \in Frameworks : TRUE, finding |-> CHOOSE f \in Findings : TRUE,
     row |-> 0, of |-> NoOne, fingerprint |-> NoFingerprint,
     loaded |-> NoFingerprint, view |-> NoView]

ParamsAssumption ==
    /\ Findings # {} /\ Frameworks # {} /\ Suggestions # {}
    /\ NoReference \notin References
    /\ NoOne \notin Suggestions
    /\ FrameworkOf \in [References -> Frameworks]
    /\ MaxEvidence \in Nat
    /\ MaxRows \in Nat

ASSUME Params == ParamsAssumption

-----------------------------------------------------------------------------
(* Fingerprints. *)

EvidenceOf(findings) == [f \in Findings |-> IF f \in findings THEN evidence[f] ELSE Unlinked]

\* listActiveMappings.
ActiveReferences == {r \in References : mapping[r].state = "ACTIVE"}

\* The fingerprint the case has now, as no single query of the code reads it.
CaseFingerprint == [about |-> EvidenceOf(linked), mapped |-> ActiveReferences]

-----------------------------------------------------------------------------
(* Requests. *)

Set(q, fields) == req' = [req EXCEPT ![q] = fields]

\* An answered request leaves nothing behind.
Answer(q) == Set(q, NewRequest)

IsText(q) == \/ req[q].kind = "DRAFT"
             \/ req[q].kind \in {"APPROVE", "REJECT"} /\ req[q].reference = NoReference

\* createManualMapping and assertNoApplicableMapping open their transaction at once, with
\* nothing read before: to try it again is to be asked again.
BeginMapping(q) ==
    /\ req[q].pc = "idle"
    /\ \E r \in References, f \in Findings :
          Set(q, [NewRequest EXCEPT !.pc = "writing", !.kind = "MAP", !.reference = r,
                                    !.framework = FrameworkOf[r], !.finding = f,
                                    !.view = [NoView EXCEPT !.mapping = mapping, !.linked = linked,
                                                            !.assertion = assertion]])
    /\ UNCHANGED <<evidence, linked, case, rows>>

BeginAssertion(q) ==
    /\ req[q].pc = "idle"
    /\ \E w \in Frameworks :
          Set(q, [NewRequest EXCEPT !.pc = "writing", !.kind = "ASSERT", !.framework = w,
                                    !.view = [NoView EXCEPT !.mapping = mapping,
                                                            !.assertion = assertion]])
    /\ UNCHANGED <<evidence, linked, case, rows>>

\* removeMapping and withdrawNoApplicableMapping are asked for a row the analyst has seen to
\* stand, and which may have been replaced since then.
BeginRemoval(q) ==
    /\ req[q].pc = "idle"
    /\ \E r \in References :
          /\ mapping[r].state = "ACTIVE"
          /\ Set(q, [NewRequest EXCEPT !.pc = "reading", !.kind = "REMOVE", !.reference = r,
                                       !.framework = FrameworkOf[r], !.row = mapping[r].id])
    /\ UNCHANGED <<evidence, linked, case, rows>>

BeginWithdrawal(q) ==
    /\ req[q].pc = "idle"
    /\ \E w \in Frameworks :
          /\ assertion[w].state = "ASSERTED"
          /\ Set(q, [NewRequest EXCEPT !.pc = "reading", !.kind = "WITHDRAW", !.framework = w,
                                       !.row = assertion[w].id])
    /\ UNCHANGED <<evidence, linked, case, rows>>

\* requestMappingSuggestions and requestFindingAiSuggestion take a fingerprint first.
BeginSuggestion(q) ==
    /\ req[q].pc = "idle"
    /\ \/ Set(q, [NewRequest EXCEPT !.pc = "listing", !.kind = "SUGGEST"])
       \/ \E f \in Findings :
             Set(q, [NewRequest EXCEPT !.pc = "listing", !.kind = "DRAFT", !.finding = f])
    /\ UNCHANGED <<evidence, linked, case, rows>>

\* A decision loads the suggestion.  One that is decided by then is answered without a
\* change, one that is open is compared with the evidence, or rejected without that.
BeginDecision(q) ==
    /\ req[q].pc = "idle"
    /\ \E s \in Suggestions, kind \in {"APPROVE", "REJECT"} :
          /\ suggestion[s].state \in Open
          /\ Set(q, [NewRequest EXCEPT !.pc = IF kind = "APPROVE" THEN "listing" ELSE "reading",
                                       !.kind = kind, !.of = s,
                                       !.reference = suggestion[s].reference,
                                       !.framework = IF suggestion[s].reference = NoReference
                                                     THEN NewRequest.framework
                                                     ELSE FrameworkOf[suggestion[s].reference],
                                       !.finding = suggestion[s].finding,
                                       !.loaded = IF kind = "APPROVE" THEN suggestion[s].fingerprint
                                                  ELSE NoFingerprint])
    /\ UNCHANGED <<evidence, linked, case, rows>>

-----------------------------------------------------------------------------
(* Taking a fingerprint, and asking the provider. *)

\* The findings of the case ...
ListEvidence(q) ==
    /\ req[q].pc = "listing"
    /\ ~IsText(q)
    /\ Set(q, [req[q] EXCEPT !.pc = "comparing", !.fingerprint.about = EvidenceOf(linked)])
    /\ UNCHANGED <<evidence, linked, case, rows>>

\* ... and, by a later query, its active mappings.  A text is about one finding alone.
Taken(q) ==
    IF IsText(q) THEN [about |-> EvidenceOf({req[q].finding}), mapped |-> {}]
    ELSE [about |-> req[q].fingerprint.about, mapped |-> ActiveReferences]

Compares(q) == req[q].pc = (IF IsText(q) THEN "listing" ELSE "comparing")

Generate(q) ==
    /\ Compares(q)
    /\ req[q].kind \in {"SUGGEST", "DRAFT"}
    /\ Set(q, [req[q] EXCEPT !.pc = "calling", !.fingerprint = Taken(q)])
    /\ UNCHANGED <<evidence, linked, case, rows>>

\* The provider fails, is disabled or proposes nothing that can be used, and a run without
\* suggestions is recorded, or it proposes references for the findings it was shown.
PersistRun(q) ==
    /\ req[q].pc = "calling"
    /\ req[q].kind = "SUGGEST"
    /\ \E new \in SUBSET {s \in Suggestions : suggestion[s].state = "NONE"} :
          \E r \in [new -> References],
             f \in [new -> {g \in Findings : req[q].fingerprint.about[g] # Unlinked}] :
                suggestion' = [s \in Suggestions |->
                    IF s \in new
                    THEN [NoSuggestion EXCEPT !.state = "PENDING", !.reference = r[s],
                                              !.finding = f[s], !.fingerprint = req[q].fingerprint]
                    ELSE suggestion[s]]
    /\ Answer(q)
    /\ UNCHANGED <<evidence, linked, case, ledger>>

\* A draft is recorded whatever the provider did.
PersistSuggestion(q) ==
    /\ req[q].pc = "calling"
    /\ req[q].kind = "DRAFT"
    /\ \E s \in Suggestions :
          /\ suggestion[s].state = "NONE"
          /\ suggestion' = [suggestion EXCEPT ![s] =
                [NoSuggestion EXCEPT !.state = "DRAFT", !.finding = req[q].finding,
                                     !.fingerprint = req[q].fingerprint]]
    /\ Answer(q)
    /\ UNCHANGED <<evidence, linked, case, ledger>>

\* The staleness guard: an approval goes on only where the fingerprints are equal.
CompareEvidence(q) ==
    LET stale == Taken(q) # req[q].loaded
        Goes(pc) == Set(q, [req[q] EXCEPT !.pc = pc, !.fingerprint = NoFingerprint,
                                          !.loaded = NoFingerprint])
    IN  /\ Compares(q)
        /\ req[q].kind = "APPROVE"
        /\ \/ ~stale /\ Goes("reading")
           \/ stale /\ ~IsText(q) /\ Answer(q)
           \/ stale /\ IsText(q) /\ Goes("expiring")
        /\ UNCHANGED <<evidence, linked, case, rows>>

\* The fingerprint of a suggestion is of no use any more once it is not open.
Closed(row) == [row EXCEPT !.fingerprint = NoFingerprint]

\* The transaction that expires a draft reads it ...
ReadExpiring(q) ==
    /\ req[q].pc = "expiring"
    /\ \/ suggestion[req[q].of].state = "DRAFT" /\ Set(q, [req[q] EXCEPT !.pc = "overwriting"])
       \/ suggestion[req[q].of].state # "DRAFT" /\ Answer(q)
    /\ UNCHANGED <<evidence, linked, case, rows>>

\* ... and writes it by its id alone, whatever it is by then.
Expire(q) ==
    /\ req[q].pc = "overwriting"
    /\ suggestion' = [suggestion EXCEPT ![req[q].of] = [Closed(@) EXCEPT !.state = "EXPIRED"]]
    /\ Answer(q)
    /\ UNCHANGED <<evidence, linked, case, ledger>>

-----------------------------------------------------------------------------
(* The serializable transactions: one snapshot ... *)

Decides(q) == req[q].kind \in {"APPROVE", "REJECT"}
Maps(q) == req[q].kind = "MAP" \/ (req[q].kind = "APPROVE" /\ ~IsText(q))

\* Each of the other transactions reads what it needs.
Snapshot(q) ==
    [mapping |-> IF Maps(q) \/ req[q].kind = "REMOVE" THEN mapping ELSE NoView.mapping,
     assertion |-> IF Maps(q) \/ req[q].kind = "WITHDRAW" THEN assertion ELSE NoView.assertion,
     suggestion |-> IF Decides(q) THEN suggestion[req[q].of] ELSE NoSuggestion,
     linked |-> IF Maps(q) THEN linked ELSE {}]

Read(q) ==
    /\ req[q].pc = "reading"
    /\ Set(q, [req[q] EXCEPT !.pc = "writing", !.view = Snapshot(q)])
    /\ UNCHANGED <<evidence, linked, case, rows>>

Writes(q, kind) == req[q].pc = "writing" /\ req[q].kind = kind

SeenRow(q) == req[q].view.mapping[req[q].reference]
SeenAssertion(q) == req[q].view.assertion[req[q].framework]

\* assertEvidenceObligations and assertNoStandingNoMappingAssertion.
MayMap(q) ==
    /\ req[q].finding \in req[q].view.linked
    /\ SeenAssertion(q).state # "ASSERTED"

\* assertNoActiveMappings.
MayAssert(q) ==
    \A r \in References :
       FrameworkOf[r] = req[q].framework => req[q].view.mapping[r].state # "ACTIVE"

SameRow(q) == mapping[req[q].reference] = SeenRow(q)
SameAssertion(q) == assertion[req[q].framework] = SeenAssertion(q)
SameSuggestion(q) == suggestion[req[q].of] = req[q].view.suggestion

\* Slip: a transaction is refused for the rows it overwrites, and for no other.
CommitsMappingAlone(q) == SameRow(q)

\* A determination reads the mappings of its framework, and a mapping the determination.
CommitsMapping(q) == SameRow(q) /\ SameAssertion(q)
CommitsAssertion(q) ==
    /\ SameAssertion(q)
    /\ \A r \in References :
          FrameworkOf[r] = req[q].framework => mapping[r] = req[q].view.mapping[r]

\* ... and one write.

\* appendMappingRow: the row is superseded and another one made current.
AppendRow(r, state, source, f) ==
    /\ mapping[r].id < MaxRows
    /\ mapping' = [mapping EXCEPT ![r] =
          [id |-> @.id + 1, state |-> state, source |-> source, finding |-> f]]

AppendMapping(q, source) ==
    /\ MayMap(q)
    /\ SeenRow(q).state # "ACTIVE"
    /\ CommitsMapping(q)
    /\ AppendRow(req[q].reference, "ACTIVE", source, req[q].finding)

CreateMapping(q) ==
    /\ Writes(q, "MAP")
    /\ AppendMapping(q, "MANUAL")
    /\ Answer(q)
    /\ UNCHANGED <<evidence, linked, assertion, rows>>

\* The row that is removed must be the current one.
RemoveMapping(q) ==
    /\ Writes(q, "REMOVE")
    /\ SeenRow(q).id = req[q].row
    /\ SeenRow(q).state = "ACTIVE"
    /\ SameRow(q)
    /\ AppendRow(req[q].reference, "REMOVED", SeenRow(q).source, SeenRow(q).finding)
    /\ Answer(q)
    /\ UNCHANGED <<evidence, linked, assertion, rows>>

AppendAssertion(w, state) ==
    /\ assertion[w].id < MaxRows
    /\ assertion' = [assertion EXCEPT ![w] = [id |-> @.id + 1, state |-> state]]

AssertNoApplicable(q) ==
    /\ Writes(q, "ASSERT")
    /\ MayAssert(q)
    /\ SeenAssertion(q).state # "ASSERTED"
    /\ CommitsAssertion(q)
    /\ AppendAssertion(req[q].framework, "ASSERTED")
    /\ Answer(q)
    /\ UNCHANGED <<evidence, linked, mapping, rows>>

WithdrawNoApplicable(q) ==
    /\ Writes(q, "WITHDRAW")
    /\ SeenAssertion(q).id = req[q].row
    /\ SeenAssertion(q).state = "ASSERTED"
    /\ SameAssertion(q)
    /\ AppendAssertion(req[q].framework, "WITHDRAWN")
    /\ Answer(q)
    /\ UNCHANGED <<evidence, linked, mapping, rows>>

\* Slip: the suggestion the request loaded is open, and so the transaction decides it.
DecidableAsLoaded(q) == TRUE

\* The transaction reads the suggestion again, and decides what is still open.
Decidable(q) == req[q].view.suggestion.state \in Open /\ SameSuggestion(q)

DecideAs(q, state, promoted) ==
    suggestion' = [suggestion EXCEPT ![req[q].of] =
        [Closed(@) EXCEPT !.state = state, !.promoted = promoted]]

Record(q, outcome) == ledger' = [ledger EXCEPT ![req[q].of] = Append(@, outcome)]

\* An approval writes the mapping with its decision ...
Promote(q) ==
    /\ Writes(q, "APPROVE") /\ ~IsText(q)
    /\ Decidable(q)
    /\ AppendMapping(q, "AI_SUGGESTION_PROMOTED")
    /\ DecideAs(q, "APPROVED", mapping[req[q].reference].id + 1)
    /\ Record(q, "APPROVED_AND_PROMOTED")
    /\ Answer(q)
    /\ UNCHANGED <<evidence, linked, assertion>>

\* ... or is given the active row, unless another suggestion has it (promotedMappingId is
\* unique, and the transaction fails however often it is tried).
Claimed(r, id) == \E s \in Suggestions : suggestion[s].reference = r /\ suggestion[s].promoted = id

LinkMapping(q) ==
    /\ Writes(q, "APPROVE") /\ ~IsText(q)
    /\ Decidable(q)
    /\ MayMap(q)
    /\ SeenRow(q).state = "ACTIVE"
    /\ ~Claimed(req[q].reference, SeenRow(q).id)
    /\ DecideAs(q, "APPROVED", SeenRow(q).id)
    /\ Record(q, "APPROVED_MAPPING_UNCHANGED")
    /\ Answer(q)
    /\ UNCHANGED <<evidence, linked, case>>

AcceptText(q) ==
    /\ Writes(q, "APPROVE") /\ IsText(q)
    /\ Decidable(q)
    /\ DecideAs(q, "ACCEPTED", 0)
    /\ Answer(q)
    /\ UNCHANGED <<evidence, linked, case, ledger>>

\* Only the decision on a mapping has a ledger.
Reject(q) ==
    /\ Writes(q, "REJECT")
    /\ Decidable(q)
    /\ DecideAs(q, "REJECTED", 0)
    /\ \/ IsText(q) /\ UNCHANGED ledger
       \/ ~IsText(q) /\ Record(q, "REJECTED")
    /\ Answer(q)
    /\ UNCHANGED <<evidence, linked, case>>

\* What the snapshot shows refuses the request, or leaves it nothing to change.
Refused(q) ==
    \/ req[q].kind = "MAP" /\ SeenRow(q).state = "ACTIVE"
    \/ req[q].kind = "REMOVE" /\ (SeenRow(q).id # req[q].row \/ SeenRow(q).state # "ACTIVE")
    \/ req[q].kind = "ASSERT" /\ (~MayAssert(q) \/ SeenAssertion(q).state = "ASSERTED")
    \/ req[q].kind = "WITHDRAW" /\ (\/ SeenAssertion(q).id # req[q].row
                                    \/ SeenAssertion(q).state # "ASSERTED")
    \/ Decides(q) /\ req[q].view.suggestion.state \notin Open
    \/ Maps(q) /\ ~MayMap(q)

Refuse(q) ==
    /\ req[q].pc = "writing"
    /\ Refused(q)
    /\ Answer(q)
    /\ UNCHANGED <<evidence, linked, case, rows>>

\* The database may refuse any transaction.  The whole of it is tried again, and after
\* some attempts the error is the answer.
Conflict(q) ==
    /\ req[q].pc = "writing"
    /\ \/ Answer(q)
       \/ req[q].kind \notin {"MAP", "ASSERT"} /\ Set(q, [req[q] EXCEPT !.pc = "reading",
                                                                        !.view = NoView])
    /\ UNCHANGED <<evidence, linked, case, rows>>

-----------------------------------------------------------------------------
(* Everything else that analysts and reports do to the case. *)

ChangeEvidence(f) ==
    /\ \E version \in 0..MaxEvidence \ {evidence[f]} : evidence' = [evidence EXCEPT ![f] = version]
    /\ UNCHANGED <<linked, case, rows, req>>

\* Linking also escalates the finding's triage, where that changes it.
LinkFinding(f) ==
    /\ f \notin linked
    /\ linked' = linked \cup {f}
    /\ \E version \in 0..MaxEvidence : evidence' = [evidence EXCEPT ![f] = version]
    /\ UNCHANGED <<case, rows, req>>

UnlinkFinding(f) ==
    /\ f \in linked
    /\ linked' = linked \ {f}
    /\ UNCHANGED <<evidence, case, rows, req>>

-----------------------------------------------------------------------------

Init ==
    /\ evidence = [f \in Findings |-> 0]
    /\ linked = {}
    /\ mapping = [r \in References |-> NoMapping]
    /\ assertion = [w \in Frameworks |-> NoAssertion]
    /\ suggestion = [s \in Suggestions |-> NoSuggestion]
    /\ ledger = [s \in Suggestions |-> <<>>]
    /\ req = [q \in Requests |-> NewRequest]

RequestStep(q) ==
    \/ BeginMapping(q) \/ BeginAssertion(q) \/ BeginRemoval(q) \/ BeginWithdrawal(q)
    \/ BeginSuggestion(q) \/ BeginDecision(q)
    \/ ListEvidence(q) \/ Generate(q) \/ PersistRun(q) \/ PersistSuggestion(q)
    \/ CompareEvidence(q) \/ ReadExpiring(q) \/ Expire(q)
    \/ Read(q) \/ CreateMapping(q) \/ RemoveMapping(q)
    \/ AssertNoApplicable(q) \/ WithdrawNoApplicable(q)
    \/ Promote(q) \/ LinkMapping(q) \/ AcceptText(q) \/ Reject(q)
    \/ Refuse(q) \/ Conflict(q)

CaseStep(f) == ChangeEvidence(f) \/ LinkFinding(f) \/ UnlinkFinding(f)

Next == (\E q \in Requests : RequestStep(q)) \/ (\E f \in Findings : CaseStep(f))

Spec == Init /\ [][Next]_vars

-----------------------------------------------------------------------------
(* Properties. *)

View == [mapping: [References -> Mapping], assertion: [Frameworks -> Assertion],
         suggestion: Suggestion, linked: SUBSET Findings]
Request ==
    [pc: RequestPCs, kind: Kinds, reference: References \cup {NoReference}, framework: Frameworks,
     finding: Findings, row: 0..MaxRows, of: Suggestions \cup {NoOne}, fingerprint: Fingerprint,
     loaded: Fingerprint, view: View]

\* The tables hold rows of their shape, and the requests values of theirs.
TypeOK ==
    /\ evidence \in [Findings -> 0..MaxEvidence]
    /\ linked \subseteq Findings
    /\ mapping \in [References -> Mapping]
    /\ assertion \in [Frameworks -> Assertion]
    /\ suggestion \in [Suggestions -> Suggestion]
    /\ ledger \in [Suggestions -> Seq(Outcomes)]
    /\ req \in [Requests -> Request]

\* No framework carries an active mapping and a standing determination that nothing in it
\* applies, although neither is written in the row of the other.
DeterminationsExclude ==
    \A r \in References :
       mapping[r].state = "ACTIVE" => assertion[FrameworkOf[r]].state # "ASSERTED"

\* A decided suggestion of a mapping has one decision in its ledger, the one its state
\* shows, however many requests decided it at once; an active mapping that came from the
\* provider is the row of one approved suggestion of just this content; and no row is
\* the outcome of two approvals.
DecisionOf(s) ==
    CASE suggestion[s].state = "APPROVED" -> {"APPROVED_AND_PROMOTED", "APPROVED_MAPPING_UNCHANGED"}
      [] suggestion[s].state = "REJECTED" -> {"REJECTED"}
      [] OTHER -> {}

PromotionsAreDecisions ==
    /\ \A s \in Suggestions :
          suggestion[s].reference # NoReference =>
             /\ {ledger[s][i] : i \in DOMAIN ledger[s]} \subseteq DecisionOf(s)
             /\ Len(ledger[s]) = (IF suggestion[s].state = "PENDING" THEN 0 ELSE 1)
             /\ suggestion[s].promoted > 0 <=> suggestion[s].state = "APPROVED"
    /\ \A r \in References :
          mapping[r].state = "ACTIVE" /\ mapping[r].source = "AI_SUGGESTION_PROMOTED" =>
             \E s \in Suggestions : /\ suggestion[s].reference = r
                                    /\ suggestion[s].promoted = mapping[r].id
                                    /\ suggestion[s].finding = mapping[r].finding
                                    /\ ledger[s] = <<"APPROVED_AND_PROMOTED">>
    /\ \A s, t \in Suggestions :
          /\ suggestion[s].promoted > 0
          /\ suggestion[s].promoted = suggestion[t].promoted
          /\ suggestion[s].reference = suggestion[t].reference
          => s = t

\* What one analyst decided no other decides again, and an expired draft is never
\* accepted or rejected.
DecidedOnce ==
    [][\A s \in Suggestions :
          suggestion[s].state \in Decided \cup {"EXPIRED"} =>
             suggestion'[s].state \in {suggestion[s].state, "EXPIRED"}]_vars

(* What comments of the code say and these steps do not keep. *)

\* "an accept attempt transitions the DRAFT to EXPIRED": nothing else expires.
OnlyDraftsExpire ==
    [][\A s \in Suggestions :
          suggestion[s].state \in Decided => suggestion'[s].state # "EXPIRED"]_vars

\* An approval of a suggestion is refused if the case gained a finding, lost one or had
\* another mapping added since the suggestion was made.
ApprovedOnItsEvidence ==
    [][\A s \in Suggestions :
          suggestion[s].state = "PENDING" /\ suggestion'[s].state = "APPROVED" =>
             suggestion[s].fingerprint = CaseFingerprint]_vars
=============================================================================
