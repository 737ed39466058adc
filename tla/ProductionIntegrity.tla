------------------------ MODULE ProductionIntegrity ------------------------
(***************************************************************************)
(* What stands between a solved question and an emitted answer: the option *)
(* self-check and its correction gate (verification/self_check.py,         *)
(* correction_gate.py), the typed option evidence, the choice of the       *)
(* answer's authority (dual_lineage.py) and the final assessment           *)
(* (production_integrity.py, assess_final_state).  All of it is functions  *)
(* of a solver result and of evidence; agent/workflow.py calls them one    *)
(* after the other (Workflow.tla).                                         *)
(*                                                                         *)
(* An answer is the set of the options it selects.  The evidence itself is *)
(* left out: a verdict says what it comes to for an option.                *)
(***************************************************************************)
EXTENDS Naturals, FiniteSets

CONSTANTS
  Label,      \* the option labels
  DryRunLabel \* what dry_run_answer puts in place of an answer

(* "special" is an unresolved verdict on a route of special_routes; every  *)
(* other unresolved verdict counts as missing.                             *)
Finding   == {"supported", "contradicted", "missing", "special"}
Evidence  == [Label -> Finding]
Nothing   == [l \in Label |-> "missing"]
Selected(v) == {l \in Label : v[l] = "supported"}

\* grounded: the selected options calculation_grounding supports by itself.
\* truncated: a truncation that grounding does not excuse.  usable: what a
\* freeform answer's slot count and slot formats come to; bound: its parse,
\* slot bindings, computation and lineage.
Result == [answer : SUBSET Label, source : {"generated", "computation", "dry_run", "error"},
           truncated : BOOLEAN, lineage : BOOLEAN, grounded : SUBSET Label,
           usable : BOOLEAN, bound : BOOLEAN]

Dummy(r) == r.source \in {"dry_run", "error"}

\* validate_submission_answer for the option formats.
ValidAnswer(format, a) == IF format = "single" THEN Cardinality(a) = 1 ELSE a # {}

(* What a solver may return.  Without a client, or when the client is      *)
(* unavailable, the answer is the dummy of dry_run_answer.                 *)
SolverResult(format, r) ==
  /\ Dummy(r) => /\ r.answer = IF format = "freeform" THEN {} ELSE {DryRunLabel}
                 /\ ~r.truncated /\ ~r.usable
  /\ r.grounded # {} => r.source = "computation" /\ r.grounded \subseteq r.answer
  /\ IF format = "freeform" THEN r.answer = {} /\ r.lineage ELSE ~r.usable /\ ~r.bound

-----------------------------------------------------------------------------
(* The self-check works on the solver's answer and only proposes.          *)
SelfCheck == [made : BOOLEAN, verdict : Evidence]
NoCheck   == [made |-> FALSE, verdict |-> Nothing]

\* {} where there is no proposal.
SelfCheckProposal(solved, v) ==
  LET corrected == {l \in solved : v[l] # "contradicted"} \cup Selected(v)
  IN  IF corrected = solved THEN {} ELSE corrected

\* assess_self_check_correction: with every option closed (the safe routes,
\* the located sources and the domain are drawn with the question).
Corrects(solved, v) ==
  /\ SelfCheckProposal(solved, v) # {}
  /\ \A l \in Label : v[l] \in {"supported", "contradicted"}

-----------------------------------------------------------------------------
(* build_production_typed_option_evidence as the gate sees it.  Evidence   *)
(* neither trusted nor failing closed governs nothing.  Trusted evidence   *)
(* supports a valid answer; it is closed for all options, or supports      *)
(* exactly what the solver selected (1235-1245).                           *)
Typed   == [verdict : Evidence, trusted : BOOLEAN, override : BOOLEAN, failClosed : BOOLEAN]
NoTyped == [verdict |-> Nothing, trusted |-> FALSE, override |-> FALSE, failClosed |-> FALSE]

TypedEvidence(format, r, t) ==
  /\ t.trusted =>
       /\ ValidAnswer(format, Selected(t.verdict))
       /\ \/ \A l \in Label : t.verdict[l] \in {"supported", "contradicted"}
          \/ t.failClosed /\ Selected(t.verdict) = r.answer
  /\ t.override => t.trusted
  /\ ~t.trusted /\ ~t.failClosed => t = NoTyped

Governs(t) == t.trusted \/ t.failClosed

\* verifier_lineage: complete only for closed and trusted evidence in which
\* every option is cited.
VerifierComplete(t, cited) ==
  t.trusted /\ cited /\ \A l \in Label : t.verdict[l] \in {"supported", "contradicted"}

\* final_answer_authority.
VerifierAnswers(r, t, cited, a) ==
  /\ VerifierComplete(t, cited)
  /\ a = Selected(t.verdict)
  /\ a # r.answer \/ ~r.lineage

-----------------------------------------------------------------------------
(* assess_final_state                                                      *)

\* _assess_option_gate, and what calculation_grounding forgives of it.
SelectedUnresolved(a, v)   == {l \in a : v[l] \in {"missing", "special"}}
SelectedContradicted(a, v) == {l \in a : v[l] = "contradicted"}
UnselectedSupported(a, v)  == Selected(v) \ a
SpecialUnresolved(a, v)    == {l \in Label \ a : v[l] = "special"}

OptionsOpen(a, v, forgiven) ==
  (SelectedUnresolved(a, v) \ forgiven) \cup SelectedContradicted(a, v)
    \cup UnselectedSupported(a, v) \cup SpecialUnresolved(a, v) # {}

\* The evidence that decides on the options, if any does.
Deciding(check, t) ==
  IF Governs(t) THEN {t.verdict} ELSE IF check.made THEN {check.verdict} ELSE {}

Proposal(r, check, t) ==
  IF Governs(t) THEN Selected(t.verdict)
  ELSE IF check.made THEN SelfCheckProposal(r.answer, check.verdict) ELSE {}

(* crossDoc and retrieved: whether the question spans documents and all of *)
(* them were retrieved.  What the calculation alone objects to is left to  *)
(* the workflow's choice.                                                  *)
Blocked(r, check, t, a, crossDoc, retrieved, cited) ==
  \/ t.failClosed /\ ~t.trusted
  \/ crossDoc /\ ~retrieved
  \/ crossDoc /\ ~r.lineage /\ ~VerifierAnswers(r, t, cited, a)
  \/ \E v \in Deciding(check, t) : OptionsOpen(a, v, r.grounded)
  \/ Proposal(r, check, t) \notin {{}, a}
  \/ r.truncated
  \/ Dummy(r)

\* _assess_freeform_final_state.
FreeformBlocked(r) == ~r.usable \/ ~r.bound \/ r.truncated \/ Dummy(r)
=============================================================================
