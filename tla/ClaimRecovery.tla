--------------------------- MODULE ClaimRecovery ---------------------------
(***************************************************************************)
(* The shadow trace of one claim (verification/): every atom of the claim  *)
(* is verified against the evidence candidates (atom_evidence_verifier.py, *)
(* claim_verifier.py), the claim's verdict becomes failure signals         *)
(* (verifier_failure_adapter.py), the failures of the surrounding stages   *)
(* are added (failure_taxonomy.py), one of them is made primary            *)
(* (composite_failure_arbitrator.py) and a bounded recovery is planned     *)
(* (recovery_policy.py, recovery_orchestrator.py,                          *)
(* verification_recovery_shadow_trace.py).  A plan recommends; nothing     *)
(* executes it.                                                            *)
(*                                                                         *)
(* What the texts say is drawn: a candidate's assessment for an atom and,  *)
(* where several rank alike, which comes first.  Of a failure record only  *)
(* its class is kept.                                                      *)
(***************************************************************************)
EXTENDS Naturals, FiniteSets

CONSTANTS
  Atom,            \* the atoms of the claim
  Candidate,       \* the evidence that may be supplied
  Observations     \* what a surrounding stage may observe: sets of classes

Safety == {"RUNTIME_INTEGRITY_FAILED", "BUDGET_BLOCKED", "PROVIDER_ERROR"}
Class  == Safety \cup
  {"LINEAGE_LOST", "CALCULATION_BINDING_FAILED", "BINDING_FAILED", "EMPTY_VISIBLE_OUTPUT",
   "MODEL_OUTPUT_INVALID", "MISSING_EVIDENCE", "ANSWER_CONTRACT_FAILED", "UNKNOWN_FAILURE"}

\* Flags and codes of one signal support any classes together; the code
\* CALCULATION_BINDING_FAILED always supports BINDING_FAILED as well, being
\* searched for that name.
ASSUME ObservationsAssumption == Observations \subseteq (SUBSET Class) \ {{}}

VARIABLES
  pc,        \* "verify", "adapt", "observe" or "planned"
  supplied,  \* the candidates
  seen,      \* seen[a][c]: the assessment of candidate c for atom a
  verdict,   \* verdict[a]: an AtomVerdict
  envelope,  \* FailureSignalAdapterResult
  signals,   \* the failure classes the adapter observed
  reported,  \* the failure classes the surrounding stages observed
  plan       \* BoundedRecoveryPlan

vars == <<pc, supplied, seen, verdict, envelope, signals, reported, plan>>

-----------------------------------------------------------------------------
(* Verification                                                            *)

\* An assessment that is not conclusive gives one kind of reason.  anchored:
\* some anchor of the atom was found; incomplete lineage and an empty text
\* are judged before any anchor is looked for.
Kind       == {"support", "refute", "lineage", "empty", "binding", "unknown"}
Assessment == {x \in [kind : Kind, anchored : BOOLEAN] :
                 /\ x.kind \in {"support", "refute"} => x.anchored
                 /\ x.kind \in {"lineage", "empty"} => ~x.anchored}
Reason     == {"no_candidates", "lineage", "empty", "binding", "unknown"}
AtomVerdict == [verdict : {"support", "refute", "unresolved"}, reasons : SUBSET Reason,
                refs : BOOLEAN]
Unverified == [verdict |-> "unresolved", reasons |-> {}, refs |-> FALSE]
Unresolved(reasons, refs) ==
  [verdict |-> "unresolved", reasons |-> reasons, refs |-> refs]
Conclusive(v) == [verdict |-> v, reasons |-> {}, refs |-> TRUE]

Says(row, kind) == \E c \in DOMAIN row : row[c].kind = kind

BugEitherWins(row, v) ==
  \E k \in {"support", "refute"} : Says(row, k) /\ v = Conclusive(k)

\* Candidates that contradict each other decide nothing.
Authoritative(row, v) ==
  IF Says(row, "support") /\ Says(row, "refute")
    THEN v = Unresolved({"unknown"}, TRUE)
    ELSE \E k \in {"support", "refute"} : Says(row, k) /\ v = Conclusive(k)

\* max by _assessment_rank: an anchored one before the others.
BestPartial(row) ==
  {c \in DOMAIN row : row[c].anchored \/ \A d \in DOMAIN row : ~row[d].anchored}

\* A claim put together from two documents adds a binding reason.
Partial(row, v) ==
  /\ v.verdict = "unresolved"
  /\ v.refs = \E d \in DOMAIN row : row[d].anchored
  /\ \E c \in BestPartial(row) :
       \/ v.reasons = {row[c].kind}
       \/ v.reasons = {row[c].kind, "binding"} /\ Cardinality(DOMAIN row) > 1

\* Low scope confidence, insufficient anchors, an ambiguous subject.
Early(row, v) ==
  /\ v.verdict = "unresolved"
  /\ \/ v.reasons = {"unknown"}
     \/ v.reasons = {"no_candidates"} /\ DOMAIN row = {}
     \/ v.reasons = {"binding"} /\ Cardinality(DOMAIN row) > 1
  /\ DOMAIN row = {} => ~v.refs

\* What verify_atom may return for an atom of these assessments.
MayReturn(row, v) ==
  \/ Early(row, v)
  \/ /\ DOMAIN row # {}
     /\ IF Says(row, "support") \/ Says(row, "refute")
          THEN Authoritative(row, v)
          ELSE Partial(row, v)

observed == signals \cup reported

ClaimVerdict ==
  IF \E a \in Atom : verdict[a].verdict = "refute" THEN "refuted"
  ELSE IF Atom # {} /\ \A a \in Atom : verdict[a].verdict = "support" THEN "supported"
  ELSE "unresolved"

-----------------------------------------------------------------------------
(* The adapter                                                             *)

\* count: evidence_count, where the caller gives it.
Count    == {"not given", "zero", "some"}
Envelope == [count : Count, available : BOOLEAN, refs : BOOLEAN, auditable : BOOLEAN]
Unadapted == [count |-> "not given", available |-> FALSE, refs |-> FALSE, auditable |-> FALSE]

Available(count, refs) == IF count = "not given" THEN refs ELSE count = "some"

BugNoRefsIsMissing(v, count) ==
  count = "zero" \/ "no_candidates" \in v.reasons \/ ~v.refs

DirectMissing(v, count) ==
  \/ count = "zero"
  \/ "empty" \in v.reasons
  \/ "no_candidates" \in v.reasons /\ count # "some"

\* adapt_atom_verdict on an unresolved atom.
Signals(v, count, cited) ==
  LET there == Available(count, v.refs \/ cited)
      found == {s \in {"LINEAGE_LOST", "BINDING_FAILED", "UNKNOWN_FAILURE"} :
                  \/ s = "LINEAGE_LOST" /\ there /\ "lineage" \in v.reasons
                  \/ s = "BINDING_FAILED" /\ there /\ "binding" \in v.reasons
                  \/ s = "UNKNOWN_FAILURE" /\ v.reasons \cap {"unknown", "no_candidates"} # {}}
  IN  IF DirectMissing(v, count) THEN {"MISSING_EVIDENCE"}
      ELSE IF found = {} THEN {"UNKNOWN_FAILURE"} ELSE found

ClaimSignals(count, cited) ==
  LET open == {a \in Atom : verdict[a].verdict = "unresolved"}
  IN  IF ClaimVerdict # "unresolved" THEN {}
      ELSE IF open = {} THEN {"UNKNOWN_FAILURE"}
      ELSE UNION {Signals(verdict[a], count, cited) : a \in open}

-----------------------------------------------------------------------------
(* Arbitration and plan                                                    *)

\* _TERMINAL_SAFETY_ORDER, then _CAUSAL_ORDER.
Rank ==
  [RUNTIME_INTEGRITY_FAILED |-> 1, BUDGET_BLOCKED |-> 2, PROVIDER_ERROR |-> 3,
   LINEAGE_LOST |-> 4, CALCULATION_BINDING_FAILED |-> 5, BINDING_FAILED |-> 6,
   EMPTY_VISIBLE_OUTPUT |-> 7, MODEL_OUTPUT_INVALID |-> 8, MISSING_EVIDENCE |-> 9,
   ANSWER_CONTRACT_FAILED |-> 10, UNKNOWN_FAILURE |-> 11]

First(cs) == CHOOSE c \in cs : \A d \in cs : Rank[c] <= Rank[d]

\* Both signals: the evidence state decides, or nobody does.
MissingOrBinding(e) ==
  IF ~e.available THEN "MISSING_EVIDENCE"
  ELSE IF ~e.auditable \/ e.refs THEN "BINDING_FAILED"
  ELSE "UNKNOWN_FAILURE"

BugCausalBeforeSafety(cs, e) ==
  IF {"MISSING_EVIDENCE", "BINDING_FAILED"} \subseteq cs THEN MissingOrBinding(e)
  ELSE First(cs)

Primary(cs, e) ==
  IF cs \cap Safety = {} /\ {"MISSING_EVIDENCE", "BINDING_FAILED"} \subseteq cs
    THEN MissingOrBinding(e)
    ELSE First(cs)

Action == {"NO_ACTION", "CORRECTIVE_RETRIEVAL", "REBIND_LINEAGE", "REVERIFY_CLAIM",
           "RECOMPUTE_DETERMINISTIC", "REPARSE_VISIBLE_OUTPUT", "STOP", "ESCALATE_EVALUATOR"}

\* route_recovery; the four STOP_ actions are one.
ActionOf ==
  [c \in Class |->
     CASE c = "MISSING_EVIDENCE" -> "CORRECTIVE_RETRIEVAL"
       [] c = "LINEAGE_LOST" -> "REBIND_LINEAGE"
       [] c = "BINDING_FAILED" -> "REVERIFY_CLAIM"
       [] c = "CALCULATION_BINDING_FAILED" -> "RECOMPUTE_DETERMINISTIC"
       [] c \in {"MODEL_OUTPUT_INVALID", "EMPTY_VISIBLE_OUTPUT"} -> "REPARSE_VISIBLE_OUTPUT"
       [] c = "UNKNOWN_FAILURE" -> "ESCALATE_EVALUATOR"
       [] OTHER -> "STOP"]

Terminal == Safety \cup {"ANSWER_CONTRACT_FAILED", "UNKNOWN_FAILURE"}

\* The evaluator reviews whatever is not a plain retrieval.
Plan == [primary : Class \cup {"none"}, secondary : SUBSET Class, action : Action,
         steps : {0, 1}, evaluator : BOOLEAN, retrieval : BOOLEAN, stop : BOOLEAN]
NoPlan == [primary |-> "none", secondary |-> {}, action |-> "NO_ACTION", steps |-> 0,
           evaluator |-> FALSE, retrieval |-> FALSE, stop |-> FALSE]

PlanFor(p, cs) ==
  [primary   |-> p,
   secondary |-> cs \ {p},
   action    |-> ActionOf[p],
   steps     |-> IF p \in Terminal THEN 0 ELSE 1,
   evaluator |-> p # "MISSING_EVIDENCE",
   retrieval |-> p = "MISSING_EVIDENCE",
   stop      |-> p \in Terminal]

-----------------------------------------------------------------------------
ClaimTypeOK ==
  /\ pc \in {"verify", "adapt", "observe", "planned"}
  /\ supplied \in SUBSET Candidate
  /\ seen \in [Atom -> [supplied -> Assessment]]
  /\ verdict \in [Atom -> AtomVerdict]
  /\ envelope \in Envelope
  /\ signals \in SUBSET Class
  /\ reported \in SUBSET Class
  /\ plan \in Plan

ClaimInit ==
  /\ pc = "verify"
  /\ supplied \in SUBSET Candidate
  /\ seen \in [Atom -> [supplied -> Assessment]]
  /\ verdict = [a \in Atom |-> Unverified]
  /\ envelope = Unadapted
  /\ signals = {}
  /\ reported = {}
  /\ plan = NoPlan

\* verify_claim
VerifyClaim ==
  /\ pc = "verify"
  /\ verdict' \in [Atom -> {v \in AtomVerdict : \E a \in Atom : MayReturn(seen[a], v)}]
  /\ \A a \in Atom : MayReturn(seen[a], verdict'[a])
  /\ pc' = "adapt"
  /\ UNCHANGED <<supplied, seen, envelope, signals, reported, plan>>

\* adapt_claim_verdict; cited: the caller knows raw references or documents.
AdaptClaim ==
  /\ pc = "adapt"
  /\ \E count \in Count, cited \in BOOLEAN :
       LET refs == cited \/ \E a \in Atom : verdict[a].refs
       IN  /\ envelope' = [count |-> count, available |-> Available(count, refs), refs |-> refs,
                           auditable |-> ClaimVerdict # "unresolved"]
           /\ signals' = ClaimSignals(count, cited)
  /\ pc' = "observe"
  /\ UNCHANGED <<supplied, seen, verdict, reported, plan>>

\* One of additional_observations.
Observe ==
  /\ pc = "observe"
  /\ \E o \in Observations : reported' = reported \cup o
  /\ UNCHANGED <<pc, supplied, seen, verdict, envelope, signals, plan>>

\* build_shadow_trace_from_adapter: nothing observed, nothing planned.
PlanRecovery ==
  /\ pc = "observe"
  /\ plan' = IF observed = {} THEN NoPlan ELSE PlanFor(Primary(observed, envelope), observed)
  /\ pc' = "planned"
  /\ UNCHANGED <<supplied, seen, verdict, envelope, signals, reported>>

ClaimNext == VerifyClaim \/ AdaptClaim \/ Observe \/ PlanRecovery

ClaimSpec == ClaimInit /\ [][ClaimNext]_vars

-----------------------------------------------------------------------------
(* Properties                                                              *)

(* A conclusive claim rests on uncontested evidence: it is supported only  *)
(* if every atom is supported by a candidate of complete lineage and       *)
(* refuted by none, and refuted only over such an atom.  About verify_atom *)
(* (82-143), aggregate_atom_verdicts and the lineage check of              *)
(* _assess_candidate.                                                      *)
Uncontested(a, for, against) ==
  /\ \E c \in supplied : seen[a][c].kind = for
  /\ \A c \in supplied : seen[a][c].kind # against

ConclusiveIsUncontested ==
  pc # "verify" =>
    /\ ClaimVerdict = "supported" => \A a \in Atom : Uncontested(a, "support", "refute")
    /\ ClaimVerdict = "refuted" => \E a \in Atom : Uncontested(a, "refute", "support")

(* A safety failure stops everything: whatever else the verifier and the   *)
(* surrounding stages observe, before it or after it, the plan has no      *)
(* step, no retrieval and a safety failure as its cause, and loses none of *)
(* the others.  About arbitrate_failures (134-194) and                     *)
(* build_bounded_recovery_plan.                                            *)
SafetyFailureStops ==
  pc = "planned" /\ observed \cap Safety # {} =>
    /\ plan.primary \in Safety
    /\ plan.stop /\ plan.steps = 0 /\ ~plan.retrieval
    /\ observed = {plan.primary} \cup plan.secondary

(* Searching again is never the answer to evidence that was found: a       *)
(* corrective retrieval is recommended only if a surrounding stage missed  *)
(* evidence, the caller selected none, or for some atom none of the        *)
(* candidates of complete lineage holds a single anchor.  About            *)
(* adapt_atom_verdict (97-233), whose docstring says that a non-empty      *)
(* selection must not become MISSING_EVIDENCE, and                         *)
(* _missing_vs_binding_primary.                                            *)
Unanchored(a) == \A c \in supplied : ~seen[a][c].anchored

RetrievalIsEarned ==
  plan.retrieval =>
    \/ "MISSING_EVIDENCE" \in reported
    \/ envelope.count = "zero"
    \/ \E a \in Atom : Unanchored(a)
=============================================================================
