------------------------ MODULE ClaimRecoveryProofs ------------------------
(***************************************************************************)
(* Proofs about ClaimRecovery.tla, for claims of any number of atoms, any  *)
(* number of candidates and any observations of the surrounding stages.    *)
(***************************************************************************)
EXTENDS ClaimRecovery, TLAPS

\* Every verdict is one verify_atom can give for what the candidates say.
VerdictsFollow ==
  pc # "verify" => \A a \in Atom : MayReturn(seen[a], verdict[a])

\* Missing evidence is signalled only for an absence.
Absent(v) == "empty" \in v.reasons \/ "no_candidates" \in v.reasons

SignalsFollow ==
  "MISSING_EVIDENCE" \in signals =>
    /\ pc \in {"observe", "planned"}
    /\ envelope.count = "zero" \/ \E a \in Atom : Absent(verdict[a])

\* A plan is the one for what was observed.
PlanFollows ==
  \/ plan = NoPlan /\ (pc = "planned" => observed = {})
  \/ /\ pc = "planned" /\ observed # {}
     /\ plan = PlanFor(Primary(observed, envelope), observed)

ClaimInv ==
  ClaimTypeOK /\ VerdictsFollow /\ SignalsFollow /\ PlanFollows

-----------------------------------------------------------------------------
(* What the operators of the model return                                  *)

\* The precedence orders are total: some class of a set comes first.
LEMMA FirstExists ==
  ASSUME NEW cs \in SUBSET Class, cs # {}
  PROVE  First(cs) \in cs /\ \A d \in cs : Rank[First(cs)] <= Rank[d]
<1> DEFINE Leads(c) == c \in cs /\ \A d \in cs : Rank[c] <= Rank[d]
<1> USE DEF Class, Safety, Rank
<1>1. CASE "RUNTIME_INTEGRITY_FAILED" \in cs
  <2>1. Leads("RUNTIME_INTEGRITY_FAILED") BY <1>1
  <2> QED BY <2>1 DEF First
<1>2. CASE cs \cap {"RUNTIME_INTEGRITY_FAILED"} = {} /\ "BUDGET_BLOCKED" \in cs
  <2>1. Leads("BUDGET_BLOCKED") BY <1>2
  <2> QED BY <2>1 DEF First
<1>3. CASE cs \cap {"RUNTIME_INTEGRITY_FAILED", "BUDGET_BLOCKED"} = {} /\ "PROVIDER_ERROR" \in cs
  <2>1. Leads("PROVIDER_ERROR") BY <1>3
  <2> QED BY <2>1 DEF First
<1>4. CASE cs \cap Safety = {} /\ "LINEAGE_LOST" \in cs
  <2>1. Leads("LINEAGE_LOST") BY <1>4
  <2> QED BY <2>1 DEF First
<1>5. CASE /\ cs \cap (Safety \cup {"LINEAGE_LOST"}) = {}
           /\ "CALCULATION_BINDING_FAILED" \in cs
  <2>1. Leads("CALCULATION_BINDING_FAILED") BY <1>5
  <2> QED BY <2>1 DEF First
<1>6. CASE /\ cs \cap (Safety \cup {"LINEAGE_LOST", "CALCULATION_BINDING_FAILED"}) = {}
           /\ "BINDING_FAILED" \in cs
  <2>1. Leads("BINDING_FAILED") BY <1>6
  <2> QED BY <2>1 DEF First
<1>7. CASE /\ cs \subseteq {"EMPTY_VISIBLE_OUTPUT", "MODEL_OUTPUT_INVALID", "MISSING_EVIDENCE",
                            "ANSWER_CONTRACT_FAILED", "UNKNOWN_FAILURE"}
           /\ "EMPTY_VISIBLE_OUTPUT" \in cs
  <2>1. Leads("EMPTY_VISIBLE_OUTPUT") BY <1>7
  <2> QED BY <2>1 DEF First
<1>8. CASE /\ cs \subseteq {"MODEL_OUTPUT_INVALID", "MISSING_EVIDENCE",
                            "ANSWER_CONTRACT_FAILED", "UNKNOWN_FAILURE"}
           /\ "MODEL_OUTPUT_INVALID" \in cs
  <2>1. Leads("MODEL_OUTPUT_INVALID") BY <1>8
  <2> QED BY <2>1 DEF First
<1>9. CASE /\ cs \subseteq {"MISSING_EVIDENCE", "ANSWER_CONTRACT_FAILED", "UNKNOWN_FAILURE"}
           /\ "MISSING_EVIDENCE" \in cs
  <2>1. Leads("MISSING_EVIDENCE") BY <1>9
  <2> QED BY <2>1 DEF First
<1>10. CASE cs \subseteq {"ANSWER_CONTRACT_FAILED", "UNKNOWN_FAILURE"} /\ "ANSWER_CONTRACT_FAILED" \in cs
  <2>1. Leads("ANSWER_CONTRACT_FAILED") BY <1>10
  <2> QED BY <2>1 DEF First
<1>11. CASE cs = {"UNKNOWN_FAILURE"}
  <2>1. Leads("UNKNOWN_FAILURE") BY <1>11
  <2> QED BY <2>1 DEF First
<1> QED BY <1>1, <1>2, <1>3, <1>4, <1>5, <1>6, <1>7, <1>8, <1>9, <1>10, <1>11

\* A safety failure comes before whatever else was observed.
LEMMA SafetyFirst ==
  ASSUME NEW cs \in SUBSET Class, cs \cap Safety # {}
  PROVE  First(cs) \in cs \cap Safety
<1>1. PICK s \in Safety : s \in cs
  OBVIOUS
<1>2. First(cs) \in cs /\ Rank[First(cs)] <= Rank[s]
  BY <1>1, FirstExists
<1>3. First(cs) \in Class
  BY <1>2
<1>4. Rank[s] <= 3
  BY <1>1 DEF Rank, Safety
<1>5. \A c \in Class : Rank[c] \in Nat /\ (c \notin Safety => Rank[c] > 3)
  BY DEF Rank, Safety, Class
<1>6. s \in Class
  BY <1>1 DEF Class
<1> QED BY <1>2, <1>3, <1>4, <1>5, <1>6

\* The primary failure was observed, unless it is the unknown one.
LEMMA PrimaryType ==
  ASSUME NEW cs \in SUBSET Class, cs # {}, NEW e
  PROVE  /\ Primary(cs, e) \in Class
         /\ Primary(cs, e) \in cs \cup {"UNKNOWN_FAILURE"}
<1>1. CASE cs \cap Safety = {} /\ {"MISSING_EVIDENCE", "BINDING_FAILED"} \subseteq cs
  <2>1. Primary(cs, e) = MissingOrBinding(e)
    BY <1>1 DEF Primary
  <2>2. MissingOrBinding(e) \in {"MISSING_EVIDENCE", "BINDING_FAILED", "UNKNOWN_FAILURE"}
    BY DEF MissingOrBinding
  <2> QED BY <1>1, <2>1, <2>2 DEF Class
<1>2. CASE ~(cs \cap Safety = {} /\ {"MISSING_EVIDENCE", "BINDING_FAILED"} \subseteq cs)
  <2>1. Primary(cs, e) = First(cs)
    BY <1>2 DEF Primary
  <2> QED BY <2>1, FirstExists
<1> QED BY <1>1, <1>2

\* The plan for a primary failure is a plan.
LEMMA PlanType ==
  ASSUME NEW p \in Class, NEW cs \in SUBSET Class
  PROVE  PlanFor(p, cs) \in Plan
<1>1. ActionOf[p] \in Action
  BY DEF ActionOf, Action
<1>2. /\ (IF p \in Terminal THEN 0 ELSE 1) \in {0, 1}
      /\ (p \in Terminal) \in BOOLEAN /\ (p # "MISSING_EVIDENCE") \in BOOLEAN
      /\ (p = "MISSING_EVIDENCE") \in BOOLEAN /\ cs \ {p} \in SUBSET Class
  OBVIOUS
<1> QED BY <1>1, <1>2 DEF PlanFor, Plan

-----------------------------------------------------------------------------
(* The invariant                                                           *)

\* No claim is verified at first.
LEMMA InitInv == ClaimInit => ClaimInv
<1> SUFFICES ASSUME ClaimInit PROVE ClaimInv
  OBVIOUS
<1>1. ClaimTypeOK
  BY DEF ClaimInit, ClaimTypeOK, Unverified, AtomVerdict, Unadapted, Envelope, Count,
    NoPlan, Plan, Action
<1> QED BY <1>1 DEF ClaimInit, ClaimInv, VerdictsFollow, SignalsFollow, PlanFollows

\* The verdicts are those verify_atom may return.
LEMMA VerifyInv ==
  ASSUME ClaimInv, VerifyClaim
  PROVE  ClaimInv'
<1> USE DEF ClaimInv, VerifyClaim
<1>1. \A a \in Atom : verdict'[a] \in AtomVerdict
  OBVIOUS
<1>2. verdict' \in [Atom -> AtomVerdict]
  BY <1>1
<1>3. ClaimTypeOK'
  BY <1>2 DEF ClaimTypeOK
<1>4. VerdictsFollow'
  BY DEF VerdictsFollow
<1>5. SignalsFollow' /\ PlanFollows'
  BY DEF SignalsFollow, PlanFollows, observed
<1> QED BY <1>3, <1>4, <1>5

\* The signals of the adapter follow from the verdicts.
LEMMA AdaptInv ==
  ASSUME ClaimInv, AdaptClaim
  PROVE  ClaimInv'
<1> USE DEF ClaimInv
<1>1. PICK count \in Count, cited \in BOOLEAN :
        LET refs == cited \/ \E a \in Atom : verdict[a].refs
        IN  /\ envelope' = [count |-> count, available |-> Available(count, refs),
                            refs |-> refs, auditable |-> ClaimVerdict # "unresolved"]
            /\ signals' = ClaimSignals(count, cited)
  BY DEF AdaptClaim
<1>2. UNCHANGED <<supplied, seen, verdict, reported, plan>> /\ pc = "adapt" /\ pc' = "observe"
  BY DEF AdaptClaim
<1>3. \A v \in AtomVerdict :
        /\ Signals(v, count, cited) \subseteq Class
        /\ "MISSING_EVIDENCE" \in Signals(v, count, cited) => count = "zero" \/ Absent(v)
  BY DEF Signals, DirectMissing, Absent, Class
<1>4. /\ signals' \subseteq Class
      /\ "MISSING_EVIDENCE" \in signals' => count = "zero" \/ \E a \in Atom : Absent(verdict[a])
  <2> DEFINE open == {a \in Atom : verdict[a].verdict = "unresolved"}
             all  == UNION {Signals(verdict[a], count, cited) : a \in open}
  <2>1. signals' \in {{}, {"UNKNOWN_FAILURE"}, all}
    BY <1>1 DEF ClaimSignals
  <2>2. \A a \in open : verdict[a] \in AtomVerdict
    BY DEF ClaimTypeOK
  <2>3. all \subseteq Class
    BY <1>3, <2>2
  <2>4. "MISSING_EVIDENCE" \in all => count = "zero" \/ \E a \in Atom : Absent(verdict[a])
    BY <1>3, <2>2
  <2> QED BY <2>1, <2>3, <2>4 DEF Class
<1>5. envelope' \in Envelope
  <2>1. Available(count, cited \/ \E a \in Atom : verdict[a].refs) \in BOOLEAN
    BY DEF Available
  <2> QED BY <1>1, <2>1 DEF Envelope
<1>6. envelope'.count = count
  BY <1>1
<1>7. ClaimTypeOK'
  BY <1>2, <1>4, <1>5 DEF ClaimTypeOK
<1>8. VerdictsFollow'
  BY <1>2 DEF VerdictsFollow
<1>9. SignalsFollow'
  BY <1>2, <1>4, <1>6 DEF SignalsFollow
<1>10. PlanFollows'
  BY <1>2 DEF PlanFollows, observed
<1> QED BY <1>7, <1>8, <1>9, <1>10

\* Another observation leaves what the adapter signalled.
LEMMA ObserveInv ==
  ASSUME ClaimInv, Observe
  PROVE  ClaimInv'
<1> USE DEF ClaimInv, Observe
<1>1. ClaimTypeOK'
  BY ObservationsAssumption DEF ClaimTypeOK
<1>2. VerdictsFollow'
  BY DEF VerdictsFollow
<1>3. SignalsFollow' /\ PlanFollows'
  BY DEF SignalsFollow, PlanFollows, observed
<1> QED BY <1>1, <1>2, <1>3

\* The plan follows from what was observed.
LEMMA PlanInv ==
  ASSUME ClaimInv, PlanRecovery
  PROVE  ClaimInv'
<1> USE DEF ClaimInv, PlanRecovery
<1>1. observed \in SUBSET Class /\ observed' = observed
  BY DEF observed, ClaimTypeOK
<1>2. plan' \in Plan
  <2>1. NoPlan \in Plan
    BY DEF NoPlan, Plan, Action
  <2>2. observed # {} => PlanFor(Primary(observed, envelope), observed) \in Plan
    BY <1>1, PrimaryType, PlanType
  <2> QED BY <2>1, <2>2
<1>3. ClaimTypeOK'
  BY <1>2 DEF ClaimTypeOK
<1>4. VerdictsFollow'
  BY DEF VerdictsFollow
<1>5. SignalsFollow'
  BY DEF SignalsFollow
<1>6. PlanFollows'
  BY <1>1 DEF PlanFollows
<1> QED BY <1>3, <1>4, <1>5, <1>6

\* Nothing changes.
LEMMA StutterInv ==
  ASSUME ClaimInv, UNCHANGED vars
  PROVE  ClaimInv'
BY DEF vars, ClaimInv, ClaimTypeOK, VerdictsFollow, SignalsFollow, PlanFollows, observed

\* The invariant holds of every trace.
LEMMA SpecInv == ClaimSpec => []ClaimInv
<1>1. ClaimInv /\ [ClaimNext]_vars => ClaimInv'
  BY VerifyInv, AdaptInv, ObserveInv, PlanInv, StutterInv DEF ClaimNext
<1> QED BY InitInv, <1>1, PTL DEF ClaimSpec

-----------------------------------------------------------------------------
\* The state of a trace is well formed.
THEOREM ClaimTypeCorrect == ClaimSpec => []ClaimTypeOK
<1>1. ClaimInv => ClaimTypeOK
  BY DEF ClaimInv
<1> QED BY <1>1, SpecInv, PTL

\* An atom found to be supported or refuted has a candidate that says so, and
\* none for both.
LEMMA ConclusiveAtom ==
  ASSUME NEW a \in Atom, NEW k \in {"support", "refute"},
         MayReturn(seen[a], verdict[a]), verdict[a].verdict = k
  PROVE  Says(seen[a], k) /\ ~(Says(seen[a], "support") /\ Says(seen[a], "refute"))
<1>1. Authoritative(seen[a], verdict[a])
  BY DEF MayReturn, Early, Partial
<1> QED BY <1>1 DEF Authoritative, Unresolved, Conclusive

(* Whatever the evidence, a conclusive claim rests on atoms whose          *)
(* candidates do not contradict each other.                                *)
THEOREM ConclusiveClaims == ClaimSpec => []ConclusiveIsUncontested
<1>1. ClaimInv => ConclusiveIsUncontested
  <2> SUFFICES ASSUME ClaimInv, pc # "verify" PROVE
         /\ ClaimVerdict = "supported" => \A a \in Atom : Uncontested(a, "support", "refute")
         /\ ClaimVerdict = "refuted" => \E a \in Atom : Uncontested(a, "refute", "support")
    BY DEF ConclusiveIsUncontested
  <2>1. \A a \in Atom : MayReturn(seen[a], verdict[a])
    BY DEF ClaimInv, VerdictsFollow
  <2>2. \A a \in Atom : DOMAIN seen[a] = supplied
    BY DEF ClaimInv, ClaimTypeOK
  <2>3. ASSUME NEW a \in Atom, verdict[a].verdict = "support"
        PROVE  Uncontested(a, "support", "refute")
    BY <2>1, <2>2, <2>3, ConclusiveAtom DEF Uncontested, Says
  <2>4. ASSUME NEW a \in Atom, verdict[a].verdict = "refute"
        PROVE  Uncontested(a, "refute", "support")
    BY <2>1, <2>2, <2>4, ConclusiveAtom DEF Uncontested, Says
  <2> QED BY <2>3, <2>4 DEF ClaimVerdict
<1> QED BY <1>1, SpecInv, PTL

(* Whatever else is observed, a safety failure leaves a plan without a     *)
(* step.                                                                   *)
THEOREM SafetyStops == ClaimSpec => []SafetyFailureStops
<1>1. ClaimInv => SafetyFailureStops
  <2> SUFFICES ASSUME ClaimInv, pc = "planned", observed \cap Safety # {}
               PROVE  /\ plan.primary \in Safety
                      /\ plan.stop /\ plan.steps = 0 /\ ~plan.retrieval
                      /\ observed = {plan.primary} \cup plan.secondary
    BY DEF SafetyFailureStops
  <2> DEFINE p == Primary(observed, envelope)
  <2>1. observed \in SUBSET Class
    BY DEF observed, ClaimInv, ClaimTypeOK
  <2>2. p \in observed \cap Safety
    BY <2>1, SafetyFirst DEF Primary
  <2>3. plan = PlanFor(p, observed)
    BY DEF ClaimInv, PlanFollows
  <2>4. /\ plan.primary = p /\ plan.secondary = observed \ {p}
        /\ plan.steps = IF p \in Terminal THEN 0 ELSE 1
        /\ plan.retrieval = (p = "MISSING_EVIDENCE")
        /\ plan.stop = (p \in Terminal)
    BY <2>3 DEF PlanFor
  <2>5. p \in Terminal /\ p # "MISSING_EVIDENCE"
    BY <2>2 DEF Terminal, Safety
  <2> QED BY <2>2, <2>4, <2>5
<1> QED BY <1>1, SpecInv, PTL

\* Evidence reported as absent is not anchored in any candidate.
LEMMA AbsentIsUnanchored ==
  ASSUME NEW a \in Atom, seen[a] \in [supplied -> Assessment],
         MayReturn(seen[a], verdict[a]), Absent(verdict[a])
  PROVE  Unanchored(a)
<1>1. CASE supplied = {}
  BY <1>1 DEF Unanchored
<1>2. CASE supplied # {}
  <2>1. ~Early(seen[a], verdict[a]) /\ ~Authoritative(seen[a], verdict[a])
    BY <1>2 DEF Early, Authoritative, Unresolved, Conclusive, Absent
  <2>2. Partial(seen[a], verdict[a])
    BY <2>1 DEF MayReturn
  <2>3. PICK c \in BestPartial(seen[a]) : seen[a][c].kind \in {"empty", "no_candidates"}
    BY <2>2 DEF Partial, Absent
  <2>4. c \in supplied /\ seen[a][c] \in Assessment
    BY <2>3 DEF BestPartial
  <2>5. ~seen[a][c].anchored
    BY <2>3, <2>4 DEF Assessment, Kind
  <2> QED BY <2>3, <2>5 DEF BestPartial, Unanchored
<1> QED BY <1>1, <1>2

(* Whatever is observed, searching again is recommended only where         *)
(* evidence is absent.                                                     *)
THEOREM RetrievalEarned == ClaimSpec => []RetrievalIsEarned
<1>1. ClaimInv => RetrievalIsEarned
  <2> SUFFICES ASSUME ClaimInv, plan.retrieval, "MISSING_EVIDENCE" \notin reported
               PROVE  envelope.count = "zero" \/ \E a \in Atom : Unanchored(a)
    BY DEF RetrievalIsEarned
  <2> DEFINE p == Primary(observed, envelope)
  <2>1. observed # {} /\ plan = PlanFor(p, observed)
    BY DEF ClaimInv, PlanFollows, NoPlan
  <2>2. p = "MISSING_EVIDENCE"
    BY <2>1 DEF PlanFor
  <2>3. observed \in SUBSET Class
    BY DEF observed, ClaimInv, ClaimTypeOK
  <2>4. "MISSING_EVIDENCE" \in observed
    BY <2>1, <2>2, <2>3, PrimaryType
  <2>5. "MISSING_EVIDENCE" \in signals
    BY <2>4 DEF observed
  <2>6. CASE envelope.count = "zero"
    BY <2>6
  <2>7. ASSUME NEW a \in Atom, Absent(verdict[a])
        PROVE  Unanchored(a)
    BY <2>5, <2>7, AbsentIsUnanchored DEF ClaimInv, ClaimTypeOK, VerdictsFollow, SignalsFollow
  <2> QED BY <2>5, <2>6, <2>7 DEF ClaimInv, SignalsFollow
<1> QED BY <1>1, SpecInv, PTL
=============================================================================
