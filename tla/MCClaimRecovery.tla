-------------------------- MODULE MCClaimRecovery --------------------------
(* A claim of two atoms, two candidates, and what the stages around the    *)
(* verifier may report: an exhausted budget with the contract it broke,    *)
(* missed evidence with a failed binding, a failed calculation.            *)
EXTENDS ClaimRecovery, TLC

CONSTANTS a1, a2, c1, c2

MCSymmetry == Permutations({a1, a2}) \cup Permutations({c1, c2})

MCObservations ==
  {{"BUDGET_BLOCKED", "ANSWER_CONTRACT_FAILED"}, {"MISSING_EVIDENCE", "BINDING_FAILED"},
   {"CALCULATION_BINDING_FAILED", "BINDING_FAILED"}}
=============================================================================
