---------------------------- MODULE MCLedgerFile ----------------------------
(* A small instance of LedgerFile: q1 has one call, q2 two.                *)
EXTENDS LedgerFile, TLC

CONSTANTS q1, q2

MCQidBudget == (q1 :> 1) @@ (q2 :> 2)
OneCall     == q1 :> 1
Symm == Permutations(AttemptId)
=============================================================================
