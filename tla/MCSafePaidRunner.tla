-------------------------- MODULE MCSafePaidRunner --------------------------
(* Small instances of SafePaidRunner: two questions.                       *)
EXTENDS SafePaidRunner

CONSTANTS q1, q2

MCAllowed   == <<q1, q2>>
OneCall     == [q \in Qid |-> 1]
TwoCalls    == [q \in Qid |-> 2]
MCBudget    == [q \in Qid |-> IF q = q1 THEN 2 ELSE 1]
AttemptSymm == Permutations(AttemptId)
=============================================================================
