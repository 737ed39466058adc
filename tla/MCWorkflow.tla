----------------------------- MODULE MCWorkflow -----------------------------
(* A question of two options over three atoms; the tool of A compares its  *)
(* two operands and refuses v2 against v2 (a zero denominator).            *)
EXTENDS Workflow, TLC

CONSTANTS A, B, a1, a2, b1, v1, v2

MCAtoms == (A :> {a1, a2}) @@ (B :> {b1})

MCRule ==
  (A :> [c \in [{a1, a2} -> {v1, v2}] |->
           IF c[a1] = v2 /\ c[a2] = v2 THEN "unresolved"
           ELSE IF c[a1] = c[a2] THEN "supported" ELSE "contradicted"])
  @@ (B :> [c \in [{b1} -> {v1, v2}] |-> IF c[b1] = v1 THEN "supported" ELSE "contradicted"])
=============================================================================
