-------------------------- MODULE MCRunCheckpoint --------------------------
(* Small instances of RunCheckpoint: three questions in a fixed order.     *)
EXTENDS RunCheckpoint

CONSTANTS q1, q2, q3

MCOrder == <<q1, q2, q3>>
=============================================================================
