---------------------------- MODULE MCLLMClient ----------------------------
(* A small instance of LLMClient: q1 has one call, q2 no limit.            *)
EXTENDS LLMClient, TLC

CONSTANTS q1, q2

MCQidBudget   == q1 :> 1
MCTokenBudget == <<2, 0>>
=============================================================================
