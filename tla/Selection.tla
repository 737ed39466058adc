------------------------------ MODULE Selection ------------------------------
(***************************************************************************)
(* [x for x in s if x in K]: the list comprehensions by which run.py and   *)
(* safe_paid_runner.py pick records out of their lists.                    *)
(***************************************************************************)
EXTENDS Integers, Sequences, SequencesExt

(* The elements of s that are in K, in their order.                        *)
Keep(s, K) == FoldLeft(LAMBDA t, x : IF x \in K THEN Append(t, x) ELSE t, <<>>, s)
=============================================================================
