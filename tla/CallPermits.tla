---------------------------- MODULE CallPermits ----------------------------
(***************************************************************************)
(* What the pre-call guard of a paid run promises, and nothing else: a     *)
(* provider call is a permit that is granted at most once, is bound to one *)
(* question, and is never given back, so that neither a failed call, nor a *)
(* crash, nor a restart, nor a later run on the same directory makes room  *)
(* for another one.  TokenLedger implements this with rows in a file.      *)
(***************************************************************************)
EXTENDS Integers, FiniteSets

CONSTANTS Qid,        \* the questions
          AttemptId,  \* the names of provider calls
          QidBudget,  \* calls allowed per question; no entry = no limit
          MaxTotal    \* calls allowed in all; 0 = no limit

VARIABLE granted      \* granted[a] is the question that call a was granted to

PermitsOf(q) == {a \in DOMAIN granted : granted[a] = q}

Init == granted = [a \in {} |-> a]

Grant(a, q) ==
  /\ a \notin DOMAIN granted
  /\ q \in DOMAIN QidBudget => Cardinality(PermitsOf(q)) < QidBudget[q]
  /\ MaxTotal > 0 => Cardinality(DOMAIN granted) < MaxTotal
  /\ granted' = [b \in DOMAIN granted \cup {a} |-> IF b = a THEN q ELSE granted[b]]

Next == \E a \in AttemptId, q \in Qid : Grant(a, q)

Spec == Init /\ [][Next]_granted
=============================================================================
