\* Two processes on one ledger.
SPECIFICATION FileSpec
CONSTANTS
  q1 = q1
  q2 = q2
  Proc = {p1, p2}
  Qid = {q1}
  AttemptId = {a1, a2}
  QidBudget <- OneCall
  MaxTotal = 1
  Tokens = {2}
  NoAttempt = NoAttempt
INVARIANT RequestsCounted
CHECK_DEADLOCK FALSE
