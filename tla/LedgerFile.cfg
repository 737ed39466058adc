\* One process at a time, which may die between any two file operations.
SPECIFICATION FileSpec
CONSTANTS
  q1 = q1
  q2 = q2
  Proc = {p1}
  Qid = {q1, q2}
  AttemptId = {a1, a2, a3, a4}
  QidBudget <- MCQidBudget
  MaxTotal = 2
  Tokens = {0, 2}
  NoAttempt = NoAttempt
SYMMETRY Symm
INVARIANTS FileTypeOK RequestsCounted RequestsOnRecord
PROPERTY ImplementsLedger
CHECK_DEADLOCK FALSE
