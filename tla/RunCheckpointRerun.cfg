\* A resume that runs a failed question again, as it does by default.
SPECIFICATION Spec
CONSTANTS
  q1 = q1
  q2 = q2
  q3 = q3
  Qid = {q1, q2, q3}
  Order <- MCOrder
  Selections = {{q1, q2, q3}}
  Restart = {FALSE}
  SkipRecorded = {FALSE}
  Continue = {TRUE, FALSE}
  SaveEvery = 2
  TokenBudget = 0
  Tokens = {1}
  Torn = Torn
INVARIANT SavesAreUnambiguous
CHECK_DEADLOCK FALSE
