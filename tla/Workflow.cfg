SPECIFICATION WorkflowSpec
CONSTANTS
  A = A
  B = B
  a1 = a1
  a2 = a2
  b1 = b1
  v1 = v1
  v2 = v2
  Option = {A, B}
  Atom = {a1, a2, b1}
  Value = {v1, v2}
  Atoms <- MCAtoms
  Rule <- MCRule
  MaxRounds = 2
  DryRunLabel = A
INVARIANTS
  WorkflowTypeOK
  VerdictsRestOnLatestEvidence
  ClosedVerdictsStand
  EmittedAnswerFollowsEvidence
PROPERTIES
  BudgetStopsAreFinal
  EveryQuestionEnds
