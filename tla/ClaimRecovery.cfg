SPECIFICATION ClaimSpec
CONSTANTS
  a1 = a1
  a2 = a2
  c1 = c1
  c2 = c2
  Atom = {a1, a2}
  Candidate = {c1, c2}
  Observations <- MCObservations
SYMMETRY MCSymmetry
INVARIANTS
  ConclusiveIsUncontested
  SafetyFailureStops
  RetrievalIsEarned
CHECK_DEADLOCK FALSE
