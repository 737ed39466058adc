\* Four runs of one identity: one may die, one report its lock, one take its
\* place and one come too late.
SPECIFICATION GuardSpec
CONSTANTS
  Run = {r1, r2, r3, r4}
  Pid = {p1, p2}
  Host = {h1, h2}
  Name = {n1, n2}
  Identity = {i1}
SYMMETRY MCSymmetry
INVARIANTS OneHolder StaleMeansDead
PROPERTY LocksOutliveOthers
CHECK_DEADLOCK FALSE
