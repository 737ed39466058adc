-------------------------- MODULE MCSingleRunGuard --------------------------
(* Small instances of SingleRunGuard.  Two pids on two hosts, so that pids *)
(* are reused; two names, so that the hosts may share one or one host have *)
(* two.  Nothing tells the elements of one set apart.                      *)
EXTENDS SingleRunGuard, TLC

MCSymmetry ==
  Permutations(Run) \cup Permutations(Pid) \cup Permutations(Host)
    \cup Permutations(Name) \cup Permutations(Identity)
=============================================================================
