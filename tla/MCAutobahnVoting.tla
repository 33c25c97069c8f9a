-------------------------- MODULE MCAutobahnVoting --------------------------
(***************************************************************************)
(* Symmetry for TLC: honest replicas of equal weight are interchangeable,  *)
(* and so are the values.                                                  *)
(***************************************************************************)
EXTENDS AutobahnVoting, TLC

Symmetry == Permutations(Honest) \cup Permutations(Values)
=============================================================================
