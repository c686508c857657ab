---------------------------- MODULE MCAliasPicks ----------------------------
(***************************************************************************)
(* AliasPicks on small instances.                                          *)
(***************************************************************************)
EXTENDS AliasPicks, TLC

\* Requests are interchangeable, and so are targets.
Symmetry == Permutations(Requests) \cup Permutations(RuleTargets)
=============================================================================
