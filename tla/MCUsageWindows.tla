--------------------------- MODULE MCUsageWindows ---------------------------
(***************************************************************************)
(* UsageWindows on small instances.                                        *)
(***************************************************************************)
EXTENDS UsageWindows, TLC

\* Charges and aliases are interchangeable.
Symmetry == Permutations(Charges) \cup Permutations(Aliases)
=============================================================================
