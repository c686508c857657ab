-------------------------- MODULE MCClassifyCache --------------------------
(***************************************************************************)
(* ClassifyCache on small instances.                                       *)
(***************************************************************************)
EXTENDS ClassifyCache, TLC

\* Picks are interchangeable, and so are candidates.
Symmetry == Permutations(Picks) \cup Permutations(Auths)
=============================================================================
