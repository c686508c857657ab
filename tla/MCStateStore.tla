--------------------------- MODULE MCStateStore ---------------------------
(***************************************************************************)
(* StateStore on small instances.                                          *)
(***************************************************************************)
EXTENDS StateStore, TLC

\* Requests and scopes are interchangeable among themselves.
Symmetry == Permutations(Requests) \cup Permutations(Scopes)
=============================================================================
