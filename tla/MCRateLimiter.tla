--------------------------- MODULE MCRateLimiter ---------------------------
(***************************************************************************)
(* RateLimiter on small instances.                                         *)
(***************************************************************************)
EXTENDS RateLimiter, TLC

\* Requests are interchangeable.
Symmetry == Permutations(Requests)
=============================================================================
