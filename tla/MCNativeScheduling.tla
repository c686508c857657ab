------------------------ MODULE MCNativeScheduling ------------------------
(* NativeScheduling for TLC: four credentials of two providers, the last   *)
(* of a lower priority, and the bindings that operators set.                *)
EXTENDS NativeScheduling, TLC

CONSTANTS p1, p2

MCAuths      == 1 .. 4
MCProviderOf == (1 :> p1) @@ (2 :> p1) @@ (3 :> p2) @@ (4 :> p2)
MCPriority   == (1 :> 1) @@ (2 :> 1) @@ (3 :> 1) @@ (4 :> 0)
MCOffers     == {{}, {1, 3}, {1, 2, 3, 4}, {4}}
MCRoutes     == {{p1}, {p1, p2}}

RotatingAll == [enabled |-> TRUE, roundRobin |-> TRUE, limited |-> FALSE,
              pool |-> 1 .. 4, providers |-> {p1, p2}]
MCSettings == {RotatingAll,
              [RotatingAll EXCEPT !.pool = {1, 2}, !.limited = TRUE],
              [RotatingAll EXCEPT !.providers = {p2}, !.roundRobin = FALSE],
              [RotatingAll EXCEPT !.enabled = FALSE]}

Symmetry == Permutations(Requests) \cup Permutations(Scopes)
=============================================================================
