------------------------- MODULE MCNativeBindings -------------------------
(* NativeBindings for TLC: what clients may know of the host, and symmetry. *)
EXTENDS NativeBindings, TLC

Full == [scopes |-> Scopes, auths |-> Auths, complete |-> TRUE]

\* Everything, no keys, no credentials.
MCCatalogs == {Full, [Full EXCEPT !.scopes = {}], [Full EXCEPT !.auths = {}]}
MCBatchTargets == {{a} : a \in Auths}

Symmetry == Permutations(Scopes) \cup Permutations(Auths)
=============================================================================
