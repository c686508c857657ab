----------------------------- MODULE MCPricing -----------------------------
(***************************************************************************)
(* Pricing on a small instance: the sources list one model, the target of  *)
(* the one alias, whose own name is the second id of the catalogue.        *)
(***************************************************************************)
EXTENDS Pricing, TLC

CONSTANTS m, f

MCIds == {m, f}
MCOneAlias == {f}
MCTargetOne == f :> m
MCListing(values) == {f :> Absent @@ m :> v : v \in values}
MCLiteAnswers == MCListing(Prices \cup {Zero, ImageRate, Absent}) \cup {Down}
MCDevAnswers == MCListing(Prices) \cup {Down}
MCFirstAliases ==
    {NoAlias} \cup {[manual |-> manual, perCall |-> FALSE, price |-> p] :
                      manual \in BOOLEAN, p \in Prices}
MCShadowed == {m}

Symmetry == Permutations(Prices)
=============================================================================
