---------------------------- MODULE MCQuotaGate ----------------------------
(***************************************************************************)
(* QuotaGate on small instances: an additive and a subset provider, rates  *)
(* with and without cache prices, hits within and beyond the input.        *)
(***************************************************************************)
EXTENDS QuotaGate, TLC

Sheet(input, output, read, write) ==
    [input |-> input, output |-> output, read |-> read, write |-> write]
Rule(mode, provider, sheet, perCall) ==
    [mode |-> mode, provider |-> provider, sheet |-> sheet, perCall |-> perCall]
Detail(input, output, read, cached, written) ==
    [input |-> input, output |-> output, read |-> read, cached |-> cached,
     written |-> written]

MCRows ==
    {[provider |-> "claude", sheet |-> Sheet(1, 2, 0, 2)],
     [provider |-> "openai", sheet |-> Sheet(2, 1, 1, 3)]}
MCRules ==
    {Rule("tokens", "claude", Sheet(1, 1, 0, 2), 0),
     Rule("tokens", "openai", Sheet(0, 0, 0, 0), 0),
     Rule("per_call", "openai", Sheet(0, 0, 0, 0), 1)}
MCDetails ==
    {Detail(1, 0, 2, 2, 1), Detail(2, 1, 0, 1, 0), Detail(0, 1, 0, 1, 2),
     Detail(0, 0, 2, 0, 1)}

\* The largest bill: the bound is met.
MCMaxBill ==
    Max({ComputeCacheCost(p, sheet, detail) :
             p \in {"claude", "other"}, sheet \in Sheets, detail \in Details}
        \cup {price.perCall : price \in Rules})

Symmetry == Permutations(Requests)
=============================================================================
