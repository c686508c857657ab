-------------------------- MODULE MCPolicyTables --------------------------
(***************************************************************************)
(* PolicyTables on small instances.                                        *)
(***************************************************************************)
EXTENDS PolicyTables, TLC

\* Interchangeable among themselves, aliases if none is in config.yaml.
Symmetry ==
    Permutations(Keys) \cup Permutations(Secrets)
        \cup Permutations(Aliases) \cup Permutations(Targets)
=============================================================================
