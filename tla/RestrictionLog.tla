-------------------------- MODULE RestrictionLog --------------------------
(***************************************************************************)
(* What an operator who restricts the credentials of host keys may rely    *)
(* on: a table of restrictions and a log of operations.  An operation      *)
(* gives restrictions to several keys in one step and remembers, in the    *)
(* same step, what it took from each key that it changed.  A restore is an *)
(* operation that gives back what another one took, to all of its keys.    *)
(* What is in force is the table, or the table before its last step.       *)
(***************************************************************************)
CONSTANTS Scopes, Restrictions, None

VARIABLES
    table,  \* the restriction of each key, None if it has none
    log,    \* the operations that can be restored
    live    \* the table in force

vars == <<table, log, live>>

Tables == [Scopes -> Restrictions \cup {None}]

Init ==
    /\ table \in Tables
    /\ log = {}
    /\ live = table

\* A single edit is about one key, or moves a restriction to another.  It is
\* not logged.
Edit ==
    /\ live = table
    /\ table' \in Tables
    /\ \E s, t \in Scopes : \A r \in Scopes \ {s, t} : table'[r] = table[r]
    /\ UNCHANGED <<log, live>>

\* The keys in the domain of target get its restrictions; an identity is never
\* used again while it is in the log, and old operations may leave it.
Operation(target) ==
    LET changed == {s \in DOMAIN target : table[s] # target[s]}
    IN  /\ live = table
        /\ table' = [s \in Scopes |-> IF s \in DOMAIN target THEN target[s]
                                      ELSE table[s]]
        /\ \E new \in log' :
              /\ log' \ {new} \subseteq log
              /\ \A o \in log : o.id # new.id
              /\ new.took = [s \in changed |-> table[s]]
        /\ UNCHANGED live

Batch ==
    \E keys \in SUBSET Scopes, r \in Restrictions : Operation([s \in keys |-> r])

Restore == \E o \in log : Operation(o.took)

Publish ==
    /\ live' = table
    /\ UNCHANGED <<table, log>>

Next == Edit \/ Batch \/ Restore \/ Publish

Spec == Init /\ [][Next]_vars
=============================================================================
