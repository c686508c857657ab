--------------------------- MODULE NativeLedger ---------------------------
(***************************************************************************)
(* What the store promises about the spend of native-key bindings: a       *)
(* ledger that is charged, a stored copy that lags behind it, a reset that *)
(* empties both at once, and a restart that falls back to the copy.        *)
(***************************************************************************)
CONSTANTS Scopes, Requests

VARIABLES
    live,    \* requests billed to each account in its current period
    stored,  \* the part of live that would survive a restart
    billed   \* requests that have ever been billed

vars == <<live, stored, billed>>

Spend == [Scopes -> SUBSET Requests]

Init ==
    /\ live = [a \in Scopes |-> {}]
    /\ stored = [a \in Scopes |-> {}]
    /\ billed = {}

\* A request is billed at most once, to one account (or to none of these).
Charge ==
    \E r \in Requests \ billed :
        /\ billed' = billed \cup {r}
        /\ \/ live' = live
           \/ \E a \in Scopes : live' = [live EXCEPT ![a] = @ \cup {r}]
        /\ stored' = stored

\* The stored copy becomes some earlier state of the ledger: it never holds
\* more than the ledger.
Store ==
    /\ stored' \in Spend
    /\ \A a \in Scopes : stored'[a] \subseteq live[a]
    /\ UNCHANGED <<live, billed>>

\* The accounts in A start afresh, live and stored together; the others keep
\* their spend and are stored with it.
Reset ==
    \E A \in SUBSET Scopes :
        /\ live' = [a \in Scopes |-> IF a \in A THEN {} ELSE live[a]]
        /\ stored' = live'
        /\ billed' = billed

\* A restart or a reconfiguration reads the stored copy back.
Reload ==
    /\ live' = stored
    /\ UNCHANGED <<stored, billed>>

Next == Charge \/ Store \/ Reset \/ Reload

Spec == Init /\ [][Next]_vars
=============================================================================
