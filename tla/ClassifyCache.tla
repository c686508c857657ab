--------------------------- MODULE ClassifyCache ---------------------------
(***************************************************************************)
(* The cache of credential groups in the scheduler                         *)
(* (internal/plugin/app.go candidateGroups) and the classify rules it is   *)
(* computed from (internal/policy/store.go).                               *)
(*                                                                         *)
(* A pick looks a candidate up under the read lock, computes its groups    *)
(* from a snapshot of the rules without any lock, and caches them.  A      *)
(* change of the rules publishes them, then clears the cache through a     *)
(* callback, then saves the state.  The rules are the groups they put each *)
(* candidate in, the built-in fallback included.                           *)
(***************************************************************************)
EXTENDS Naturals, FiniteSets

CONSTANTS
    Picks,     \* scheduler.pick calls, each about one candidate
    Auths,     \* candidates, as the cache tells them apart
    Groups,
    Capacity,  \* classifyCacheCapacity
    MaxChanges \* bound: publications of rules

ASSUME CapacityAssumption == Capacity \in Nat \ {0}
ASSUME ChangeBound == MaxChanges \in Nat

VARIABLES
    rules,   \* Store.classifyRules
    cache,   \* App.classifyCache: the groups of the candidates in it
    change,  \* updateMu: the step of the rule change under way
    reload,  \* configure has yet to clear the cache
    stage,   \* per pick
    auth,    \* per pick: its candidate
    answer,  \* per pick: the groups it goes by
    version, \* history: number of publications
    seen,    \* history, per pick: the version its groups were computed from
    raced    \* history: candidates cached after their rules were replaced

vars == <<rules, cache, change, reload, stage, auth, answer, version,
          seen, raced>>

RuleSets == [Auths -> SUBSET Groups]

Cached == DOMAIN cache

TypeOK ==
    /\ rules \in RuleSets
    /\ Cached \subseteq Auths
    /\ \A a \in Cached : cache[a] \in SUBSET Groups
    /\ Cardinality(Cached) <= Capacity
    /\ change \in {"none", "published", "cleared"}
    /\ reload \in BOOLEAN
    /\ stage \in [Picks -> {"idle", "missed", "computed", "answered"}]
    /\ auth \in [Picks -> Auths]
    /\ answer \in [Picks -> SUBSET Groups]
    /\ version \in 0 .. MaxChanges
    /\ seen \in [Picks -> 0 .. MaxChanges]
    /\ raced \in SUBSET Auths

Empty == [a \in {} |-> {}]

Init ==
    /\ rules \in RuleSets
    /\ cache = Empty
    /\ change = "none"
    /\ reload = FALSE
    /\ stage = [p \in Picks |-> "idle"]
    /\ auth \in [Picks -> Auths]
    /\ answer = [p \in Picks |-> {}]
    /\ version = 0
    /\ seen = [p \in Picks |-> 0]
    /\ raced = {}

-----------------------------------------------------------------------------
(***************************************************************************)
(* A broken variant; the specification does not use it.                    *)
(***************************************************************************)

\* A change that forgets the callback.
ClearNothing ==
    /\ change = "published"
    /\ change' = "cleared"
    /\ UNCHANGED <<rules, cache, reload, stage, auth, answer, version,
                   seen, raced>>

-----------------------------------------------------------------------------
\* A hit answers at once.
Look(p) ==
    /\ stage[p] = "idle"
    /\ IF auth[p] \notin Cached
       THEN /\ stage' = [stage EXCEPT ![p] = "missed"]
            /\ UNCHANGED answer
       ELSE /\ stage' = [stage EXCEPT ![p] = "answered"]
            /\ answer' = [answer EXCEPT ![p] = cache[auth[p]]]
    /\ UNCHANGED <<rules, cache, change, reload, auth, version, seen, raced>>

\* ClassifyRulesSnapshot and the evaluation of the rules.
Compute(p) ==
    /\ stage[p] = "missed"
    /\ stage' = [stage EXCEPT ![p] = "computed"]
    /\ answer' = [answer EXCEPT ![p] = rules[auth[p]]]
    /\ seen' = [seen EXCEPT ![p] = version]
    /\ UNCHANGED <<rules, cache, change, reload, auth, version, raced>>

Full == Cardinality(Cached) >= Capacity

\* A full cache is emptied, even if the candidate is in it by now.
Fill(p) ==
    LET a    == auth[p]
        kept == IF Full THEN Empty ELSE cache
    IN /\ stage[p] = "computed"
       /\ stage' = [stage EXCEPT ![p] = "answered"]
       /\ cache' = [b \in DOMAIN kept \cup {a} |->
                       IF b = a THEN answer[p] ELSE kept[b]]
       /\ raced' = IF seen[p] = version THEN raced \ {a} ELSE raced \cup {a}
       /\ UNCHANGED <<rules, change, reload, auth, answer, version, seen>>

\* The host asks again, about any candidate.
Again(p, a) ==
    /\ stage[p] = "answered"
    /\ stage' = [stage EXCEPT ![p] = "idle"]
    /\ auth' = [auth EXCEPT ![p] = a]
    /\ answer' = [answer EXCEPT ![p] = {}]
    /\ seen' = [seen EXCEPT ![p] = 0]
    /\ UNCHANGED <<rules, cache, change, reload, version, raced>>

-----------------------------------------------------------------------------
Publish(rs) ==
    /\ change = "none"
    /\ version < MaxChanges
    /\ version' = version + 1
    /\ rules' = rs

\* UpsertClassifyRule, DeleteClassifyRule, ReorderClassifyRules.
ChangeRules(rs) ==
    /\ Publish(rs)
    /\ change' = "published"
    /\ UNCHANGED <<cache, reload, stage, auth, answer, seen, raced>>

\* callClassifyRulesChanged.
ClearCache ==
    /\ change = "published"
    /\ change' = "cleared"
    /\ cache' = Empty
    /\ raced' = {}
    /\ UNCHANGED <<rules, reload, stage, auth, answer, version, seen>>

\* saveState, then the client is answered; the rules stay when it fails.
Saved ==
    /\ change = "cleared"
    /\ change' = "none"
    /\ UNCHANGED <<rules, cache, reload, stage, auth, answer, version,
                   seen, raced>>

\* configure: the store publishes what it loads, and once updateMu is free
\* again the cache is cleared.
Configure(rs) ==
    /\ ~reload
    /\ Publish(rs)
    /\ reload' = TRUE
    /\ UNCHANGED <<cache, change, stage, auth, answer, seen, raced>>

ConfigureClears ==
    /\ reload
    /\ reload' = FALSE
    /\ cache' = Empty
    /\ raced' = {}
    /\ UNCHANGED <<rules, change, stage, auth, answer, version, seen>>

Next ==
    \/ \E p \in Picks :
           Look(p) \/ Compute(p) \/ Fill(p) \/ \E a \in Auths : Again(p, a)
    \/ \E rs \in RuleSets : ChangeRules(rs) \/ Configure(rs)
    \/ ClearCache \/ Saved \/ ConfigureClears

Spec == Init /\ [][Next]_vars

-----------------------------------------------------------------------------
(* Properties.                                                             *)

\* README.md:79: "the plugin scheduler only picks auth files in that group".
\* Once a rule change has cleared the cache, an entry disagrees with the rules
\* only if a pick computed it from older rules and stored it after the change
\* was published: no other order of the steps leaves a stale entry.
StaleOnlyByRace ==
    change # "published" /\ ~reload =>
        \A a \in Cached : cache[a] # rules[a] => a \in raced
=============================================================================
