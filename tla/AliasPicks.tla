----------------------------- MODULE AliasPicks -----------------------------
(***************************************************************************)
(* How the target of a multi-target alias travels from Authenticate to     *)
(* Route (internal/policy/store.go), for one key and one alias.            *)
(*                                                                         *)
(* The host calls Authenticate, which selects a target, stamps its group   *)
(* into the request and remembers the target; then Route, which takes the  *)
(* oldest remembered target or selects one itself; and for a response that *)
(* is not streamed ResponseAlias, which is Route once more.  Each call     *)
(* copies the rules of the key before it takes the lock that guards        *)
(* pendingPicks and rrCounters.                                            *)
(***************************************************************************)
EXTENDS Naturals, Sequences, FiniteSets

CONSTANTS
    Requests,
    RuleTargets,
    NoTarget,
    MaxQueue,  \* pendingPickMaxQueue
    TTL,       \* pendingPickTTL in ticks
    MaxTime,   \* bound on the clock
    MaxChanges \* bound: configuration changes

ASSUME NoTargetAssumption == NoTarget \notin RuleTargets
ASSUME QueueAssumption == MaxQueue \in Nat \ {0}
ASSUME TTLAssumption == TTL \in Nat
ASSUME TimeBound == MaxTime \in Nat
ASSUME ChangeBound == MaxChanges \in Nat

VARIABLES
    rules,    \* the targets of the alias for this key, in order
    dispatch, \* the dispatch mode of the alias
    counter,  \* rrCounters of the alias
    queue,    \* pendingPicks: what Authenticate selected, oldest first
    clock,
    stage,    \* per request: how far it is
    copy,     \* per request: the rules its current call works with
    auth,     \* per request: the target whose group is in its metadata
    routed,   \* per request: the target it is forwarded to
    used,     \* history: requests whose pick has been taken
    calm,     \* history: requests came one at a time, undisturbed
    changes   \* number of configuration changes

pickVars == <<rules, dispatch, counter, queue, clock, stage, copy, auth,
             routed, used, calm, changes>>

RuleLists == {<<>>} \cup {<<t>> : t \in RuleTargets}
             \cup {p \in RuleTargets \X RuleTargets : p[1] # p[2]}

\* Stages in which a request is between two steps of a call, or between
\* Authenticate and Route.
UnderWay == {"found", "selected", "authed", "routing", "resolving",
             "answering", "reanswering"}

PicksInit ==
    /\ rules \in RuleLists
    /\ dispatch \in {"priority", "round-robin"}
    /\ counter = 0
    /\ queue = <<>>
    /\ clock = 0
    /\ stage = [r \in Requests |-> "idle"]
    /\ copy = [r \in Requests |-> <<>>]
    /\ auth = [r \in Requests |-> NoTarget]
    /\ routed = [r \in Requests |-> NoTarget]
    /\ used = {}
    /\ calm = TRUE
    /\ changes = 0

-----------------------------------------------------------------------------
(***************************************************************************)
(* A broken variant; the specification does not use it.                    *)
(***************************************************************************)

\* A pick that stays in the queue when it is taken.
TakenLeft(q) == q

-----------------------------------------------------------------------------
Active(r) == stage[r] \in UnderWay

Alone(r) == \A q \in Requests \ {r} : ~Active(q)

Move(r, to) ==
    /\ stage' = [stage EXCEPT ![r] = to]
    /\ calm' = (calm /\ Alone(r) /\ to # "gone")

Capped(q) == IF Len(q) > MaxQueue THEN SubSeq(q, Len(q) - MaxQueue + 1, Len(q)) ELSE q

Taken(q) == Tail(q)

Fresh(p) == clock <= p.at + TTL

\* The picks at the head of the queue, up to the first that is fresh.
Expired == {i \in DOMAIN queue : \A j \in 1 .. i : ~Fresh(queue[j])}

\* prunePendingLocked
Pruned == SubSeq(queue, Cardinality(Expired) + 1, Len(queue))

\* resolveRuleForAlias with the rules in rs: a single target needs no lock,
\* priority takes the first, round robin rotates the counter of the alias.
Rotates(rs) == Len(rs) > 1 /\ dispatch = "round-robin"

Selected(rs) == IF Rotates(rs) THEN rs[counter + 1] ELSE rs[1]

Rotate(rs) == counter' = IF Rotates(rs) THEN (counter + 1) % Len(rs) ELSE counter

\* Authenticate finds the key; without the alias the request is refused.
Lookup(r) ==
    /\ stage[r] = "idle"
    /\ Move(r, IF rules = <<>> THEN "denied" ELSE "found")
    /\ copy' = [copy EXCEPT ![r] = rules]
    /\ UNCHANGED <<rules, dispatch, counter, queue, clock, auth, routed, used,
                   changes>>

Select(r) ==
    /\ stage[r] = "found"
    /\ Move(r, "selected")
    /\ auth' = [auth EXCEPT ![r] = Selected(copy[r])]
    /\ Rotate(copy[r])
    /\ UNCHANGED <<rules, dispatch, queue, clock, copy, routed, used,
                   changes>>

\* Over the rate or the cost limit.
Limited(r) ==
    /\ stage[r] = "selected"
    /\ Move(r, "denied")
    /\ UNCHANGED <<rules, dispatch, counter, queue, clock, copy, auth, routed,
                   used, changes>>

\* rememberPick.
RememberPick(r) ==
    /\ stage[r] = "selected"
    /\ Move(r, "authed")
    /\ queue' = Capped(Append(Pruned, [rule |-> auth[r], at |-> clock, by |-> r]))
    /\ UNCHANGED <<rules, dispatch, counter, clock, copy, auth, routed, used,
                   changes>>

\* The host rejects the request after authentication, or the client is gone.
Abandon(r) ==
    /\ stage[r] = "authed"
    /\ Move(r, "gone")
    /\ UNCHANGED <<rules, dispatch, counter, queue, clock, copy, auth, routed,
                   used, changes>>

\* Route, and ResponseAlias after it, find the key again.
RouteLookup(r) ==
    /\ \/ stage[r] = "authed" /\ Move(r, "routing")
       \/ stage[r] = "routed" /\ Move(r, "answering")
    /\ copy' = [copy EXCEPT ![r] = rules]
    /\ UNCHANGED <<rules, dispatch, counter, queue, clock, auth, routed, used,
                   changes>>

\* takePick: a response only needs the name of the alias.
TakePick(r) ==
    /\ stage[r] \in {"routing", "answering"}
    /\ IF Pruned = <<>>
       THEN /\ Move(r, IF stage[r] = "routing" THEN "resolving" ELSE "reanswering")
            /\ queue' = <<>>
            /\ UNCHANGED <<routed, used>>
       ELSE /\ Move(r, IF stage[r] = "routing" THEN "routed" ELSE "answered")
            /\ queue' = Taken(Pruned)
            /\ used' = used \cup {Head(Pruned).by}
            /\ routed' = [routed EXCEPT ![r] =
                             IF stage[r] = "routing" THEN Head(Pruned).rule ELSE @]
    /\ UNCHANGED <<rules, dispatch, counter, clock, copy, auth, changes>>

\* Nothing pending: Route selects for itself, and so does ResponseAlias.
RouteResolve(r) ==
    /\ stage[r] \in {"resolving", "reanswering"}
    /\ IF copy[r] = <<>>
       THEN /\ Move(r, "gone")
            /\ UNCHANGED <<counter, routed>>
       ELSE /\ Move(r, IF stage[r] = "resolving" THEN "routed" ELSE "answered")
            /\ Rotate(copy[r])
            /\ routed' = [routed EXCEPT ![r] =
                 IF stage[r] = "resolving" THEN Selected(copy[r]) ELSE @]
    /\ UNCHANGED <<rules, dispatch, queue, clock, copy, auth, used,
                   changes>>

-----------------------------------------------------------------------------
Change ==
    /\ changes < MaxChanges
    /\ changes' = changes + 1
    /\ calm' = (calm /\ \A r \in Requests : ~Active(r))

\* UpsertKey drops the pending picks of the key.
UpsertKey(rs) ==
    /\ Change
    /\ rules' = rs
    /\ queue' = <<>>
    /\ UNCHANGED <<dispatch, counter, clock, stage, copy, auth, routed, used>>

\* UpsertAlias does not.
UpsertAliasRules(rs, d) ==
    /\ Change
    /\ rules' = rs
    /\ dispatch' = d
    /\ UNCHANGED <<counter, queue, clock, stage, copy, auth, routed, used>>

\* Configure starts with empty picks and counters.
Configure(rs, d) ==
    /\ Change
    /\ rules' = rs
    /\ dispatch' = d
    /\ counter' = 0
    /\ queue' = <<>>
    /\ UNCHANGED <<clock, stage, copy, auth, routed, used>>

Tick ==
    /\ clock < MaxTime
    /\ clock' = clock + 1
    /\ calm' = (calm /\ \A i \in DOMAIN queue : clock' <= queue[i].at + TTL)
    /\ UNCHANGED <<rules, dispatch, counter, queue, stage, copy, auth, routed,
                   used, changes>>

Call(r) ==
    \/ Lookup(r) \/ Select(r) \/ Limited(r) \/ RememberPick(r) \/ Abandon(r)
    \/ RouteLookup(r) \/ TakePick(r) \/ RouteResolve(r)

PicksNext ==
    \/ \E r \in Requests : Call(r)
    \/ \E rs \in RuleLists : UpsertKey(rs)
    \/ \E rs \in RuleLists, d \in {"priority", "round-robin"} :
           UpsertAliasRules(rs, d) \/ Configure(rs, d)
    \/ Tick

PicksSpec == PicksInit /\ [][PicksNext]_pickVars

-----------------------------------------------------------------------------
(* Properties.                                                             *)

\* No pick serves two calls: the pending picks belong to different requests,
\* and none of them has been taken before.
PickUsedOnce ==
    \A i \in DOMAIN queue :
        /\ queue[i].by \notin used
        /\ \A j \in DOMAIN queue : i # j => queue[i].by # queue[j].by

\* README.md:68: "auth and routing share one pick per request so the group
\* filter matches the chosen target".  Requests that come one at a time, are
\* not abandoned, are routed before their pick expires and see no configuration
\* change in between are forwarded to the target whose group Authenticate
\* stamped into them.
SharedWhenAlone ==
    calm => \A r \in Requests : routed[r] \in {auth[r], NoTarget}

\* README.md:68 again, as it stands, for requests of one key and alias that
\* overlap while nothing is changed, abandoned or old enough to expire: each
\* is forwarded to the target it was authenticated for.
RoutedAsAuthenticated ==
    changes = 0 /\ clock = 0 /\ (\A r \in Requests : stage[r] # "gone") =>
        \A r \in Requests : routed[r] \in {auth[r], NoTarget}
=============================================================================
