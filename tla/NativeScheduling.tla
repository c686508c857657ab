------------------------- MODULE NativeScheduling -------------------------
(***************************************************************************)
(* scheduler.pick for requests that carry the scope of a native key        *)
(* (internal/plugin/app.go, pickScheduler), the gate before it             *)
(* (internal/policy/native_quota.go), and the rotation of credentials with *)
(* its bounded table of cursors (internal/plugin/native_round_robin.go),   *)
(* while bindings change and the plugin is reconfigured.                   *)
(*                                                                         *)
(* A pick reads the configuration, the binding and, at the gate, the       *)
(* binding again, each under a lock of its own, and works on copies.  A    *)
(* change of bindings publishes and then prunes the cursors, both under  *)
(* updateMu; a reconfiguration clears them after it has let updateMu go.   *)
(*                                                                         *)
(* One model name; a binding allows it for some providers.  Credentials    *)
(* are numbers, ordered as their ids are.  A group is its credentials      *)
(* (ClassifyCache has the rest), a quota is spent or not (RateLimiter and  *)
(* UsageWindows have the rest).                                            *)
(***************************************************************************)
EXTENDS Naturals, FiniteSets

CONSTANTS
    Requests,   \* picks that can be under way at the same time
    Scopes,     \* scopes of native keys
    Providers,  \* providers
    Routes,     \* sets of providers that requests are for
    Auths,      \* credentials
    Offers,     \* sets of candidates that the host offers
    ProviderOf, \* the provider of each
    Priority,   \* the priority the host gives each
    Settings,   \* bindings that operators set
    Unbound,    \* no binding, no constraint
    Capacity,   \* nativeRoundRobinCapacity
    MaxChanges  \* bound: changes of bindings, configuration and spend

ASSUME AuthAssumption == Auths \subseteq Nat \ {0}
ASSUME RouteAssumption == Routes \subseteq SUBSET Providers
ASSUME OfferAssumption == Offers \subseteq SUBSET Auths
ASSUME HostAssumption ==
    ProviderOf \in [Auths -> Providers] /\ Priority \in [Auths -> Nat]
ASSUME SettingAssumption ==
    Settings \subseteq [enabled : BOOLEAN, roundRobin : BOOLEAN, limited : BOOLEAN,
                       pool : (SUBSET Auths) \ {{}}, providers : SUBSET Providers]
ASSUME CapacityAssumption == Capacity \in Nat \ {0}

VARIABLES
    enabled,    \* Store.enabled
    bindings,   \* Store.nativeKeyBindingsByScope
    spent,      \* per scope: a quota, if there is one, is used up
    pending,    \* "prune": updateMu is held until the cursors are pruned;
                \* "clear": a reconfiguration is yet to clear them
    cursors,    \* nativeRoundRobinState.cursors: key |-> last id, 0 at first
    recent,     \* nativeRoundRobinState.recent, the list as an order: <<k, j>> if
                \* it holds k and j, and k is j or comes before it
    pc,         \* per pick: its next step
    asks,       \* per pick: what the host asks for
    constraint, \* per pick: its copy of the binding
    answer,     \* per pick: what it answered last
    versions,   \* history: per pick, all that was in force since it began
    waiting,    \* history: per cursor and credential, what was eligible in
                \* every pick since that credential was picked, and not picked
    revived,    \* history: cursors that a pick wrote with a copy of a binding
                \* that no longer has them
    changes     \* number of changes

vars == <<enabled, bindings, spent, pending, cursors, recent, pc, asks,
          constraint, answer, versions, waiting, revived, changes>>

CursorKeys == Scopes \X Routes

Ask == [scope : Scopes, route : Routes, candidates : Offers]

NoAsk == [scope |-> "", route |-> {}, candidates |-> {}]

\* What is in force for a scope.
InForce(s) == [enabled |-> enabled, binding |-> bindings[s], spent |-> spent[s]]

\* Every pick under way sees what comes into force.
Observe ==
    versions' = [r \in Requests |->
                   IF pc[r] = "idle" THEN {}
                   ELSE versions[r] \cup
                        {[enabled |-> enabled', binding |-> bindings'[asks[r].scope],
                          spent |-> spent'[asks[r].scope]]}]

-----------------------------------------------------------------------------
(* Authorization                                                           *)

Bound(b) == b # Unbound /\ b.enabled

\* NativeKeyConstraint.AllowsModel for the providers of a route; a request
\* that names none is allowed if any provider is.
AllowsRoute(b, route) ==
    IF route = {} THEN b.providers # {} ELSE route \cap b.providers # {}

\* A broken variant, unused: only the request as a whole is checked.
MatchedByRoute(b, ask) == ask.candidates \cap b.pool

\* The candidates a binding allows, each checked for its own provider.
Matched(b, ask) ==
    {a \in ask.candidates \cap b.pool : ProviderOf[a] \in b.providers}

\* Those of the highest priority.
Best(matched) ==
    {a \in matched : \A c \in matched : Priority[c] <= Priority[a]}

-----------------------------------------------------------------------------
(* Rotation                                                                *)

\* The cursors of bindings that rotate and still allow the route.
Rotating ==
    {k \in CursorKeys : /\ Bound(bindings[k[1]])
                        /\ bindings[k[1]].roundRobin
                        /\ AllowsRoute(bindings[k[1]], k[2])}

\* A broken variant, unused: the cursors of every binding stay.
BoundCursors == {k \in CursorKeys : Bound(bindings[k[1]])}

\* What pruneNativeRoundRobin leaves alone.
PruneKeeps == Rotating

LowestOf(ids) == CHOOSE a \in ids : \A c \in ids : a <= c

\* A broken variant, unused: the rotation keeps a position and not an id.
NextPosition(ids, last) ==
    LET after == {a \in ids : Cardinality({c \in ids : c <= a}) > last}
    IN  IF after # {} THEN LowestOf(after) ELSE LowestOf(ids)

\* The next id after the last one, and the first after the highest.
NextId(ids, last) ==
    IF \E a \in ids : a > last THEN LowestOf({a \in ids : a > last})
                               ELSE LowestOf(ids)

\* The cursors the list holds, and the one at its back.
Listed == {k \in CursorKeys : <<k, k>> \in recent}

Back == {k \in Listed : \A j \in Listed : <<j, k>> \in recent}

\* The cursor that has to go when the table is full.
Evicted(key) ==
    IF key \notin DOMAIN cursors /\ Cardinality(DOMAIN cursors) >= Capacity
    THEN Back ELSE {}

\* The list without the evicted cursor and with this one in front.
Touched(key) ==
    LET rest == Listed \ (Evicted(key) \cup {key})
    IN  (recent \cap (rest \X rest)) \cup ({key} \X (rest \cup {key}))

NoWait == [a \in Auths |-> {}]

\* pickNativeRoundRobin, and what each credential is then still waiting for.
Rotate(key, ids) ==
    LET last == IF key \in DOMAIN cursors THEN cursors[key] ELSE 0
        next == NextId(ids, last)
        keep == (DOMAIN cursors \ Evicted(key)) \cup {key}
    IN  /\ cursors' = [k \in keep |-> IF k = key THEN next ELSE cursors[k]]
        /\ recent'  = Touched(key)
        /\ waiting' = [k \in CursorKeys |->
             IF k = key
             THEN [a \in Auths |-> (IF a = next THEN ids ELSE waiting[k][a] \cap ids)
                                     \ {next}]
             ELSE IF k \in Evicted(key) THEN NoWait ELSE waiting[k]]
        /\ revived' = (revived \cap keep) \cup ({key} \ Rotating)

\* Keep the cursors of a set of keys.
KeepCursors(keys) ==
    /\ cursors' = [k \in DOMAIN cursors \cap keys |-> cursors[k]]
    /\ recent'  = recent \cap (keys \X keys)
    /\ waiting' = [k \in CursorKeys |->
                     IF k \in keys THEN waiting[k] ELSE NoWait]
    /\ revived' = revived \cap keys

-----------------------------------------------------------------------------
(* Picks                                                                   *)

Begin(r) ==
    /\ pc[r] = "idle"
    /\ \E ask \in Ask :
          /\ asks' = [asks EXCEPT ![r] = ask]
          /\ versions' = [versions EXCEPT ![r] = {InForce(ask.scope)}]
    /\ pc' = [pc EXCEPT ![r] = "enabled"]
    /\ UNCHANGED <<enabled, bindings, spent, pending, cursors, recent,
                   constraint, answer, waiting, revived, changes>>

Answer(r, kind, auth) ==
    /\ answer' = [answer EXCEPT ![r] = [kind |-> kind, auth |-> auth]]
    /\ pc'     = [pc EXCEPT ![r] = "done"]

\* A plugin that is switched off leaves the pick to the host.
CheckEnabled(r) ==
    /\ pc[r] = "enabled"
    /\ IF enabled
       THEN pc' = [pc EXCEPT ![r] = "resolve"] /\ UNCHANGED answer
       ELSE Answer(r, "defer", 0)
    /\ UNCHANGED <<enabled, bindings, spent, pending, cursors, recent, asks,
                   constraint, versions, waiting, revived, changes>>

\* ResolveNativeKeyConstraint, schedulerRequestModelAllowed
Resolve(r) ==
    /\ pc[r] = "resolve"
    /\ LET b == bindings[asks[r].scope]
       IN  /\ constraint' = [constraint EXCEPT ![r] = IF Bound(b) THEN b ELSE Unbound]
           /\ IF ~Bound(b) THEN Answer(r, "defer", 0)
              ELSE IF ~AllowsRoute(b, asks[r].route)
                   THEN Answer(r, "model_not_allowed", 0)
                   ELSE pc' = [pc EXCEPT ![r] = "gate"] /\ UNCHANGED answer
    /\ UNCHANGED <<enabled, bindings, spent, pending, cursors, recent, asks,
                   versions, waiting, revived, changes>>

\* CheckNativeKeyQuota, which looks the binding up again.
Limited(b, s) == Bound(b) /\ b.limited /\ spent[s]

Gate(r) ==
    /\ pc[r] = "gate"
    /\ IF Limited(bindings[asks[r].scope], asks[r].scope)
       THEN Answer(r, "limited", 0)
       ELSE pc' = [pc EXCEPT ![r] = "choose"] /\ UNCHANGED answer
    /\ UNCHANGED <<enabled, bindings, spent, pending, cursors, recent, asks,
                   constraint, versions, waiting, revived, changes>>

\* A broken variant, unused: without candidates the host is to choose.
DeferWithoutAny(ask) ==
    IF ask.candidates = {} THEN "defer" ELSE "auth_not_found"

\* Bound keys fail closed.
NoCandidate(ask) == "auth_not_found"

\* Matching and choosing, from the copy of the binding; with the rotation
\* switched off the lowest id wins.
Choose(r) ==
    /\ pc[r] = "choose"
    /\ LET best == Best(Matched(constraint[r], asks[r]))
           key  == <<asks[r].scope, asks[r].route>>
       IN  IF best = {}
           THEN /\ Answer(r, NoCandidate(asks[r]), 0)
                /\ UNCHANGED <<cursors, recent, waiting, revived>>
           ELSE IF constraint[r].roundRobin
                THEN /\ Rotate(key, best)
                     /\ Answer(r, "auth", cursors'[key])
                ELSE /\ Answer(r, "auth", LowestOf(best))
                     /\ UNCHANGED <<cursors, recent, waiting, revived>>
    /\ UNCHANGED <<enabled, bindings, spent, pending, asks, constraint,
                   versions, changes>>

Return(r) ==
    /\ pc[r] = "done"
    /\ pc'         = [pc EXCEPT ![r] = "idle"]
    /\ versions'   = [versions EXCEPT ![r] = {}]
    /\ asks'       = [asks EXCEPT ![r] = NoAsk]
    /\ constraint' = [constraint EXCEPT ![r] = Unbound]
    /\ answer'     = [answer EXCEPT ![r] = [kind |-> "none", auth |-> 0]]
    /\ UNCHANGED <<enabled, bindings, spent, pending, cursors, recent,
                   waiting, revived, changes>>

-----------------------------------------------------------------------------
(* Mutations                                                               *)

Change ==
    /\ changes < MaxChanges
    /\ changes' = changes + 1

\* A binding is created, edited, rotated or deleted, already saved.
ChangeBinding ==
    /\ Change
    /\ "prune" \notin pending
    /\ \E s \in Scopes, b \in Settings \cup {Unbound} :
          /\ b # bindings[s]
          /\ bindings' = [bindings EXCEPT ![s] = b]
    /\ pending' = pending \cup {"prune"}
    /\ UNCHANGED <<enabled, spent, cursors, recent, pc, asks, constraint, answer,
                   waiting, revived>>
    /\ Observe

\* onNativeKeyBindingsChanged, still under updateMu
Prune ==
    /\ "prune" \in pending
    /\ KeepCursors(PruneKeeps)
    /\ pending' = pending \ {"prune"}
    /\ UNCHANGED <<enabled, bindings, spent, pc, asks, constraint, answer,
                   versions, changes>>

\* Store.Configure switches the plugin on or off.
Configure ==
    /\ Change
    /\ pending = {}
    /\ enabled'  = ~enabled
    /\ pending' = pending \cup {"clear"}
    /\ UNCHANGED <<bindings, spent, cursors, recent, pc, asks, constraint, answer,
                   waiting, revived>>
    /\ Observe

\* clearNativeRoundRobin, after it
ConfigureClears ==
    /\ "clear" \in pending
    /\ KeepCursors({})
    /\ pending' = pending \ {"clear"}
    /\ UNCHANGED <<enabled, bindings, spent, pc, asks, constraint, answer,
                   versions, changes>>

\* Requests use a quota up, a reset or the next window gives it back.
ChangeSpent ==
    /\ Change
    /\ \E s \in Scopes : spent' = [spent EXCEPT ![s] = ~spent[s]]
    /\ UNCHANGED <<enabled, bindings, pending, cursors, recent, pc, asks,
                   constraint, answer, waiting, revived>>
    /\ Observe

Init ==
    /\ enabled    = TRUE
    /\ bindings   \in [Scopes -> Settings]
    /\ spent      = [s \in Scopes |-> FALSE]
    /\ pending    = {}
    /\ cursors    = [k \in {} |-> 0]
    /\ recent     = {}
    /\ pc         = [r \in Requests |-> "idle"]
    /\ asks       = [r \in Requests |-> NoAsk]
    /\ constraint = [r \in Requests |-> Unbound]
    /\ answer     = [r \in Requests |-> [kind |-> "none", auth |-> 0]]
    /\ versions   = [r \in Requests |-> {}]
    /\ waiting    = [k \in CursorKeys |-> NoWait]
    /\ revived    = {}
    /\ changes    = 0

Pick(r) == Begin(r) \/ CheckEnabled(r) \/ Resolve(r) \/ Gate(r) \/ Choose(r) \/ Return(r)

Next ==
    \/ \E r \in Requests : Pick(r)
    \/ ChangeBinding
    \/ Prune
    \/ Configure
    \/ ConfigureClears
    \/ ChangeSpent

Spec == Init /\ [][Next]_vars

-----------------------------------------------------------------------------
(* Properties                                                              *)

\* Rotation is fair under changing candidates: between two picks of one
\* credential by one cursor, every credential that was eligible in every pick
\* in between has been picked (native_round_robin.go:55, README.md:212).
FairRotation ==
    [][\A r \in Requests :
         /\ pc[r] = "choose"
         /\ pc'[r] = "done"
         /\ answer'[r].kind = "auth"
         /\ constraint[r].roundRobin
         => LET key  == <<asks[r].scope, asks[r].route>>
                best == Best(Matched(constraint[r], asks[r]))
            IN  waiting[key][answer'[r].auth] \cap best
                  \subseteq {answer'[r].auth}]_vars

\* A credential is answered only if a binding that was in force during the
\* pick allows it, in its pool and for its provider; and only if at some
\* moment of the pick the key was not over its quota.
PickAuthorized ==
    \A r \in Requests :
       answer[r].kind = "auth" =>
         /\ answer[r].auth \in asks[r].candidates
         /\ \E v \in versions[r] :
               /\ Bound(v.binding)
               /\ answer[r].auth \in v.binding.pool
               /\ ProviderOf[answer[r].auth] \in v.binding.providers
         /\ \E v \in versions[r] :
               ~(Bound(v.binding) /\ v.binding.limited /\ v.spent)

\* A bound key is never handed back to the host's unrestricted choice, unless
\* the plugin was off or the key unbound at some moment of the pick
\* (README.md:214).
NeverDelegated ==
    \A r \in Requests :
       answer[r].kind = "defer" =>
         \E v \in versions[r] : ~v.enabled \/ ~Bound(v.binding)

\* Outside of a change, every cursor belongs to a binding that rotates and
\* still allows its route; only a pick that had read the binding before it
\* changed can have put one back (native_round_robin.go:101).  The list holds
\* the same cursors as the table, once each, and never more than the capacity:
\* eviction takes the one at its back out of both (native_round_robin.go:74).
CursorsAreLive ==
    /\ pending = {} => DOMAIN cursors \subseteq Rotating \cup revived
    /\ Listed = DOMAIN cursors
    /\ \A k, j \in Listed : k # j => (<<k, j>> \in recent <=> <<j, k>> \notin recent)
    /\ Cardinality(Listed) <= Capacity
=============================================================================
