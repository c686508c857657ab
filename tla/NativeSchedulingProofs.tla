----------------------- MODULE NativeSchedulingProofs -----------------------
(***************************************************************************)
(* Proofs about NativeScheduling, for any picks, scopes, routes,           *)
(* credentials, priorities and bindings, any capacity and any number of    *)
(* changes.                                                                *)
(***************************************************************************)
EXTENDS NativeScheduling, FiniteSetTheorems, WellFoundedInduction, TLAPS

Steps == {"idle", "enabled", "resolve", "gate", "choose", "done"}

Bindings == Settings \cup {Unbound}

PickType ==
    /\ enabled \in BOOLEAN
    /\ bindings \in [Scopes -> Bindings]
    /\ spent \in [Scopes -> BOOLEAN]
    /\ pc \in [Requests -> Steps]
    /\ DOMAIN asks = Requests /\ DOMAIN answer = Requests
    /\ DOMAIN versions = Requests /\ DOMAIN constraint = Requests
    /\ \A r \in Requests : pc[r] # "idle" => asks[r] \in Ask

RotationType ==
    /\ DOMAIN cursors \subseteq CursorKeys
    /\ \A k \in DOMAIN cursors : cursors[k] \in Auths
    /\ waiting \in [CursorKeys -> [Auths -> SUBSET Auths]]

SchedulingType == PickType /\ RotationType

\* The lowest of a set of credentials is one of them.
LEMMA LowestIsLeast ==
    ASSUME NEW ids \in SUBSET Auths, ids # {}
    PROVE  LowestOf(ids) \in ids /\ \A c \in ids : LowestOf(ids) <= c
<1>1. ids \in SUBSET Nat
  BY AuthAssumption
<1>2. \E a \in ids : \A c \in ids : a <= c
  <2> DEFINE Less == OpToRel(<, Nat)
  <2>1. IsWellFoundedOn(Less, Nat)
    BY NatLessThanWellFounded
  <2> HIDE DEF Less
  <2>2. PICK a \in ids : \A c \in ids : <<c, a>> \notin Less
    BY <1>1, <2>1, WFMin
  <2>3. \A c \in ids : ~(c < a)
    BY <1>1, <2>2 DEF Less, OpToRel
  <2>4. QED
    BY <1>1, <2>3
<1>3. QED
  BY <1>2 DEF LowestOf

\* The rotation picks the first credential after the last one, around the end.
LEMMA NextIsFirst ==
    ASSUME NEW ids \in SUBSET Auths, ids # {}, NEW last \in Nat
    PROVE  LET next == NextId(ids, last)
           IN  /\ next \in ids
               /\ (\E a \in ids : a > last) =>
                      next > last /\ \A a \in ids : a > last => next <= a
               /\ ~(\E a \in ids : a > last) => \A a \in ids : next <= a
<1>1. CASE \E a \in ids : a > last
  <2> DEFINE after == {a \in ids : a > last}
  <2>1. LowestOf(after) \in after /\ \A c \in after : LowestOf(after) <= c
    BY <1>1, LowestIsLeast
  <2>2. NextId(ids, last) = LowestOf(after)
    BY <1>1 DEF NextId
  <2>3. QED
    BY <1>1, <2>1, <2>2
<1>2. CASE ~(\E a \in ids : a > last)
  BY <1>2, LowestIsLeast DEF NextId
<1>3. QED
  BY <1>1, <1>2

\* What is chosen from is what the host offered, the pool has and the binding
\* allows.
LEMMA BestIsMatched ==
    ASSUME NEW b, NEW ask \in Ask
    PROVE  /\ Best(Matched(b, ask)) \subseteq ask.candidates
           /\ Best(Matched(b, ask)) \subseteq b.pool
           /\ \A a \in Best(Matched(b, ask)) : ProviderOf[a] \in b.providers
           /\ Best(Matched(b, ask)) \in SUBSET Auths
BY OfferAssumption DEF Best, Matched, Ask

\* The rotation as a step of its own.
LEMMA RotateStep ==
    ASSUME SchedulingType, NEW key \in CursorKeys,
           NEW ids \in SUBSET Auths, ids # {}, Rotate(key, ids)
    PROVE  LET last == IF key \in DOMAIN cursors THEN cursors[key] ELSE 0
               next == NextId(ids, last)
           IN  /\ last \in Nat /\ next \in ids /\ next \in Auths
               /\ key \in DOMAIN cursors' /\ cursors'[key] = next
               /\ \A k \in DOMAIN cursors' \ {key} :
                     /\ k \in DOMAIN cursors /\ k \notin Evicted(key)
                     /\ cursors'[k] = cursors[k]
<1> DEFINE last == IF key \in DOMAIN cursors THEN cursors[key] ELSE 0
           next == NextId(ids, last)
           keep == (DOMAIN cursors \ Evicted(key)) \cup {key}
<1>1. last \in Nat
  BY AuthAssumption DEF SchedulingType, RotationType
<1>2. next \in ids
  BY <1>1, NextIsFirst
<1>3. cursors' = [k \in keep |-> IF k = key THEN next ELSE cursors[k]]
  BY DEF Rotate
<1> HIDE DEF last, next
<1>4. QED
  BY <1>1, <1>2, <1>3 DEF last, next, SchedulingType, RotationType

\* A choice answers, and rotates or leaves the rotation alone.
LEMMA ChooseStep ==
    ASSUME SchedulingType, NEW r \in Requests, Choose(r)
    PROVE  LET best == Best(Matched(constraint[r], asks[r]))
               key  == <<asks[r].scope, asks[r].route>>
           IN  /\ asks[r] \in Ask /\ key \in CursorKeys /\ best \in SUBSET Auths
               /\ \A q \in Requests \ {r} : answer'[q] = answer[q]
               /\ \/ /\ best = {} /\ answer'[r] = [kind |-> "auth_not_found", auth |-> 0]
                     /\ UNCHANGED <<cursors, recent, waiting, revived>>
                  \/ /\ best # {} /\ constraint[r].roundRobin /\ Rotate(key, best)
                     /\ answer'[r] = [kind |-> "auth", auth |-> cursors'[key]]
                  \/ /\ best # {} /\ ~constraint[r].roundRobin
                     /\ answer'[r] = [kind |-> "auth", auth |-> LowestOf(best)]
                     /\ UNCHANGED <<cursors, recent, waiting, revived>>
<1> DEFINE best == Best(Matched(constraint[r], asks[r]))
           key  == <<asks[r].scope, asks[r].route>>
<1>1. asks[r] \in Ask /\ DOMAIN answer = Requests
  BY DEF Choose, SchedulingType, PickType
<1>2. key \in CursorKeys
  BY <1>1 DEF Ask, CursorKeys
<1>3. best \in SUBSET Auths
  BY <1>1, BestIsMatched
<1>4. CASE best = {}
  <2>1. answer' = [answer EXCEPT ![r] = [kind |-> "auth_not_found", auth |-> 0]]
    BY <1>4 DEF Choose, NoCandidate, Answer
  <2>2. UNCHANGED <<cursors, recent, waiting, revived>>
    BY <1>4 DEF Choose
  <2>3. QED
    BY <1>1, <1>2, <1>3, <1>4, <2>1, <2>2
<1>5. CASE best # {} /\ constraint[r].roundRobin
  <2>1. answer' = [answer EXCEPT ![r] = [kind |-> "auth", auth |-> cursors'[key]]]
    BY <1>5 DEF Choose, Answer
  <2>2. Rotate(key, best)
    BY <1>5 DEF Choose
  <2>3. QED
    BY <1>1, <1>2, <1>3, <1>5, <2>1, <2>2
<1>6. CASE best # {} /\ ~constraint[r].roundRobin
  <2>1. answer' = [answer EXCEPT ![r] = [kind |-> "auth", auth |-> LowestOf(best)]]
    BY <1>6 DEF Choose, Answer
  <2>2. UNCHANGED <<cursors, recent, waiting, revived>>
    BY <1>6 DEF Choose
  <2>3. QED
    BY <1>1, <1>2, <1>3, <1>6, <2>1, <2>2
<1>7. QED
  BY <1>4, <1>5, <1>6

LEMMA RotateTyped ==
    ASSUME SchedulingType, NEW key \in CursorKeys,
           NEW ids \in SUBSET Auths, ids # {}, Rotate(key, ids)
    PROVE  RotationType'
<1>1. /\ DOMAIN cursors' \subseteq CursorKeys
      /\ \A k \in DOMAIN cursors' : cursors'[k] \in Auths
  BY RotateStep DEF SchedulingType, RotationType
<1>2. waiting' \in [CursorKeys -> [Auths -> SUBSET Auths]]
  <2> DEFINE last == IF key \in DOMAIN cursors THEN cursors[key] ELSE 0
             next == NextId(ids, last)
  <2>1. waiting' = [k \in CursorKeys |->
            IF k = key
            THEN [a \in Auths |-> (IF a = next THEN ids ELSE waiting[k][a] \cap ids)
                                    \ {next}]
            ELSE IF k \in Evicted(key) THEN NoWait ELSE waiting[k]]
    BY DEF Rotate
  <2> HIDE DEF last, next
  <2>2. NoWait \in [Auths -> SUBSET Auths]
    BY DEF NoWait
  <2>3. [a \in Auths |-> (IF a = next THEN ids ELSE waiting[key][a] \cap ids) \ {next}]
            \in [Auths -> SUBSET Auths]
    OBVIOUS
  <2>4. waiting \in [CursorKeys -> [Auths -> SUBSET Auths]]
    BY DEF SchedulingType, RotationType
  <2>5. QED
    BY <2>1, <2>2, <2>3, <2>4
<1>3. QED
  BY <1>1, <1>2 DEF RotationType

LEMMA SchedulingTyped == Spec => []SchedulingType
<1>1. Init => SchedulingType
  <2> SUFFICES ASSUME Init PROVE SchedulingType
    OBVIOUS
  <2>1. /\ pc \in [Requests -> Steps] /\ spent \in [Scopes -> BOOLEAN]
        /\ bindings \in [Scopes -> Bindings]
        /\ waiting \in [CursorKeys -> [Auths -> SUBSET Auths]]
    BY DEF Init, Steps, Bindings, NoWait
  <2>2. QED
    BY <2>1 DEF Init, SchedulingType, PickType, RotationType
<1>2. SchedulingType /\ [Next]_vars => SchedulingType'
  <2> SUFFICES ASSUME SchedulingType, [Next]_vars PROVE SchedulingType'
    OBVIOUS
  <2>1. ASSUME UNCHANGED <<cursors, waiting>> PROVE RotationType'
    BY <2>1 DEF SchedulingType, RotationType
  <2>2. ASSUME NEW keys, KeepCursors(keys) PROVE RotationType'
    BY <2>2 DEF SchedulingType, RotationType, KeepCursors, NoWait
  <2> USE DEF PickType, Steps
  <2>3. ASSUME NEW r \in Requests, Begin(r) PROVE SchedulingType'
    <3>1. PickType'
      BY <2>3 DEF Begin, SchedulingType
    <3>2. QED
      BY <2>1, <2>3, <3>1 DEF Begin, SchedulingType
  <2>4. ASSUME NEW r \in Requests, CheckEnabled(r) \/ Resolve(r) \/ Gate(r)
        PROVE  SchedulingType'
    <3>1. /\ UNCHANGED <<enabled, bindings, spent, cursors, waiting, asks, versions>>
          /\ \E to \in {"resolve", "gate", "choose", "done"} : pc' = [pc EXCEPT ![r] = to]
          /\ DOMAIN answer' = DOMAIN answer /\ DOMAIN constraint' = DOMAIN constraint
          /\ pc[r] # "idle"
      BY <2>4 DEF CheckEnabled, Resolve, Gate, Answer, SchedulingType
    <3>2. PickType'
      BY <3>1 DEF SchedulingType
    <3>3. QED
      BY <2>1, <3>1, <3>2 DEF SchedulingType
  <2>5. ASSUME NEW r \in Requests, Choose(r) PROVE SchedulingType'
    <3>1. /\ pc' = [pc EXCEPT ![r] = "done"] /\ pc[r] # "idle"
          /\ DOMAIN answer' = DOMAIN answer
          /\ UNCHANGED <<enabled, bindings, spent, asks, constraint, versions>>
      BY <2>5 DEF Choose, Answer
    <3>2. PickType'
      BY <3>1 DEF SchedulingType
    <3>3. ASSUME NEW key \in CursorKeys, NEW ids \in SUBSET Auths, ids # {},
                 Rotate(key, ids)
          PROVE  RotationType'
      BY <3>3, RotateTyped
    <3> HIDE DEF PickType, Steps
    <3>4. QED
      BY <2>1, <2>5, <3>2, <3>3, ChooseStep DEF SchedulingType
  <2>6. ASSUME NEW r \in Requests, Return(r) PROVE SchedulingType'
    <3>1. PickType'
      BY <2>6 DEF Return, SchedulingType
    <3>2. QED
      BY <2>1, <2>6, <3>1 DEF Return, SchedulingType
  <2>7. CASE ChangeBinding \/ Configure \/ ChangeSpent
    <3>1. /\ enabled' \in BOOLEAN /\ spent' \in [Scopes -> BOOLEAN]
          /\ UNCHANGED <<pc, asks, answer, constraint>> /\ DOMAIN versions' = Requests
      BY <2>7 DEF ChangeBinding, Configure, ChangeSpent, Observe, SchedulingType
    <3>2. bindings' \in [Scopes -> Bindings]
      BY <2>7 DEF ChangeBinding, Configure, ChangeSpent, Bindings, SchedulingType
    <3>3. PickType'
      BY <3>1, <3>2 DEF SchedulingType
    <3>4. QED
      BY <2>1, <2>7, <3>3 DEF ChangeBinding, Configure, ChangeSpent, SchedulingType
  <2>8. CASE Prune \/ ConfigureClears
    <3>1. PickType'
      BY <2>8 DEF Prune, ConfigureClears, SchedulingType
    <3>2. QED
      BY <2>2, <2>8, <3>1 DEF Prune, ConfigureClears, SchedulingType
  <2>9. CASE UNCHANGED vars
    BY <2>1, <2>9 DEF vars, SchedulingType
  <2> HIDE DEF PickType, Steps
  <2>10. QED
    BY <2>3, <2>4, <2>5, <2>6, <2>7, <2>8, <2>9 DEF Next, Pick
<1>3. QED
  BY <1>1, <1>2, PTL DEF Spec

-----------------------------------------------------------------------------
(* Authorization                                                           *)

Open(v) == ~(Bound(v.binding) /\ v.binding.limited /\ v.spent)

\* What each step of a pick has established, in terms of what was in force at
\* some moment since it began.
PickInv(r) ==
    /\ pc[r] # "idle" => InForce(asks[r].scope) \in versions[r]
    /\ pc[r] # "done" => answer[r].kind = "none"
    /\ pc[r] \in {"gate", "choose"} =>
           /\ Bound(constraint[r])
           /\ \E v \in versions[r] : v.binding = constraint[r]
    /\ pc[r] = "choose" => \E v \in versions[r] : Open(v)

Authorized(r) ==
    answer[r].kind = "auth" =>
         /\ answer[r].auth \in asks[r].candidates
         /\ \E v \in versions[r] :
               /\ Bound(v.binding)
               /\ answer[r].auth \in v.binding.pool
               /\ ProviderOf[answer[r].auth] \in v.binding.providers
         /\ \E v \in versions[r] : Open(v)

Justified(r) ==
    answer[r].kind = "defer" =>
        \E v \in versions[r] : ~v.enabled \/ ~Bound(v.binding)

AuthorityInv ==
    \A r \in Requests : PickInv(r) /\ Authorized(r) /\ Justified(r)

\* A step of one pick does not touch the others.
LEMMA OthersStay ==
    ASSUME AuthorityInv, NEW r \in Requests,
           \A q \in Requests \ {r} :
               /\ pc'[q] = pc[q] /\ asks'[q] = asks[q] /\ answer'[q] = answer[q]
               /\ constraint'[q] = constraint[q] /\ versions'[q] = versions[q],
           UNCHANGED <<enabled, bindings, spent>>,
           PickInv(r)' /\ Authorized(r)' /\ Justified(r)'
    PROVE  AuthorityInv'
<1>1. ASSUME NEW q \in Requests \ {r}
      PROVE  PickInv(q)' /\ Authorized(q)' /\ Justified(q)'
  BY <1>1 DEF AuthorityInv, PickInv, Authorized, Justified, InForce
<1>2. QED
  BY <1>1 DEF AuthorityInv

\* What comes into force is added to what every pick under way has seen.
LEMMA ObserveKeeps ==
    ASSUME SchedulingType, AuthorityInv, Observe,
           UNCHANGED <<pc, asks, constraint, answer>>
    PROVE  AuthorityInv'
<1>1. ASSUME NEW r \in Requests
      PROVE  PickInv(r)' /\ Authorized(r)' /\ Justified(r)'
  <2>1. CASE pc[r] = "idle"
    BY <2>1 DEF AuthorityInv, PickInv, Authorized, Justified
  <2>2. CASE pc[r] # "idle"
    <3>1. versions'[r] = versions[r] \cup {InForce(asks[r].scope)'}
      BY <2>2 DEF Observe, InForce
    <3>2. QED
      BY <2>2, <3>1 DEF AuthorityInv, PickInv, Authorized, Justified, InForce
  <2>3. QED
    BY <2>1, <2>2
<1>2. QED
  BY <1>1 DEF AuthorityInv

LEMMA AuthorityHolds == Spec => []AuthorityInv
<1>1. Init => AuthorityInv
  BY DEF Init, AuthorityInv, PickInv, Authorized, Justified
<1>2. SchedulingType /\ AuthorityInv /\ [Next]_vars => AuthorityInv'
  <2> SUFFICES ASSUME SchedulingType, AuthorityInv, [Next]_vars PROVE AuthorityInv'
    OBVIOUS
  <2>0. ASSUME NEW r \in Requests
        PROVE  PickInv(r) /\ Authorized(r) /\ Justified(r)
    BY DEF AuthorityInv
  <2>1. ASSUME NEW r \in Requests, Begin(r) PROVE AuthorityInv'
    <3>1. PickInv(r)' /\ Authorized(r)' /\ Justified(r)'
      BY <2>0, <2>1 DEF Begin, PickInv, Authorized, Justified, InForce, SchedulingType, PickType
    <3>2. QED
      BY <2>1, <3>1, OthersStay DEF Begin, SchedulingType, PickType
  <2>2. ASSUME NEW r \in Requests, CheckEnabled(r) PROVE AuthorityInv'
    <3>1. PickInv(r)' /\ Authorized(r)' /\ Justified(r)'
      BY <2>0, <2>2
      DEF CheckEnabled, Answer, PickInv, Authorized, Justified, InForce, SchedulingType, PickType
    <3>2. QED
      BY <2>2, <3>1, OthersStay DEF CheckEnabled, Answer, SchedulingType, PickType
  <2>3. ASSUME NEW r \in Requests, Resolve(r) PROVE AuthorityInv'
    <3>1. PickInv(r)' /\ Authorized(r)' /\ Justified(r)'
      BY <2>0, <2>3
      DEF Resolve, Answer, PickInv, Authorized, Justified, InForce, SchedulingType, PickType
    <3>2. QED
      BY <2>3, <3>1, OthersStay DEF Resolve, Answer, SchedulingType, PickType
  <2>4. ASSUME NEW r \in Requests, Gate(r) PROVE AuthorityInv'
    <3>1. PickInv(r)' /\ Authorized(r)' /\ Justified(r)'
      BY <2>0, <2>4
      DEF Gate, Answer, Limited, Open, PickInv, Authorized, Justified, InForce,
          SchedulingType, PickType
    <3>2. QED
      BY <2>4, <3>1, OthersStay DEF Gate, Answer, SchedulingType, PickType
  <2>5. ASSUME NEW r \in Requests, Choose(r) PROVE AuthorityInv'
    <3> DEFINE best == Best(Matched(constraint[r], asks[r]))
    <3>1. /\ pc[r] = "choose" /\ pc' = [pc EXCEPT ![r] = "done"]
          /\ UNCHANGED <<enabled, bindings, spent, asks, constraint, versions>>
          /\ asks[r] \in Ask
      BY <2>5 DEF Choose, Answer, SchedulingType, PickType
    <3>2. /\ \A q \in Requests \ {r} : answer'[q] = answer[q]
          /\ \/ answer'[r] = [kind |-> "auth_not_found", auth |-> 0]
             \/ answer'[r].kind = "auth" /\ answer'[r].auth \in best
      <4>1. CASE best = {}
        BY <2>5, <4>1, ChooseStep
      <4>2. CASE best # {} /\ constraint[r].roundRobin
        <5> DEFINE key == <<asks[r].scope, asks[r].route>>
        <5>1. /\ key \in CursorKeys /\ best \in SUBSET Auths
              /\ Rotate(key, best)
              /\ answer'[r] = [kind |-> "auth", auth |-> cursors'[key]]
              /\ \A q \in Requests \ {r} : answer'[q] = answer[q]
          BY <2>5, <4>2, ChooseStep
        <5> HIDE DEF key, best
        <5>2. cursors'[key] \in best
          BY <4>2, <5>1, RotateStep
        <5>3. QED
          BY <5>1, <5>2
      <4>3. CASE best # {} /\ ~constraint[r].roundRobin
        <5>1. LowestOf(best) \in best
          BY <2>5, <4>3, ChooseStep, LowestIsLeast
        <5>2. QED
          <6>1. /\ \A q \in Requests \ {r} : answer'[q] = answer[q]
                /\ answer'[r] = [kind |-> "auth", auth |-> LowestOf(best)]
            BY <2>5, <4>3, ChooseStep
          <6> HIDE DEF best
          <6>2. QED
            BY <5>1, <6>1
      <4>4. QED
        BY <4>1, <4>2, <4>3
    <3>3. \A a \in best : /\ a \in asks[r].candidates
                          /\ a \in constraint[r].pool
                          /\ ProviderOf[a] \in constraint[r].providers
      BY <3>1, BestIsMatched
    <3>4. PickInv(r)' /\ Authorized(r)' /\ Justified(r)'
      <4> HIDE DEF best
      <4>1. PickInv(r)'
        BY <2>0, <3>1 DEF PickInv, InForce, SchedulingType, PickType
      <4>2. Justified(r)'
        BY <3>2 DEF Justified
      <4>3. Authorized(r)'
        BY <2>0, <3>1, <3>2, <3>3 DEF PickInv, Authorized
      <4>4. QED
        BY <4>1, <4>2, <4>3
    <3>5. QED
      BY <3>1, <3>2, <3>4, OthersStay DEF SchedulingType, PickType
  <2>6. ASSUME NEW r \in Requests, Return(r) PROVE AuthorityInv'
    <3>1. PickInv(r)' /\ Authorized(r)' /\ Justified(r)'
      BY <2>0, <2>6 DEF Return, PickInv, Authorized, Justified, SchedulingType, PickType
    <3>2. QED
      BY <2>6, <3>1, OthersStay DEF Return, SchedulingType, PickType
  <2>7. CASE ChangeBinding
    BY <2>7, ObserveKeeps DEF ChangeBinding
  <2>8. CASE Configure
    BY <2>8, ObserveKeeps DEF Configure
  <2>9. CASE ChangeSpent
    BY <2>9, ObserveKeeps DEF ChangeSpent
  <2>10. CASE Prune \/ ConfigureClears \/ UNCHANGED vars
    <3>1. UNCHANGED <<enabled, bindings, spent, pc, asks, constraint, answer, versions>>
      BY <2>10 DEF Prune, ConfigureClears, vars
    <3>2. QED
      BY <3>1 DEF AuthorityInv, PickInv, Authorized, Justified, InForce
  <2>11. QED
    BY <2>1, <2>2, <2>3, <2>4, <2>5, <2>6, <2>7, <2>8, <2>9, <2>10 DEF Next, Pick
<1>3. QED
  BY <1>1, <1>2, SchedulingTyped, PTL DEF Spec

\* Whatever changes while a pick works on its copy of the binding: what it
\* answers was allowed by a binding in force during the pick.
THEOREM PicksAreAuthorized == Spec => []PickAuthorized
<1>1. AuthorityInv => PickAuthorized
  BY DEF AuthorityInv, Authorized, PickAuthorized, Open
<1>2. QED
  BY <1>1, AuthorityHolds, PTL

\* A bound key is never left to the host's choice, in any interleaving.
THEOREM BoundNeverDelegated == Spec => []NeverDelegated
<1>1. AuthorityInv => NeverDelegated
  BY DEF AuthorityInv, Justified, NeverDelegated
<1>2. QED
  BY <1>1, AuthorityHolds, PTL

-----------------------------------------------------------------------------
(* Rotation                                                                *)

\* From last on upwards and around the end, c comes before a.
Before(last, c, a) ==
    /\ c # a
    /\ \/ last < c /\ c < a
       \/ a <= last /\ (c > last \/ c < a)

\* What is still waiting since a was picked lies ahead of the cursor and
\* before a: the rotation reaches it before it comes around to a.
AheadInv ==
    \A k \in CursorKeys :
        /\ k \notin DOMAIN cursors => waiting[k] = NoWait
        /\ k \in DOMAIN cursors =>
               \A a \in Auths : \A c \in waiting[k][a] : Before(cursors[k], c, a)

LEMMA AheadRotates ==
    ASSUME SchedulingType, AheadInv, NEW key \in CursorKeys,
           NEW ids \in SUBSET Auths, ids # {}, Rotate(key, ids)
    PROVE  AheadInv'
<1> DEFINE last == IF key \in DOMAIN cursors THEN cursors[key] ELSE 0
           next == NextId(ids, last)
<1>1. waiting' = [k \in CursorKeys |->
          IF k = key
          THEN [a \in Auths |-> (IF a = next THEN ids ELSE waiting[k][a] \cap ids)
                                  \ {next}]
          ELSE IF k \in Evicted(key) THEN NoWait ELSE waiting[k]]
  BY DEF Rotate
<1>2. /\ last \in Nat /\ next \in ids /\ next \in Nat
      /\ key \in DOMAIN cursors' /\ cursors'[key] = next
      /\ \A k \in DOMAIN cursors' \ {key} :
            /\ k \in DOMAIN cursors /\ k \notin Evicted(key)
            /\ cursors'[k] = cursors[k]
  BY RotateStep, AuthAssumption
<1>3. DOMAIN cursors' = (DOMAIN cursors \ Evicted(key)) \cup {key}
  BY DEF Rotate
<1>4. /\ (\E a \in ids : a > last) => next > last /\ \A a \in ids : a > last => next <= a
      /\ ~(\E a \in ids : a > last) => \A a \in ids : next <= a
  BY <1>2, NextIsFirst
<1>5. \A a \in ids : a \in Nat
  BY AuthAssumption
<1>6. key \notin DOMAIN cursors => \A a \in Auths : waiting[key][a] = {}
  BY DEF AheadInv, NoWait
<1>7. key \in DOMAIN cursors => last = cursors[key]
  OBVIOUS
<1> HIDE DEF last, next
<1>8. ASSUME NEW a \in Auths, NEW c \in waiting'[key][a]
      PROVE  Before(next, c, a)
  <2>1. c \in (IF a = next THEN ids ELSE waiting[key][a] \cap ids) \ {next}
    BY <1>1, <1>8
  <2>2. c \in ids /\ c # next /\ c \in Nat /\ a \in Nat
    BY <1>5, <2>1, AuthAssumption
  <2>3. CASE a = next
    BY <1>2, <2>2, <2>3 DEF Before
  <2>4. CASE a # next
    <3>1. c \in waiting[key][a]
      BY <2>1, <2>4
    <3>2. Before(last, c, a)
      BY <1>6, <1>7, <3>1 DEF AheadInv
    <3>3. QED
      BY <1>2, <1>4, <2>2, <2>4, <3>2 DEF Before
  <2>5. QED
    BY <2>3, <2>4
<1>9. ASSUME NEW k \in CursorKeys, k # key
      PROVE  /\ k \notin DOMAIN cursors' => waiting'[k] = NoWait
             /\ k \in DOMAIN cursors' =>
                    \A a \in Auths : \A c \in waiting'[k][a] : Before(cursors'[k], c, a)
  <2>1. CASE k \in DOMAIN cursors'
    BY <1>1, <1>2, <1>9, <2>1 DEF AheadInv
  <2>2. CASE k \notin DOMAIN cursors'
    BY <1>1, <1>3, <1>9, <2>2 DEF AheadInv
  <2>3. QED
    BY <2>1, <2>2
<1>10. QED
  BY <1>2, <1>8, <1>9 DEF AheadInv

\* A cursor that goes takes what was waiting with it.
LEMMA AheadKept ==
    ASSUME AheadInv, NEW keys, KeepCursors(keys)
    PROVE  AheadInv'
BY DEF AheadInv, KeepCursors

LEMMA AheadHolds == Spec => []AheadInv
<1>1. Init => AheadInv
  BY DEF Init, AheadInv
<1>2. SchedulingType /\ AheadInv /\ [Next]_vars => AheadInv'
  <2> SUFFICES ASSUME SchedulingType, AheadInv, [Next]_vars PROVE AheadInv'
    OBVIOUS
  <2>1. ASSUME UNCHANGED <<cursors, waiting>> PROVE AheadInv'
    BY <2>1 DEF AheadInv
  <2>2. ASSUME NEW r \in Requests, Choose(r) PROVE AheadInv'
    BY <2>1, <2>2, ChooseStep, AheadRotates
  <2>3. CASE Prune \/ ConfigureClears
    BY <2>3, AheadKept DEF Prune, ConfigureClears
  <2>4. ASSUME NEW r \in Requests,
               Begin(r) \/ CheckEnabled(r) \/ Resolve(r) \/ Gate(r) \/ Return(r)
        PROVE  AheadInv'
    BY <2>1, <2>4 DEF Begin, CheckEnabled, Resolve, Gate, Return
  <2>5. CASE ChangeBinding \/ Configure \/ ChangeSpent \/ UNCHANGED vars
    BY <2>1, <2>5 DEF ChangeBinding, Configure, ChangeSpent, vars
  <2>6. QED
    BY <2>2, <2>3, <2>4, <2>5 DEF Next, Pick
<1>3. QED
  BY <1>1, <1>2, SchedulingTyped, PTL DEF Spec

\* No credential is picked twice while another one that was a candidate all
\* the time waits, however the pools of the picks in between differ.
THEOREM RotationIsFair == Spec => FairRotation
<1>1. ASSUME SchedulingType, AheadInv, [Next]_vars, NEW r \in Requests,
             pc[r] = "choose", pc'[r] = "done", answer'[r].kind = "auth",
             constraint[r].roundRobin
      PROVE  LET key  == <<asks[r].scope, asks[r].route>>
                 best == Best(Matched(constraint[r], asks[r]))
             IN  waiting[key][answer'[r].auth] \cap best \subseteq {answer'[r].auth}
  <2> DEFINE key  == <<asks[r].scope, asks[r].route>>
             best == Best(Matched(constraint[r], asks[r]))
             last == IF key \in DOMAIN cursors THEN cursors[key] ELSE 0
             next == NextId(best, last)
  <2>1. Choose(r)
    <3>1. ASSUME NEW q \in Requests, q # r, Pick(q) PROVE pc'[r] = pc[r]
      BY <1>1, <3>1 DEF Pick, Begin, CheckEnabled, Resolve, Gate, Choose, Return, Answer,
                        SchedulingType, PickType
    <3>2. CASE Pick(r)
      BY <1>1, <3>2 DEF Pick, Begin, CheckEnabled, Resolve, Gate, Return
    <3>3. CASE UNCHANGED pc
      BY <1>1, <3>3
    <3>4. CASE ChangeBinding \/ Prune \/ Configure \/ ConfigureClears \/ ChangeSpent \/ UNCHANGED vars
      BY <3>3, <3>4 DEF ChangeBinding, Prune, Configure, ConfigureClears, ChangeSpent, vars
    <3>5. QED
      BY <1>1, <3>1, <3>2, <3>4 DEF Next
  <2>2. /\ key \in CursorKeys /\ best \in SUBSET Auths /\ best # {}
        /\ Rotate(key, best) /\ answer'[r] = [kind |-> "auth", auth |-> cursors'[key]]
    <3>1. best # {}
      <4>1. best = {} => answer'[r] = [kind |-> "auth_not_found", auth |-> 0]
        BY <1>1, <2>1, ChooseStep
      <4>2. QED
        BY <1>1, <4>1
    <3>2. QED
      BY <1>1, <2>1, <3>1, ChooseStep
  <2> HIDE DEF key, best
  <2>3. /\ last \in Nat /\ next \in best /\ next \in Auths
        /\ cursors'[key] = next
    BY <1>1, <2>2, RotateStep
  <2>4. /\ (\E a \in best : a > last) => next > last /\ \A a \in best : a > last => next <= a
        /\ ~(\E a \in best : a > last) => \A a \in best : next <= a
    BY <2>2, <2>3, NextIsFirst
  <2>5. answer'[r].auth = next
    BY <2>2, <2>3
  <2>6. ASSUME NEW c \in waiting[key][next] \cap best PROVE FALSE
    <3>1. key \in DOMAIN cursors /\ Before(last, c, next)
      BY <1>1, <2>2, <2>3, <2>6 DEF AheadInv, NoWait
    <3>2. c \in Nat /\ next \in Nat
      BY <2>2, <2>3, <2>6, AuthAssumption
    <3> HIDE DEF last, next
    <3>3. QED
      BY <2>3, <2>4, <2>6, <3>1, <3>2 DEF Before
  <2>7. QED
    BY <2>5, <2>6 DEF key, best
<1>2. SchedulingType /\ AheadInv /\ [Next]_vars =>
        [\A r \in Requests :
           /\ pc[r] = "choose"
           /\ pc'[r] = "done"
           /\ answer'[r].kind = "auth"
           /\ constraint[r].roundRobin
           => LET key  == <<asks[r].scope, asks[r].route>>
                  best == Best(Matched(constraint[r], asks[r]))
              IN  waiting[key][answer'[r].auth] \cap best
                    \subseteq {answer'[r].auth}]_vars
  BY <1>1
<1>3. QED
  BY <1>2, SchedulingTyped, AheadHolds, PTL DEF Spec, FairRotation

-----------------------------------------------------------------------------
(* Cursors                                                                 *)

LiveInv == "prune" \notin pending => DOMAIN cursors \subseteq Rotating \cup revived

\* Outside of a prune every cursor is of a route that is still allowed, or was
\* put back by a pick that had read the binding before it changed.
LEMMA LiveHolds == Spec => []LiveInv
<1>1. Init => LiveInv
  BY DEF Init, LiveInv
<1>2. LiveInv /\ [Next]_vars => LiveInv'
  <2> SUFFICES ASSUME LiveInv, [Next]_vars PROVE LiveInv'
    OBVIOUS
  <2>1. ASSUME UNCHANGED <<bindings, cursors, revived>>, pending \subseteq pending'
        PROVE  LiveInv'
    BY <2>1 DEF LiveInv, Rotating
  <2>2. ASSUME NEW r \in Requests, Choose(r) PROVE LiveInv'
    <3>1. ASSUME NEW key, NEW ids, Rotate(key, ids) PROVE LiveInv'
      <4>1. /\ DOMAIN cursors' = (DOMAIN cursors \ Evicted(key)) \cup {key}
            /\ revived' = (revived \cap ((DOMAIN cursors \ Evicted(key)) \cup {key}))
                             \cup ({key} \ Rotating)
        BY <3>1 DEF Rotate
      <4>2. Rotating' = Rotating /\ pending' = pending
        BY <2>2 DEF Choose, Rotating
      <4>3. QED
        BY <4>1, <4>2 DEF LiveInv
    <3>2. QED
      BY <2>1, <2>2, <3>1 DEF Choose
  <2>3. CASE Prune
    BY <2>3 DEF Prune, KeepCursors, PruneKeeps, LiveInv, Rotating
  <2>4. CASE ConfigureClears
    BY <2>4 DEF ConfigureClears, KeepCursors, LiveInv
  <2>5. CASE ChangeBinding
    BY <2>5 DEF ChangeBinding, LiveInv
  <2>6. ASSUME NEW r \in Requests,
               Begin(r) \/ CheckEnabled(r) \/ Resolve(r) \/ Gate(r) \/ Return(r)
        PROVE  LiveInv'
    BY <2>1, <2>6 DEF Begin, CheckEnabled, Resolve, Gate, Return
  <2>7. CASE Configure \/ ChangeSpent \/ UNCHANGED vars
    BY <2>1, <2>7 DEF Configure, ChangeSpent, vars
  <2>8. QED
    BY <2>2, <2>3, <2>4, <2>5, <2>6, <2>7 DEF Next, Pick
<1>3. QED
  BY <1>1, <1>2, PTL DEF Spec

\* R is a list that holds exactly the members of D: of two members one comes
\* first, and some member of any of them is last.
ListOrder(D, R) ==
    /\ R \subseteq D \X D
    /\ \A k \in D : <<k, k>> \in R
    /\ \A k, j \in D : k # j => (<<k, j>> \in R <=> <<j, k>> \notin R)
    /\ \A K \in SUBSET D : K # {} => \E k \in K : \A j \in K : <<j, k>> \in R

OrderInv ==
    /\ ListOrder(DOMAIN cursors, recent)
    /\ IsFiniteSet(DOMAIN cursors)
    /\ Cardinality(DOMAIN cursors) <= Capacity

\* Elements removed from a list leave a list.
LEMMA ListWithout ==
    ASSUME NEW D, NEW R, ListOrder(D, R), NEW K
    PROVE  ListOrder(D \cap K, R \cap (K \X K))
<1> DEFINE D2 == D \cap K
           R2 == R \cap (K \X K)
<1>1. \A k, j \in D2 : <<k, j>> \in R2 <=> <<k, j>> \in R
  OBVIOUS
<1>2. R2 \subseteq D2 \X D2
  BY DEF ListOrder
<1>3. \A L \in SUBSET D2 : L # {} => \E k \in L : \A j \in L : <<j, k>> \in R2
  <2>1. SUFFICES ASSUME NEW L \in SUBSET D2, L # {}
                 PROVE  \E k \in L : \A j \in L : <<j, k>> \in R2
    OBVIOUS
  <2>2. PICK k \in L : \A j \in L : <<j, k>> \in R
    BY <2>1 DEF ListOrder
  <2>3. QED
    BY <1>1, <2>1, <2>2
<1> HIDE DEF R2
<1>4. /\ \A k \in D2 : <<k, k>> \in R2
      /\ \A k, j \in D2 : k # j => (<<k, j>> \in R2 <=> <<j, k>> \notin R2)
  BY <1>1 DEF ListOrder
<1> HIDE DEF D2
<1>5. ListOrder(D2, R2)
  BY <1>2, <1>3, <1>4 DEF ListOrder
<1>6. QED
  BY <1>5 DEF D2, R2

\* An element put in front of a list that does not hold it makes a list.
LEMMA ListInFront ==
    ASSUME NEW D, NEW R, ListOrder(D, R), NEW key, key \notin D
    PROVE  ListOrder(D \cup {key}, R \cup ({key} \X (D \cup {key})))
<1> DEFINE D2 == D \cup {key}
           R2 == R \cup ({key} \X D2)
<1>1. R2 \subseteq D2 \X D2
  BY DEF ListOrder
<1>2. /\ \A k, j \in D : <<k, j>> \in R2 <=> <<k, j>> \in R
      /\ \A j \in D2 : <<key, j>> \in R2
      /\ \A k \in D : <<k, key>> \notin R2
  BY DEF ListOrder
<1>3. \A L \in SUBSET D2 : L # {} => \E k \in L : \A j \in L : <<j, k>> \in R2
  <2>1. SUFFICES ASSUME NEW L \in SUBSET D2, L # {}
                 PROVE  \E k \in L : \A j \in L : <<j, k>> \in R2
    OBVIOUS
  <2>2. CASE L \ {key} = {}
    BY <1>2, <2>1, <2>2
  <2>3. CASE L \ {key} # {}
    <3>1. L \ {key} \in SUBSET D
      BY <2>1
    <3>2. PICK k \in L \ {key} : \A j \in L \ {key} : <<j, k>> \in R
      BY <2>3, <3>1 DEF ListOrder
    <3>3. <<key, k>> \in R2
      BY <1>2, <3>1, <3>2
    <3>4. QED
      BY <3>2, <3>3
  <2>4. QED
    BY <2>2, <2>3
<1> HIDE DEF R2
<1>4. \A k \in D2 : <<k, k>> \in R2
  BY <1>2 DEF ListOrder
<1>5. ASSUME NEW k \in D2, NEW j \in D2, k # j
      PROVE  <<k, j>> \in R2 <=> <<j, k>> \notin R2
  <2>1. CASE k \in D /\ j \in D
    BY <1>2, <1>5, <2>1 DEF ListOrder
  <2>2. CASE k = key \/ j = key
    BY <1>2, <1>5, <2>2
  <2>3. QED
    BY <1>5, <2>1, <2>2
<1> HIDE DEF D2
<1>6. ListOrder(D2, R2)
  BY <1>1, <1>3, <1>4, <1>5 DEF ListOrder
<1>7. QED
  BY <1>6 DEF D2, R2

\* The list holds what the table holds.
LEMMA ListedFacts ==
    ASSUME SchedulingType, OrderInv
    PROVE  Listed = DOMAIN cursors
<1>1. ListOrder(DOMAIN cursors, recent)
  BY DEF OrderInv
<1>2. DOMAIN cursors \subseteq CursorKeys
  BY DEF SchedulingType, RotationType
<1>3. \A k : <<k, k>> \in recent <=> k \in DOMAIN cursors
  <2>1. /\ recent \subseteq (DOMAIN cursors) \X (DOMAIN cursors)
        /\ \A k \in DOMAIN cursors : <<k, k>> \in recent
    BY <1>1 DEF ListOrder
  <2>2. QED
    BY <2>1
<1>4. QED
  BY <1>2, <1>3 DEF Listed

\* A pick that rotates makes room first: the table never exceeds its capacity.
LEMMA OrderRotates ==
    ASSUME SchedulingType, OrderInv, NEW key \in CursorKeys, NEW ids, Rotate(key, ids)
    PROVE  OrderInv'
<1> DEFINE D    == DOMAIN cursors
           rest == D \ (Evicted(key) \cup {key})
<1>1. Listed = D
  BY ListedFacts
<1>2. /\ DOMAIN cursors' = rest \cup {key}
      /\ recent' = (recent \cap (rest \X rest)) \cup ({key} \X (rest \cup {key}))
  BY <1>1 DEF Rotate, Touched
<1>3. ListOrder(DOMAIN cursors', recent')
  <2>1. D \cap rest = rest /\ key \notin rest
    OBVIOUS
  <2>2. ListOrder(D, recent)
    BY DEF OrderInv
  <2> HIDE DEF D, rest
  <2>3. ListOrder(rest, recent \cap (rest \X rest))
    <3>1. ListOrder(D \cap rest, recent \cap (rest \X rest))
      BY <2>2, ListWithout
    <3>2. QED
      BY <2>1, <3>1
  <2>4. QED
    BY <1>2, <2>1, <2>3, ListInFront
<1>4. IsFiniteSet(D) /\ Cardinality(D) \in Nat /\ Cardinality(D) <= Capacity
  BY FS_CardinalityType DEF OrderInv
<1>5. Capacity \in Nat /\ Capacity > 0
  BY CapacityAssumption
<1>6. CASE key \in D
  <2>1. Evicted(key) = {} /\ DOMAIN cursors' = D
    BY <1>2, <1>6 DEF Evicted
  <2>2. QED
    BY <1>3, <1>4, <2>1 DEF OrderInv
<1>7. CASE key \notin D
  <2>1. DOMAIN cursors' = (D \ Evicted(key)) \cup {key} /\ key \notin D \ Evicted(key)
    BY <1>2, <1>7
  <2>2. IsFiniteSet(D \ Evicted(key)) /\ Cardinality(D \ Evicted(key)) < Capacity
    <3>1. CASE Cardinality(D) >= Capacity
      <4>1. D # {}
        BY <1>4, <1>5, <3>1, FS_EmptySet
      <4>2. PICK b \in D : \A j \in D : <<j, b>> \in recent
        BY <4>1 DEF OrderInv, ListOrder
      <4>3. b \in Evicted(key)
        BY <1>1, <1>7, <3>1, <4>2 DEF Evicted, Back
      <4>4. IsFiniteSet(D \ {b}) /\ Cardinality(D \ {b}) = Cardinality(D) - 1
        BY <1>4, <4>2, FS_RemoveElement
      <4>5. D \ Evicted(key) \in SUBSET (D \ {b})
        BY <4>3
      <4>6. /\ IsFiniteSet(D \ Evicted(key))
            /\ Cardinality(D \ Evicted(key)) <= Cardinality(D \ {b})
        BY <4>4, <4>5, FS_Subset
      <4>7. Cardinality(D \ Evicted(key)) \in Nat
        BY <4>6, FS_CardinalityType
      <4>8. QED
        BY <1>4, <1>5, <4>4, <4>6, <4>7
    <3>2. CASE ~(Cardinality(D) >= Capacity)
      <4>1. D \ Evicted(key) = D
        BY <3>2 DEF Evicted
      <4>2. QED
        BY <1>4, <1>5, <3>2, <4>1
    <3>3. QED
      BY <3>1, <3>2
  <2>3. Cardinality(D \ Evicted(key)) \in Nat
    BY <2>2, FS_CardinalityType
  <2>4. /\ IsFiniteSet((D \ Evicted(key)) \cup {key})
        /\ Cardinality((D \ Evicted(key)) \cup {key}) = Cardinality(D \ Evicted(key)) + 1
    BY <2>1, <2>2, FS_AddElement
  <2>5. IsFiniteSet(DOMAIN cursors') /\ Cardinality(DOMAIN cursors') <= Capacity
    BY <1>5, <2>1, <2>2, <2>3, <2>4
  <2>6. QED
    BY <1>3, <2>5 DEF OrderInv
<1>8. QED
  BY <1>6, <1>7

\* Pruning and clearing take cursors out of the table and the list alike.
LEMMA OrderKept ==
    ASSUME OrderInv, NEW keys, KeepCursors(keys)
    PROVE  OrderInv'
<1> DEFINE D == DOMAIN cursors
<1>1. DOMAIN cursors' = D \cap keys /\ recent' = recent \cap (keys \X keys)
  BY DEF KeepCursors
<1>2. ListOrder(DOMAIN cursors', recent')
  <2>1. ListOrder(D, recent)
    BY DEF OrderInv
  <2> HIDE DEF D
  <2>2. ListOrder(D \cap keys, recent \cap (keys \X keys))
    BY <2>1, ListWithout
  <2>3. QED
    BY <1>1, <2>2
<1>3. IsFiniteSet(D) /\ Cardinality(D) \in Nat /\ Cardinality(D) <= Capacity
  BY FS_CardinalityType DEF OrderInv
<1>4. D \cap keys \in SUBSET D
  OBVIOUS
<1>5. IsFiniteSet(D \cap keys) /\ Cardinality(D \cap keys) <= Cardinality(D)
  BY <1>3, <1>4, FS_Subset
<1>6. Cardinality(D \cap keys) \in Nat /\ Capacity \in Nat
  BY <1>5, FS_CardinalityType, CapacityAssumption
<1>7. QED
  BY <1>1, <1>2, <1>3, <1>5, <1>6 DEF OrderInv

LEMMA OrderHolds == Spec => []OrderInv
<1>1. Init => OrderInv
  <2>1. SUFFICES ASSUME Init PROVE OrderInv
    OBVIOUS
  <2>2. DOMAIN cursors = {} /\ recent = {}
    BY <2>1 DEF Init
  <2>3. ListOrder({}, {})
    BY DEF ListOrder
  <2>4. QED
    BY <2>2, <2>3, FS_EmptySet, CapacityAssumption DEF OrderInv
<1>2. SchedulingType /\ OrderInv /\ [Next]_vars => OrderInv'
  <2> SUFFICES ASSUME SchedulingType, OrderInv, [Next]_vars PROVE OrderInv'
    OBVIOUS
  <2>1. UNCHANGED <<cursors, recent>> => OrderInv'
    BY DEF OrderInv
  <2>2. ASSUME NEW r \in Requests, Choose(r) PROVE OrderInv'
    <3> DEFINE best == Best(Matched(constraint[r], asks[r]))
               key  == <<asks[r].scope, asks[r].route>>
    <3>1. /\ key \in CursorKeys
          /\ UNCHANGED <<cursors, recent>> \/ Rotate(key, best)
      BY <2>2, ChooseStep
    <3> HIDE DEF best, key
    <3>2. QED
      BY <2>1, <3>1, OrderRotates
  <2>3. CASE Prune
    BY <2>3, OrderKept DEF Prune
  <2>4. CASE ConfigureClears
    BY <2>4, OrderKept DEF ConfigureClears
  <2>5. ASSUME NEW r \in Requests,
               Begin(r) \/ CheckEnabled(r) \/ Resolve(r) \/ Gate(r) \/ Return(r)
        PROVE  OrderInv'
    BY <2>1, <2>5 DEF Begin, CheckEnabled, Resolve, Gate, Return
  <2>6. CASE ChangeBinding \/ Configure \/ ChangeSpent \/ UNCHANGED vars
    BY <2>1, <2>6 DEF ChangeBinding, Configure, ChangeSpent, vars
  <2>7. QED
    BY <2>2, <2>3, <2>4, <2>5, <2>6 DEF Next, Pick
<1>3. QED
  BY <1>1, <1>2, SchedulingTyped, PTL DEF Spec

\* Outside of a change every cursor is of a route that is still allowed, or
\* was put back by a pick that had read the binding before it changed; table
\* and list hold the same cursors and never more than the capacity.
THEOREM CursorsLive == Spec => []CursorsAreLive
<1>1. SchedulingType /\ LiveInv /\ OrderInv => CursorsAreLive
  <2>1. SUFFICES ASSUME SchedulingType, LiveInv, OrderInv PROVE CursorsAreLive
    OBVIOUS
  <2>2. Listed = DOMAIN cursors
    BY <2>1, ListedFacts
  <2>3. pending = {} => DOMAIN cursors \subseteq Rotating \cup revived
    BY <2>1 DEF LiveInv
  <2>4. \A k, j \in Listed : k # j => (<<k, j>> \in recent <=> <<j, k>> \notin recent)
    BY <2>1, <2>2 DEF OrderInv, ListOrder
  <2>5. Cardinality(Listed) <= Capacity
    BY <2>1, <2>2 DEF OrderInv
  <2>6. QED
    BY <2>2, <2>3, <2>4, <2>5 DEF CursorsAreLive
<1>2. QED
  BY <1>1, SchedulingTyped, LiveHolds, OrderHolds, PTL
=============================================================================
