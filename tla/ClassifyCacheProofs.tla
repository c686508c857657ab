------------------------ MODULE ClassifyCacheProofs ------------------------
(***************************************************************************)
(* Proofs about ClassifyCache, for every set of picks, candidates and      *)
(* groups, every capacity and any number of rule changes.                  *)
(***************************************************************************)
EXTENDS ClassifyCache, FiniteSetTheorems, TLAPS

\* An entry put into a cache that has room, or into an empty one, fits.
LEMMA FillFits ==
    ASSUME NEW D, IsFiniteSet(D), Cardinality(D) <= Capacity, NEW a,
           NEW K, K = IF Cardinality(D) >= Capacity THEN {} ELSE D
    PROVE  /\ IsFiniteSet(K \cup {a})
           /\ Cardinality(K \cup {a}) <= Capacity
<1>1. Capacity \in Nat /\ Capacity >= 1
  BY CapacityAssumption
<1>2. Cardinality(D) \in Nat
  BY FS_CardinalityType
<1>3. IsFiniteSet(K) /\ Cardinality(K) \in Nat /\ Cardinality(K) + 1 <= Capacity
  <2>1. CASE Cardinality(D) >= Capacity
    BY <1>1, <2>1, FS_EmptySet
  <2>2. CASE ~(Cardinality(D) >= Capacity)
    BY <1>1, <1>2, <2>2
  <2>3. QED
    BY <2>1, <2>2
<1>4. /\ IsFiniteSet(K \cup {a})
      /\ Cardinality(K \cup {a}) = IF a \in K THEN Cardinality(K) ELSE Cardinality(K) + 1
  BY <1>3, FS_AddElement
<1>5. QED
  BY <1>1, <1>3, <1>4

CacheInv == TypeOK /\ IsFiniteSet(Cached)

\* Every state has the shape of TypeOK; the cache never exceeds its capacity,
\* though its lock is dropped between the check of the candidate and the
\* insertion.
THEOREM CacheTypeOK == Spec => []CacheInv
<1>1. Init => CacheInv
  <2> SUFFICES ASSUME Init PROVE CacheInv
    OBVIOUS
  <2>1. Cached = {}
    BY DEF Init, Cached, Empty
  <2>2. IsFiniteSet(Cached) /\ Cardinality(Cached) <= Capacity
    BY <2>1, FS_EmptySet, CapacityAssumption
  <2>3. version \in 0 .. MaxChanges /\ seen \in [Picks -> 0 .. MaxChanges]
    BY ChangeBound DEF Init
  <2>4. /\ stage \in [Picks -> {"idle", "missed", "computed", "answered"}]
        /\ answer \in [Picks -> SUBSET Groups]
    BY DEF Init
  <2>5. QED
    BY <2>1, <2>2, <2>3, <2>4 DEF Init, CacheInv, TypeOK
<1>2. CacheInv /\ [Next]_vars => CacheInv'
  <2> SUFFICES ASSUME TypeOK, IsFiniteSet(Cached), [Next]_vars
               PROVE  TypeOK' /\ IsFiniteSet(Cached')
    BY DEF CacheInv
  <2> USE ChangeBound DEF TypeOK
  <2>1. ASSUME cache' = cache PROVE IsFiniteSet(Cached') /\ Cached' = Cached
    BY <2>1 DEF Cached
  <2>2. ASSUME cache' = Empty
        PROVE  IsFiniteSet(Cached') /\ Cached' = {} /\ Cardinality(Cached') <= Capacity
    BY <2>2, FS_EmptySet, CapacityAssumption DEF Cached, Empty
  <2>3. ASSUME NEW p \in Picks, Look(p) PROVE TypeOK' /\ IsFiniteSet(Cached')
    BY <2>1, <2>3 DEF Look
  <2>4. ASSUME NEW p \in Picks, Compute(p) PROVE TypeOK' /\ IsFiniteSet(Cached')
    BY <2>1, <2>4 DEF Compute, RuleSets
  <2>5. ASSUME NEW p \in Picks, Fill(p) PROVE TypeOK' /\ IsFiniteSet(Cached')
    <3> DEFINE a    == auth[p]
               kept == IF Full THEN Empty ELSE cache
               D    == DOMAIN kept
    <3>1. a \in Auths /\ answer[p] \in SUBSET Groups
      OBVIOUS
    <3>2. cache' = [b \in D \cup {a} |-> IF b = a THEN answer[p] ELSE kept[b]]
      BY <2>5 DEF Fill
    <3>3. D = IF Cardinality(Cached) >= Capacity THEN {} ELSE Cached
      BY DEF Full, Cached, Empty
    <3>4. Cached' = D \cup {a}
      BY <3>2 DEF Cached
    <3>5. \A b \in D : b \in Auths /\ kept[b] \in SUBSET Groups
      BY <3>3 DEF Cached, Full, Empty
    <3>6. IsFiniteSet(D \cup {a}) /\ Cardinality(D \cup {a}) <= Capacity
      BY <3>3, FillFits
    <3> HIDE DEF a, kept, D
    <3>7. /\ Cached' \subseteq Auths
          /\ \A b \in Cached' : cache'[b] \in SUBSET Groups
          /\ Cardinality(Cached') <= Capacity
          /\ IsFiniteSet(Cached')
      BY <3>1, <3>2, <3>4, <3>5, <3>6
    <3>8. raced' \in SUBSET Auths /\ stage' = [stage EXCEPT ![p] = "answered"]
      BY <2>5, <3>1 DEF Fill, a
    <3>9. QED
      BY <2>5, <3>7, <3>8 DEF Fill
  <2>6. ASSUME NEW p \in Picks, NEW a \in Auths, Again(p, a)
        PROVE  TypeOK' /\ IsFiniteSet(Cached')
    BY <2>1, <2>6 DEF Again
  <2>7. ASSUME NEW rs \in RuleSets, ChangeRules(rs) \/ Configure(rs)
        PROVE  TypeOK' /\ IsFiniteSet(Cached')
    <3>1. /\ version' \in 0 .. MaxChanges
          /\ rules' \in RuleSets
          /\ UNCHANGED <<cache, stage, auth, answer, seen, raced>>
          /\ \/ change' = "published" /\ reload' = reload
             \/ change' = change /\ reload' = TRUE
      BY <2>7 DEF ChangeRules, Configure, Publish
    <3>2. QED
      BY <2>1, <3>1
  <2>8. CASE ClearCache
    BY <2>2, <2>8 DEF ClearCache
  <2>9. CASE Saved
    BY <2>1, <2>9 DEF Saved
  <2>10. CASE ConfigureClears
    BY <2>2, <2>10 DEF ConfigureClears
  <2>11. CASE UNCHANGED vars
    BY <2>1, <2>11 DEF vars
  <2> HIDE DEF TypeOK
  <2>12. QED
    BY <2>3, <2>4, <2>5, <2>6, <2>7, <2>8, <2>9, <2>10, <2>11 DEF Next
<1>3. QED
  BY <1>1, <1>2, PTL DEF Spec

-----------------------------------------------------------------------------
\* A pick that has computed its groups has those of the rules it read.
ComputedFromSeen ==
    \A p \in Picks :
        stage[p] = "computed" =>
            /\ seen[p] <= version
            /\ seen[p] = version => answer[p] = rules[auth[p]]

\* No order of picks, rule changes and reconfigurations leaves a stale entry
\* in the cache once the change has cleared it, but the one of the race.
THEOREM StaleEntriesAreRaced == Spec => []StaleOnlyByRace
<1> DEFINE Inv == ComputedFromSeen /\ StaleOnlyByRace
<1>1. Init => Inv
  BY DEF Init, ComputedFromSeen, StaleOnlyByRace, Cached, Empty
<1>2. Inv /\ TypeOK /\ [Next]_vars => Inv'
  <2> SUFFICES ASSUME ComputedFromSeen, StaleOnlyByRace, TypeOK, [Next]_vars
               PROVE  ComputedFromSeen' /\ StaleOnlyByRace'
    OBVIOUS
  <2> USE ChangeBound DEF TypeOK
  <2>1. ASSUME NEW p \in Picks, Look(p) PROVE ComputedFromSeen' /\ StaleOnlyByRace'
    BY <2>1 DEF Look, ComputedFromSeen, StaleOnlyByRace, Cached
  <2>2. ASSUME NEW p \in Picks, Compute(p) PROVE ComputedFromSeen' /\ StaleOnlyByRace'
    BY <2>2 DEF Compute, ComputedFromSeen, StaleOnlyByRace, Cached
  <2>3. ASSUME NEW p \in Picks, Fill(p) PROVE ComputedFromSeen' /\ StaleOnlyByRace'
    <3>1. ComputedFromSeen'
      BY <2>3 DEF Fill, ComputedFromSeen
    <3>2. ASSUME NEW b \in Cached', cache'[b] # rules'[b],
                 change' # "published", ~reload'
          PROVE  b \in raced'
      <4>1. rules' = rules /\ change # "published" /\ ~reload
        BY <2>3, <3>2 DEF Fill
      <4>2. CASE b = auth[p]
        <5>1. cache'[b] = answer[p]
          BY <2>3, <4>2 DEF Fill, Cached
        <5>2. seen[p] # version
          BY <2>3, <3>2, <4>1, <4>2, <5>1 DEF Fill, ComputedFromSeen
        <5>3. QED
          BY <2>3, <4>2, <5>2 DEF Fill
      <4>3. CASE b # auth[p]
        <5>1. b \in Cached /\ cache'[b] = cache[b]
          BY <2>3, <4>3 DEF Fill, Cached, Empty
        <5>2. b \in raced
          BY <3>2, <4>1, <5>1 DEF StaleOnlyByRace
        <5>3. QED
          BY <2>3, <4>3, <5>2 DEF Fill
      <4>4. QED
        BY <4>2, <4>3
    <3>3. QED
      BY <3>1, <3>2 DEF StaleOnlyByRace
  <2>4. ASSUME NEW p \in Picks, NEW a \in Auths, Again(p, a)
        PROVE  ComputedFromSeen' /\ StaleOnlyByRace'
    BY <2>4 DEF Again, ComputedFromSeen, StaleOnlyByRace, Cached
  <2>5. ASSUME NEW rs \in RuleSets, ChangeRules(rs) \/ Configure(rs)
        PROVE  ComputedFromSeen' /\ StaleOnlyByRace'
    <3>1. version' = version + 1 /\ seen' = seen /\ stage' = stage
      BY <2>5 DEF ChangeRules, Configure, Publish
    <3>2. change' = "published" \/ reload'
      BY <2>5 DEF ChangeRules, Configure
    <3>3. QED
      BY <3>1, <3>2 DEF ComputedFromSeen, StaleOnlyByRace
  <2>6. CASE ClearCache
    BY <2>6 DEF ClearCache, ComputedFromSeen, StaleOnlyByRace, Cached, Empty
  <2>7. CASE Saved
    BY <2>7 DEF Saved, ComputedFromSeen, StaleOnlyByRace, Cached
  <2>8. CASE ConfigureClears
    BY <2>8 DEF ConfigureClears, ComputedFromSeen, StaleOnlyByRace, Cached, Empty
  <2>9. CASE UNCHANGED vars
    BY <2>9 DEF vars, ComputedFromSeen, StaleOnlyByRace, Cached
  <2>10. QED
    BY <2>1, <2>2, <2>3, <2>4, <2>5, <2>6, <2>7, <2>8, <2>9 DEF Next
<1>3. CacheInv => TypeOK
  BY DEF CacheInv
<1>4. QED
  BY <1>1, <1>2, <1>3, CacheTypeOK, PTL DEF Spec
=============================================================================
