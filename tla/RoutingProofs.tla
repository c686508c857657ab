--------------------------- MODULE RoutingProofs ---------------------------
(***************************************************************************)
(* Proofs about the tables requests are routed by (PolicyTables), for      *)
(* every set of keys, secrets, aliases, targets and PATCH requests, and    *)
(* about the picks that travel from Authenticate to Route (AliasPicks),    *)
(* for every set of requests and targets, queue length and lifetime.       *)
(***************************************************************************)
EXTENDS PolicyTables, AliasPicks, SequenceTheorems, FiniteSetTheorems, TLAPS

KeyRecords ==
    [hash : Secrets \cup {NoSecret}, refs : SUBSET Aliases, models : SUBSET Rules]

KeyTables == [Keys -> KeyRecords]
AliasTables == [Aliases -> SUBSET Targets]

\* What a save under way will write is what memory holds.
Saves == saving # Idle => saving.content = [keys |-> Stripped(keys), aliases |-> aliases]

\* The shape of the tables, of the file and of what PATCH requests have read.
TablesType ==
    /\ keys \in KeyTables
    /\ aliases \in AliasTables
    /\ file \in [keys : KeyTables, aliases : AliasTables]
    /\ snap \in [Patchers -> {Idle} \cup [key : Keys, rec : KeyRecords]]
    /\ Saves

\* The secret of no key is never among the revoked ones.
NeverRevoked ==
    /\ NoSecret \notin revoked
    /\ saving # Idle => NoSecret \notin saving.revokes

-----------------------------------------------------------------------------
\* Stripping keeps the table's shape, its secrets and its references.
LEMMA StrippedType ==
    ASSUME NEW ks \in KeyTables
    PROVE  /\ Stripped(ks) \in KeyTables
           /\ \A k \in Keys : /\ Stripped(ks)[k].hash = ks[k].hash
                              /\ Stripped(ks)[k].refs = ks[k].refs
  BY DEF Stripped, KeyTables, KeyRecords

\* The rules of references are rules, and more targets give more rules.
LEMMA DerivedType ==
    ASSUME NEW refs, NEW al
    PROVE  Derived(refs, al) \in SUBSET Rules
  BY DEF Derived

\* The migration yields tables, keeps every alias and every target, and keeps
\* the references within the alias names.
LEMMA MigrationType ==
    ASSUME NEW rec \in KeyRecords, NEW al \in AliasTables
    PROVE  /\ MigratedRefs(rec) \in SUBSET Aliases
           /\ MergedAliases(rec, al) \in AliasTables
           /\ \A a \in Aliases : al[a] \subseteq MergedAliases(rec, al)[a]
<1>1. ASSUME NEW rule \in rec.models PROVE rule[1] \in Aliases
  BY DEF KeyRecords, Rules
<1>2. MigratedRefs(rec) \in SUBSET Aliases
  BY <1>1 DEF MigratedRefs, KeyRecords
<1>3. QED
  BY <1>2 DEF MergedAliases, AliasTables

\* An upsert publishes tables, and what it will save.
LEMMA UpsertType ==
    ASSUME TablesType, NEW k \in Keys, NEW rec \in KeyRecords, Upsert(k, rec)
    PROVE  /\ keys' \in KeyTables
           /\ aliases' \in AliasTables
           /\ Saves'
           /\ \A j \in Keys : j # k => keys'[j] = keys[j]
           /\ keys'[k].hash = rec.hash
           /\ keys'[k].refs = MigratedRefs(rec)
           /\ keys'[k].refs \subseteq Present(aliases')
           /\ keys'[k].models = Derived(keys'[k].refs, aliases')
           /\ \A a \in Aliases : aliases[a] \subseteq aliases'[a]
           /\ saving = Idle
           /\ saving'.revokes = {}
<1> DEFINE al == MergedAliases(rec, aliases)
           ref == MigratedRefs(rec)
           new == [hash |-> rec.hash, refs |-> ref, models |-> Derived(ref, al)]
<1>1. aliases \in AliasTables /\ keys \in KeyTables
  BY DEF TablesType
<1>2. ref \in SUBSET Aliases /\ al \in AliasTables
      /\ \A a \in Aliases : aliases[a] \subseteq al[a]
  BY <1>1, MigrationType
<1>3. ref \subseteq Present(al) /\ Publish([keys EXCEPT ![k] = new], al, {})
  BY DEF Upsert
<1>4. new \in KeyRecords
  BY <1>2, DerivedType DEF KeyRecords
<1> HIDE DEF al, ref, new
<1>5. /\ keys' = [keys EXCEPT ![k] = new]
      /\ aliases' = al
      /\ saving = Idle
      /\ saving' = [content |-> [keys |-> Stripped([keys EXCEPT ![k] = new]),
                                 aliases |-> al],
                    revokes |-> {}]
  BY <1>3 DEF Publish
<1>6. /\ keys' \in KeyTables
      /\ keys'[k] = new
      /\ \A j \in Keys : j # k => keys'[j] = keys[j]
  BY <1>1, <1>4, <1>5 DEF KeyTables
<1>7. Saves'
  BY <1>5 DEF Saves
<1>8. new.hash = rec.hash /\ new.refs = ref /\ new.models = Derived(ref, al)
  BY DEF new
<1>9. QED
  BY <1>2, <1>3, <1>5, <1>6, <1>7, <1>8 DEF ref

-----------------------------------------------------------------------------
\* What a loaded file makes of the tables.
LEMMA LoadType ==
    ASSUME TablesType, LoadFile
    PROVE  /\ keys' \in KeyTables
           /\ aliases' \in AliasTables
           /\ aliases' = LoadedAliases(file)
           /\ \A k \in Keys : /\ keys'[k].hash = file.keys[k].hash
                              /\ keys'[k].refs = file.keys[k].refs
                              /\ keys'[k].models = Derived(keys'[k].refs, aliases')
<1>1. file.keys \in KeyTables /\ file.aliases \in AliasTables
  BY DEF TablesType
<1>2. LoadedAliases(file) \in AliasTables
  BY <1>1 DEF LoadedAliases, AliasTables
<1>3. \A k \in Keys : Derived(file.keys[k].refs, LoadedAliases(file)) \in SUBSET Rules
  BY DerivedType
<1> DEFINE loaded(k) == [file.keys[k] EXCEPT
                             !.models = Derived(file.keys[k].refs, LoadedAliases(file))]
<1>4. ASSUME NEW k \in Keys
      PROVE  /\ loaded(k) \in KeyRecords
             /\ loaded(k).hash = file.keys[k].hash
             /\ loaded(k).refs = file.keys[k].refs
             /\ loaded(k).models = Derived(file.keys[k].refs, LoadedAliases(file))
  BY <1>1, <1>3 DEF KeyTables, KeyRecords
<1>5. keys' = [k \in Keys |-> loaded(k)] /\ aliases' = LoadedAliases(file)
  BY DEF LoadFile
<1> HIDE DEF loaded
<1>6. QED
  BY <1>2, <1>4, <1>5 DEF KeyTables

\* Deleting a key yields a table and leaves the other keys alone.
LEMMA DeletedType ==
    ASSUME NEW ks \in KeyTables, NEW k \in Keys
    PROVE  /\ [ks EXCEPT ![k] = NoKey] \in KeyTables
           /\ [ks EXCEPT ![k] = NoKey][k] = NoKey
           /\ \A j \in Keys : j # k => [ks EXCEPT ![k] = NoKey][j] = ks[j]
<1>1. NoKey \in KeyRecords
  BY DEF NoKey, KeyRecords
<1>2. QED
  BY <1>1 DEF KeyTables

\* Giving a key a new secret changes nothing else.
LEMMA RotatedType ==
    ASSUME NEW ks \in KeyTables, NEW k \in Keys, NEW s \in Secrets
    PROVE  /\ [ks EXCEPT ![k].hash = s] \in KeyTables
           /\ [ks EXCEPT ![k].hash = s][k].hash = s
           /\ [ks EXCEPT ![k].hash = s][k].refs = ks[k].refs
           /\ [ks EXCEPT ![k].hash = s][k].models = ks[k].models
           /\ \A j \in Keys : j # k => [ks EXCEPT ![k].hash = s][j] = ks[j]
  BY DEF KeyTables, KeyRecords

\* The table whose models are derived again.
Resolved(ks, al) == [k \in Keys |-> [ks[k] EXCEPT !.models = Derived(ks[k].refs, al)]]

\* Deriving the models again leaves secrets and references alone.
LEMMA ResolvedType ==
    ASSUME NEW ks \in KeyTables, NEW al
    PROVE  /\ Resolved(ks, al) \in KeyTables
           /\ \A k \in Keys : /\ Resolved(ks, al)[k].hash = ks[k].hash
                              /\ Resolved(ks, al)[k].refs = ks[k].refs
                              /\ Resolved(ks, al)[k].models
                                     = Derived(ks[k].refs, al)
<1>1. ASSUME NEW k \in Keys PROVE Derived(ks[k].refs, al) \in SUBSET Rules
  BY DerivedType
<1>2. QED
  BY <1>1 DEF Resolved, KeyTables, KeyRecords

-----------------------------------------------------------------------------
\* Every state has tables of the right shape, and a save under way always
\* carries what memory holds: updateMu keeps mutations apart.
THEOREM TablesTyped == Spec => []TablesType
<1>1. Init => TablesType
  BY DEF Init, TablesType, Saves, KeyTables, AliasTables, KeyRecords, NoKey
<1>2. TablesType /\ [Next]_vars => TablesType'
  <2> SUFFICES ASSUME TablesType, [Next]_vars PROVE TablesType'
    OBVIOUS
  <2>0. /\ keys \in KeyTables /\ aliases \in AliasTables /\ Saves
        /\ file.keys \in KeyTables /\ file.aliases \in AliasTables
        /\ file \in [keys : KeyTables, aliases : AliasTables]
        /\ snap \in [Patchers -> {Idle} \cup [key : Keys, rec : KeyRecords]]
    BY DEF TablesType
  <2>1. ASSUME NEW k \in Keys, NEW rec \in KeyRecords, Upsert(k, rec),
               UNCHANGED file,
               snap' \in [Patchers -> {Idle} \cup [key : Keys, rec : KeyRecords]]
        PROVE  TablesType'
    BY <2>0, <2>1, UpsertType DEF TablesType
  <2>2. ASSUME NEW ks \in KeyTables, NEW al \in AliasTables, NEW gone,
               Publish(ks, al, gone), UNCHANGED <<file, snap>>
        PROVE  TablesType'
    BY <2>0, <2>2 DEF TablesType, Publish, Saves
  <2>3. ASSUME NEW k \in Keys, NEW s \in Secrets, NEW refs \in SUBSET Aliases,
               CreateKey(k, s, refs, {})
        PROVE  TablesType'
    <3>1. [hash |-> s, refs |-> refs, models |-> {}] \in KeyRecords
      BY DEF KeyRecords
    <3>2. QED
      BY <2>0, <2>1, <2>3, <3>1 DEF CreateKey
  <2>4. ASSUME NEW k \in Keys, NEW s \in Secrets, NEW rule \in Rules,
               CreateKey(k, s, {}, {rule})
        PROVE  TablesType'
    <3>1. [hash |-> s, refs |-> {}, models |-> {rule}] \in KeyRecords
      BY DEF KeyRecords
    <3>2. QED
      BY <2>0, <2>1, <2>4, <3>1 DEF CreateKey
  <2>5. ASSUME NEW k \in Keys, NEW s \in Secrets, RotateKey(k, s) PROVE TablesType'
    BY <2>0, <2>2, <2>5, RotatedType DEF RotateKey
  <2>6. ASSUME NEW k \in Keys, DeleteKey(k) PROVE TablesType'
    BY <2>0, <2>2, <2>6, DeletedType DEF DeleteKey
  <2>7. ASSUME NEW p \in Patchers, NEW k \in Keys, PatchRead(p, k) PROVE TablesType'
    <3>1. [key |-> k, rec |-> keys[k]] \in [key : Keys, rec : KeyRecords]
      BY <2>0 DEF KeyTables
    <3>2. QED
      BY <2>0, <2>7, <3>1 DEF PatchRead, TablesType, Saves
  <2>8. ASSUME NEW p \in Patchers, PatchStep,
               \/ PatchScalar(p)
               \/ \E s \in Secrets : PatchSecret(p, s)
               \/ \E rule \in Rules : PatchModels(p, {rule})
               \/ \E refs \in SUBSET Aliases : PatchAliases(p, refs)
               \/ PatchRefused(p)
        PROVE  TablesType'
    <3>1. /\ snap[p] # Idle
          /\ snap' = [snap EXCEPT ![p] = Idle]
          /\ UNCHANGED file
      BY <2>8 DEF PatchScalar, PatchSecret, PatchModels, PatchAliases, PatchRefused
    <3>2. /\ snap[p].key \in Keys
          /\ snap[p].rec \in KeyRecords
          /\ snap' \in [Patchers -> {Idle} \cup [key : Keys, rec : KeyRecords]]
      BY <2>0, <3>1
    <3>3. CASE PatchScalar(p)
      BY <2>1, <3>1, <3>2, <3>3 DEF PatchScalar
    <3>4. ASSUME NEW s \in Secrets, PatchSecret(p, s) PROVE TablesType'
      <4>1. [snap[p].rec EXCEPT !.hash = s] \in KeyRecords
        BY <3>2 DEF KeyRecords
      <4>2. QED
        BY <2>1, <3>1, <3>2, <3>4, <4>1 DEF PatchSecret
    <3>5. ASSUME NEW rule \in Rules, PatchModels(p, {rule}) PROVE TablesType'
      <4>1. [snap[p].rec EXCEPT !.models = {rule}] \in KeyRecords
        BY <3>2 DEF KeyRecords
      <4>2. QED
        BY <2>1, <3>1, <3>2, <3>5, <4>1 DEF PatchModels
    <3>6. ASSUME NEW refs \in SUBSET Aliases, PatchAliases(p, refs) PROVE TablesType'
      <4>1. [snap[p].rec EXCEPT !.refs = refs] \in KeyRecords
        BY <3>2 DEF KeyRecords
      <4>2. QED
        BY <2>1, <3>1, <3>2, <3>6, <4>1 DEF PatchAliases
    <3>7. CASE PatchRefused(p)
      BY <2>0, <3>2, <3>7 DEF PatchRefused, TablesType, Saves
    <3>8. QED
      BY <2>8, <3>3, <3>4, <3>5, <3>6, <3>7
  <2>9. ASSUME NEW a \in Aliases, NEW ts \in SUBSET Targets, UpsertAlias(a, ts)
        PROVE  TablesType'
    <3>1. [aliases EXCEPT ![a] = ts] \in AliasTables
      BY <2>0 DEF AliasTables
    <3>2. Publish(Resolved(keys, [aliases EXCEPT ![a] = ts]),
                  [aliases EXCEPT ![a] = ts], {})
      BY <2>9 DEF UpsertAlias, Resolved
    <3>3. UNCHANGED <<file, snap>>
      BY <2>9 DEF UpsertAlias
    <3>4. QED
      BY <2>0, <2>2, <3>1, <3>2, <3>3, ResolvedType
  <2>10. ASSUME NEW a \in Aliases, DeleteAlias(a) PROVE TablesType'
    <3>1. [aliases EXCEPT ![a] = {}] \in AliasTables
      BY <2>0 DEF AliasTables
    <3>2. QED
      BY <2>0, <2>2, <2>10, <3>1 DEF DeleteAlias
  <2>11. CASE SaveSucceeds
    BY <2>0, <2>11, StrippedType DEF SaveSucceeds, TablesType, Saves
  <2>12. CASE SaveFails
    BY <2>0, <2>12 DEF SaveFails, TablesType, Saves
  <2>13. CASE Reconfigure
    BY <2>0, <2>13, LoadType DEF Reconfigure, TablesType, Saves
  <2>14. CASE Restart
    BY <2>0, <2>14, LoadType DEF Restart, TablesType, Saves
  <2>15. CASE UNCHANGED vars
    BY <2>0, <2>15 DEF vars, TablesType, Saves
  <2>16. QED
    BY <2>3, <2>4, <2>5, <2>6, <2>7, <2>8, <2>9, <2>10, <2>11, <2>12, <2>13,
       <2>14, <2>15
    DEF Next, KeyStep, PatchStep, AliasStep
<1>3. QED
  BY <1>1, <1>2, PTL DEF Spec


-----------------------------------------------------------------------------
\* What an upsert that writes the secret of its record does to a property of
\* the secrets in memory.
LEMMA UpsertSecrets ==
    ASSUME TablesType, NEW k \in Keys, NEW rec \in KeyRecords, Upsert(k, rec)
    PROVE  \A j \in Keys : keys'[j].hash = IF j = k THEN rec.hash ELSE keys[j].hash
  BY UpsertType

\* A revoked secret comes back only through a PATCH that had read the key
\* before: no failed save, no reload and no restart revives one.  A save that
\* is acknowledged writes the table it published, from which the revoked
\* secret is gone, and the next mutation starts from that table or from the
\* file.
THEOREM RevokedStayRevoked == Spec => []RevivedOnlyByPatch
<1> DEFINE Inv == NeverRevoked /\ RevivedOnlyByPatch
<1>1. Init => Inv
  BY DEF Init, NeverRevoked, RevivedOnlyByPatch
<1>2. Inv /\ TablesType /\ TablesType' /\ [Next]_vars => Inv'
  <2> SUFFICES ASSUME NeverRevoked, RevivedOnlyByPatch, TablesType, [Next]_vars
               PROVE  NeverRevoked' /\ RevivedOnlyByPatch'
    OBVIOUS
  <2> USE DEF NeverRevoked, RevivedOnlyByPatch
  <2>0. /\ keys \in KeyTables /\ aliases \in AliasTables /\ Saves
        /\ file.keys \in KeyTables
        /\ snap \in [Patchers -> {Idle} \cup [key : Keys, rec : KeyRecords]]
    BY DEF TablesType
  <2>1. ASSUME NEW k \in Keys, NEW rec \in KeyRecords, Upsert(k, rec),
               UNCHANGED file, revoked' \subseteq revoked,
               replayed \subseteq replayed',
               rec.hash \in revoked' => rec.hash \in replayed'
        PROVE  NeverRevoked' /\ RevivedOnlyByPatch'
    <3>1. saving'.revokes = {}
      BY <2>1, UpsertType
    <3>2. QED
      BY <2>1, <3>1, UpsertSecrets
  <2>2. ASSUME NEW k \in Keys, NEW s \in Secrets, NEW refs \in SUBSET Aliases,
               NEW models \in SUBSET Rules, CreateKey(k, s, refs, models)
        PROVE  NeverRevoked' /\ RevivedOnlyByPatch'
    <3>1. [hash |-> s, refs |-> refs, models |-> models] \in KeyRecords
      BY DEF KeyRecords
    <3>2. QED
      BY <2>1, <2>2, <3>1 DEF CreateKey
  <2>3. ASSUME NEW k \in Keys, NEW s \in Secrets, RotateKey(k, s)
        PROVE  NeverRevoked' /\ RevivedOnlyByPatch'
    <3>1. /\ keys' = [keys EXCEPT ![k].hash = s]
          /\ saving'.revokes = {keys[k].hash}
          /\ keys[k].hash # NoSecret
          /\ s \notin revoked
          /\ UNCHANGED <<file, revoked, replayed>>
      BY <2>3 DEF RotateKey, Publish, Exists
    <3>2. \A j \in Keys : keys'[j].hash = IF j = k THEN s ELSE keys[j].hash
      BY <2>0, <3>1, RotatedType
    <3>3. QED
      BY <3>1, <3>2
  <2>4. ASSUME NEW k \in Keys, DeleteKey(k)
        PROVE  NeverRevoked' /\ RevivedOnlyByPatch'
    <3>1. /\ keys' = [keys EXCEPT ![k] = NoKey]
          /\ saving'.revokes = {keys[k].hash}
          /\ keys[k].hash # NoSecret
          /\ UNCHANGED <<file, revoked, replayed>>
      BY <2>4 DEF DeleteKey, Publish, Exists
    <3>2. \A j \in Keys : keys'[j].hash = IF j = k THEN NoSecret ELSE keys[j].hash
      BY <2>0, <3>1, DeletedType DEF NoKey
    <3>3. QED
      BY <3>1, <3>2
  <2>5. ASSUME NEW p \in Patchers, NEW k \in Keys, PatchRead(p, k)
        PROVE  NeverRevoked' /\ RevivedOnlyByPatch'
    BY <2>5 DEF PatchRead
  <2>6. ASSUME NEW p \in Patchers, snap[p] # Idle
        PROVE  snap[p].key \in Keys /\ snap[p].rec \in KeyRecords
    BY <2>0, <2>6
  <2>7. ASSUME NEW p \in Patchers, snap[p] # Idle, NEW rec \in KeyRecords,
               rec.hash = snap[p].rec.hash, Upsert(snap[p].key, rec), Replays(p),
               UNCHANGED <<file, revoked>>
        PROVE  NeverRevoked' /\ RevivedOnlyByPatch'
    <3>1. /\ replayed \subseteq replayed'
          /\ rec.hash \in revoked => rec.hash \in replayed'
      BY <2>7 DEF Replays
    <3>2. QED
      BY <2>1, <2>6, <2>7, <3>1
  <2>8. ASSUME NEW p \in Patchers, NEW s \in Secrets, PatchSecret(p, s)
        PROVE  NeverRevoked' /\ RevivedOnlyByPatch'
    <3> DEFINE rec == [snap[p].rec EXCEPT !.hash = s]
    <3>1. /\ snap[p].key \in Keys
          /\ Upsert(snap[p].key, rec)
          /\ revoked' = revoked \ {s}
          /\ UNCHANGED <<file, replayed>>
      BY <2>6, <2>8 DEF PatchSecret
    <3>2. rec \in KeyRecords /\ rec.hash = s
      BY <2>6, <2>8 DEF PatchSecret, KeyRecords
    <3> HIDE DEF rec
    <3>3. QED
      BY <2>1, <3>1, <3>2
  <2>9. ASSUME NEW p \in Patchers, NEW rule \in Rules, PatchModels(p, {rule})
        PROVE  NeverRevoked' /\ RevivedOnlyByPatch'
    <3> DEFINE rec == [snap[p].rec EXCEPT !.models = {rule}]
    <3>1. /\ snap[p] # Idle
          /\ Upsert(snap[p].key, rec)
          /\ Replays(p)
          /\ UNCHANGED <<file, revoked>>
      BY <2>9 DEF PatchModels
    <3>2. rec \in KeyRecords /\ rec.hash = snap[p].rec.hash
      BY <2>6, <2>9 DEF PatchModels, KeyRecords
    <3> HIDE DEF rec
    <3>3. QED
      BY <2>7, <3>1, <3>2
  <2>10. ASSUME NEW p \in Patchers, NEW refs \in SUBSET Aliases, PatchAliases(p, refs)
         PROVE  NeverRevoked' /\ RevivedOnlyByPatch'
    <3> DEFINE rec == [snap[p].rec EXCEPT !.refs = refs]
    <3>1. /\ snap[p] # Idle
          /\ Upsert(snap[p].key, rec)
          /\ Replays(p)
          /\ UNCHANGED <<file, revoked>>
      BY <2>10 DEF PatchAliases
    <3>2. rec \in KeyRecords /\ rec.hash = snap[p].rec.hash
      BY <2>6, <2>10 DEF PatchAliases, KeyRecords
    <3> HIDE DEF rec
    <3>3. QED
      BY <2>7, <3>1, <3>2
  <2>11. ASSUME NEW p \in Patchers, PatchScalar(p)
         PROVE  NeverRevoked' /\ RevivedOnlyByPatch'
    BY <2>6, <2>7, <2>11 DEF PatchScalar
  <2>12. ASSUME NEW p \in Patchers, PatchRefused(p)
         PROVE  NeverRevoked' /\ RevivedOnlyByPatch'
    BY <2>12 DEF PatchRefused
  <2>13. ASSUME NEW a \in Aliases, NEW ts \in SUBSET Targets, UpsertAlias(a, ts)
         PROVE  NeverRevoked' /\ RevivedOnlyByPatch'
    <3>1. /\ keys' = Resolved(keys, [aliases EXCEPT ![a] = ts])
          /\ saving'.revokes = {}
          /\ UNCHANGED <<file, revoked, replayed>>
      BY <2>13 DEF UpsertAlias, Publish, Resolved
    <3>2. \A j \in Keys : keys'[j].hash = keys[j].hash
      BY <2>0, <3>1, ResolvedType
    <3>3. QED
      BY <3>1, <3>2
  <2>14. ASSUME NEW a \in Aliases, DeleteAlias(a)
         PROVE  NeverRevoked' /\ RevivedOnlyByPatch'
    BY <2>14 DEF DeleteAlias, Publish
  <2>15. CASE SaveSucceeds
    <3>1. \A k \in Keys : file'.keys[k].hash = keys[k].hash
      BY <2>0, <2>15, StrippedType DEF SaveSucceeds, Saves
    <3>2. NoSecret \notin Gone /\ \A k \in Keys : keys[k].hash \notin Gone
      BY <2>15 DEF SaveSucceeds, Gone
    <3>3. QED
      BY <2>15, <3>1, <3>2 DEF SaveSucceeds
  <2>16. CASE SaveFails
    BY <2>16 DEF SaveFails
  <2>17. CASE Reconfigure
    BY <2>17, LoadType DEF Reconfigure
  <2>18. CASE Restart
    BY <2>18, LoadType DEF Restart
  <2>19. CASE UNCHANGED vars
    BY <2>19 DEF vars
  <2> HIDE DEF NeverRevoked, RevivedOnlyByPatch
  <2>20. CASE KeyStep
    <3>1. {} \in SUBSET Aliases /\ {} \in SUBSET Rules
      OBVIOUS
    <3>2. \A rule \in Rules : {rule} \in SUBSET Rules
      OBVIOUS
    <3>3. QED
      BY <2>2, <2>3, <2>4, <2>20, <3>1, <3>2 DEF KeyStep
  <2>21. CASE PatchStep
    BY <2>5, <2>8, <2>9, <2>10, <2>11, <2>12, <2>21 DEF PatchStep
  <2>22. CASE AliasStep
    BY <2>13, <2>14, <2>22 DEF AliasStep
  <2>23. QED
    BY <2>15, <2>16, <2>17, <2>18, <2>19, <2>20, <2>21, <2>22 DEF Next
<1>3. QED
  BY <1>1, <1>2, TablesTyped, PTL DEF Spec

-----------------------------------------------------------------------------
\* More targets in the alias table give a key more rules.
LEMMA DerivedGrows ==
    ASSUME NEW refs, NEW al, NEW more, \A a \in Aliases : al[a] \subseteq more[a]
    PROVE  Derived(refs, al) \subseteq Derived(refs, more)
  BY DEF Derived, Rules

\* No key is ever routed to a target its aliases do not have, whatever tables
\* config.yaml brings.
THEOREM RoutesFollowAliases == Spec => []NoPhantomTarget
<1>1. Init => NoPhantomTarget
  <2>1. ASSUME Init, NEW k \in Keys PROVE keys[k].models = {}
    BY <2>1 DEF Init, NoKey
  <2>2. QED
    BY <2>1 DEF NoPhantomTarget
<1>2. NoPhantomTarget /\ TablesType /\ [Next]_vars => NoPhantomTarget'
  <2> SUFFICES ASSUME NoPhantomTarget, TablesType, [Next]_vars
               PROVE  NoPhantomTarget'
    OBVIOUS
  <2>0. /\ keys \in KeyTables
        /\ \A p \in Patchers : snap[p] # Idle =>
               snap[p].key \in Keys /\ snap[p].rec \in KeyRecords
    BY DEF TablesType
  <2>1. ASSUME NEW k \in Keys, NEW rec \in KeyRecords, Upsert(k, rec)
        PROVE  NoPhantomTarget'
    <3>1. ASSUME NEW j \in Keys, j # k
          PROVE  keys'[j].models \subseteq Derived(keys'[j].refs, aliases')
      <4>1. keys'[j] = keys[j] /\ \A a \in Aliases : aliases[a] \subseteq aliases'[a]
        BY <2>1, <3>1, UpsertType
      <4>2. keys[j].models \subseteq Derived(keys[j].refs, aliases)
        BY DEF NoPhantomTarget
      <4>3. QED
        BY <4>1, <4>2, DerivedGrows
    <3>2. QED
      BY <2>1, <3>1, UpsertType DEF NoPhantomTarget
  <2>2. CASE UNCHANGED <<keys, aliases>>
    BY <2>2 DEF NoPhantomTarget
  <2>3. CASE LoadFile
    BY <2>3, LoadType DEF NoPhantomTarget
  <2>4. ASSUME NEW k \in Keys, NEW s \in Secrets, NEW refs \in SUBSET Aliases,
               NEW models \in SUBSET Rules, CreateKey(k, s, refs, models)
        PROVE  NoPhantomTarget'
    <3>1. [hash |-> s, refs |-> refs, models |-> models] \in KeyRecords
      BY DEF KeyRecords
    <3>2. QED
      BY <2>1, <2>4, <3>1 DEF CreateKey
  <2>5. ASSUME NEW k \in Keys, NEW s \in Secrets, RotateKey(k, s)
        PROVE  NoPhantomTarget'
    <3>1. keys' = [keys EXCEPT ![k].hash = s] /\ aliases' = aliases
      BY <2>5 DEF RotateKey, Publish
    <3>2. \A j \in Keys : keys'[j].refs = keys[j].refs /\ keys'[j].models = keys[j].models
      BY <2>0, <3>1, RotatedType
    <3>3. QED
      BY <3>1, <3>2 DEF NoPhantomTarget
  <2>6. ASSUME NEW k \in Keys, DeleteKey(k) PROVE NoPhantomTarget'
    <3>1. keys' = [keys EXCEPT ![k] = NoKey] /\ aliases' = aliases
      BY <2>6 DEF DeleteKey, Publish
    <3>2. keys'[k].models = {} /\ \A j \in Keys : j # k => keys'[j] = keys[j]
      BY <2>0, <3>1, DeletedType DEF NoKey
    <3>3. QED
      BY <3>1, <3>2 DEF NoPhantomTarget
  <2>7. ASSUME NEW p \in Patchers,
               \/ PatchScalar(p)
               \/ \E s \in Secrets : PatchSecret(p, s)
               \/ \E rule \in Rules : PatchModels(p, {rule})
               \/ \E refs \in SUBSET Aliases : PatchAliases(p, refs)
        PROVE  NoPhantomTarget'
    <3>1. snap[p].key \in Keys /\ snap[p].rec \in KeyRecords
      BY <2>0, <2>7 DEF PatchScalar, PatchSecret, PatchModels, PatchAliases
    <3>2. ASSUME NEW s \in Secrets PROVE [snap[p].rec EXCEPT !.hash = s] \in KeyRecords
      BY <3>1 DEF KeyRecords
    <3>3. ASSUME NEW rule \in Rules
          PROVE  [snap[p].rec EXCEPT !.models = {rule}] \in KeyRecords
      BY <3>1 DEF KeyRecords
    <3>4. ASSUME NEW refs \in SUBSET Aliases
          PROVE  [snap[p].rec EXCEPT !.refs = refs] \in KeyRecords
      BY <3>1 DEF KeyRecords
    <3>5. QED
      BY <2>1, <2>7, <3>1, <3>2, <3>3, <3>4
      DEF PatchScalar, PatchSecret, PatchModels, PatchAliases
  <2>8. ASSUME NEW a \in Aliases, NEW ts \in SUBSET Targets, UpsertAlias(a, ts)
        PROVE  NoPhantomTarget'
    <3>1. /\ keys' = Resolved(keys, [aliases EXCEPT ![a] = ts])
          /\ aliases' = [aliases EXCEPT ![a] = ts]
      BY <2>8 DEF UpsertAlias, Publish, Resolved
    <3>2. QED
      BY <2>0, <3>1, ResolvedType DEF NoPhantomTarget
  <2>9. ASSUME NEW a \in Aliases, DeleteAlias(a) PROVE NoPhantomTarget'
    <3>1. /\ keys' = keys
          /\ aliases' = [aliases EXCEPT ![a] = {}]
          /\ \A k \in Keys : a \notin keys[k].refs
      BY <2>9 DEF DeleteAlias, Publish
    <3>2. aliases \in AliasTables
      BY DEF TablesType
    <3>3. ASSUME NEW k \in Keys
          PROVE  Derived(keys[k].refs, aliases) \subseteq Derived(keys[k].refs, aliases')
      BY <3>1, <3>2 DEF Derived, Rules, AliasTables
    <3>4. QED
      BY <3>1, <3>3 DEF NoPhantomTarget
  <2>10. CASE KeyStep
    <3>1. {} \in SUBSET Aliases /\ {} \in SUBSET Rules
      OBVIOUS
    <3>2. \A rule \in Rules : {rule} \in SUBSET Rules
      OBVIOUS
    <3>3. QED
      BY <2>4, <2>5, <2>6, <2>10, <3>1, <3>2 DEF KeyStep
  <2>11. CASE PatchStep
    BY <2>2, <2>7, <2>11 DEF PatchStep, PatchRead, PatchRefused
  <2>12. CASE AliasStep
    BY <2>8, <2>9, <2>12 DEF AliasStep
  <2>13. QED
    BY <2>2, <2>3, <2>10, <2>11, <2>12
    DEF Next, SaveSucceeds, SaveFails, Reconfigure, Restart, vars
<1>3. QED
  BY <1>1, <1>2, TablesTyped, PTL DEF Spec

-----------------------------------------------------------------------------
\* Every reference resolves, in memory and in the file.
RefsResolve ==
    /\ RefsKnown(keys, aliases)
    /\ RefsKnown(file.keys, file.aliases)

\* The state file always validates again when no aliases are in config.yaml.
\* The reason is that references resolve in memory as well, and that a save
\* writes what memory holds.
THEOREM FileAlwaysLoads == ASSUME CfgAliases = {} PROVE Spec => []FileLoads
<1> USE DEF RefsKnown, Exists, Present
<1>1. Init => RefsResolve
  BY DEF Init, RefsResolve, NoKey
<1>2. RefsResolve /\ TablesType /\ [Next]_vars => RefsResolve'
  <2> SUFFICES ASSUME RefsResolve, TablesType, [Next]_vars
               PROVE  RefsResolve'
    OBVIOUS
  <2>0. /\ keys \in KeyTables /\ aliases \in AliasTables /\ Saves
        /\ file.keys \in KeyTables /\ file.aliases \in AliasTables
        /\ \A p \in Patchers : snap[p] # Idle =>
               snap[p].key \in Keys /\ snap[p].rec \in KeyRecords
    BY DEF TablesType
  <2>1. RefsKnown(keys, aliases) /\ RefsKnown(file.keys, file.aliases)
    BY DEF RefsResolve
  <2> HIDE DEF RefsKnown
  <2>2. ASSUME NEW k \in Keys, NEW rec \in KeyRecords, Upsert(k, rec),
               UNCHANGED file
        PROVE  RefsResolve'
    <3>1. /\ \A j \in Keys : j # k => keys'[j] = keys[j]
          /\ keys'[k].refs \subseteq Present(aliases')
          /\ \A a \in Aliases : aliases[a] \subseteq aliases'[a]
      BY <2>2, UpsertType
    <3>2. RefsKnown(keys', aliases')
      BY <2>1, <3>1 DEF RefsKnown
    <3>3. QED
      BY <2>1, <2>2, <3>2 DEF RefsResolve
  <2>3. CASE UNCHANGED <<keys, aliases, file>>
    BY <2>1, <2>3 DEF RefsResolve
  <2>4. CASE LoadFile /\ UNCHANGED file
    <3>1. aliases' = file.aliases
      BY <2>4, LoadType DEF LoadedAliases
    <3>2. RefsKnown(keys', aliases')
      BY <2>1, <2>4, <3>1, LoadType DEF RefsKnown
    <3>3. QED
      BY <2>1, <2>4, <3>2 DEF RefsResolve
  <2>5. ASSUME NEW k \in Keys, NEW s \in Secrets, NEW refs \in SUBSET Aliases,
               NEW models \in SUBSET Rules, CreateKey(k, s, refs, models)
        PROVE  RefsResolve'
    <3>1. [hash |-> s, refs |-> refs, models |-> models] \in KeyRecords
      BY DEF KeyRecords
    <3>2. QED
      BY <2>2, <2>5, <3>1 DEF CreateKey
  <2>6. ASSUME NEW k \in Keys, NEW s \in Secrets, RotateKey(k, s)
        PROVE  RefsResolve'
    <3>1. /\ keys' = [keys EXCEPT ![k].hash = s] /\ UNCHANGED <<aliases, file>>
          /\ keys[k].hash # NoSecret
      BY <2>6 DEF RotateKey, Publish
    <3>2. /\ \A j \in Keys : keys'[j].refs = keys[j].refs
          /\ \A j \in Keys : j # k => keys'[j].hash = keys[j].hash
      BY <2>0, <3>1, RotatedType
    <3>3. RefsKnown(keys', aliases)
      BY <2>1, <3>1, <3>2 DEF RefsKnown
    <3>4. QED
      BY <2>1, <3>1, <3>3 DEF RefsResolve
  <2>7. ASSUME NEW k \in Keys, DeleteKey(k) PROVE RefsResolve'
    <3>1. keys' = [keys EXCEPT ![k] = NoKey] /\ UNCHANGED <<aliases, file>>
      BY <2>7 DEF DeleteKey, Publish
    <3>2. keys'[k].hash = NoSecret /\ \A j \in Keys : j # k => keys'[j] = keys[j]
      BY <2>0, <3>1, DeletedType DEF NoKey
    <3>3. RefsKnown(keys', aliases)
      BY <2>1, <3>2 DEF RefsKnown
    <3>4. QED
      BY <2>1, <3>1, <3>3 DEF RefsResolve
  <2>8. ASSUME NEW p \in Patchers,
               \/ PatchScalar(p)
               \/ \E s \in Secrets : PatchSecret(p, s)
               \/ \E rule \in Rules : PatchModels(p, {rule})
               \/ \E refs \in SUBSET Aliases : PatchAliases(p, refs)
        PROVE  RefsResolve'
    <3>1. snap[p].key \in Keys /\ snap[p].rec \in KeyRecords
      BY <2>0, <2>8 DEF PatchScalar, PatchSecret, PatchModels, PatchAliases
    <3>2. ASSUME NEW s \in Secrets PROVE [snap[p].rec EXCEPT !.hash = s] \in KeyRecords
      BY <3>1 DEF KeyRecords
    <3>3. ASSUME NEW rule \in Rules
          PROVE  [snap[p].rec EXCEPT !.models = {rule}] \in KeyRecords
      BY <3>1 DEF KeyRecords
    <3>4. ASSUME NEW refs \in SUBSET Aliases
          PROVE  [snap[p].rec EXCEPT !.refs = refs] \in KeyRecords
      BY <3>1 DEF KeyRecords
    <3>5. QED
      BY <2>2, <2>8, <3>1, <3>2, <3>3, <3>4
      DEF PatchScalar, PatchSecret, PatchModels, PatchAliases
  <2>9. ASSUME NEW a \in Aliases, NEW ts \in SUBSET Targets, UpsertAlias(a, ts)
        PROVE  RefsResolve'
    <3>1. /\ keys' = Resolved(keys, [aliases EXCEPT ![a] = ts])
          /\ aliases' = [aliases EXCEPT ![a] = ts]
          /\ ts # {}
          /\ UNCHANGED file
      BY <2>9 DEF UpsertAlias, Publish, Resolved
    <3>2. Present(aliases) \subseteq Present(aliases')
      BY <2>0, <3>1 DEF AliasTables
    <3>3. \A k \in Keys : keys'[k].refs = keys[k].refs /\ keys'[k].hash = keys[k].hash
      BY <2>0, <3>1, ResolvedType
    <3>4. RefsKnown(keys', aliases')
      BY <2>1, <3>2, <3>3 DEF RefsKnown
    <3>5. QED
      BY <2>1, <3>1, <3>4 DEF RefsResolve
  <2>10. ASSUME NEW a \in Aliases, DeleteAlias(a) PROVE RefsResolve'
    <3>1. /\ keys' = keys
          /\ aliases' = [aliases EXCEPT ![a] = {}]
          /\ \A k \in Keys : a \notin keys[k].refs
          /\ UNCHANGED file
      BY <2>10 DEF DeleteAlias, Publish
    <3>2. Present(aliases) \ {a} \subseteq Present(aliases')
      BY <2>0, <3>1 DEF AliasTables
    <3>3. RefsKnown(keys, aliases')
      BY <2>1, <3>1, <3>2 DEF RefsKnown
    <3>4. QED
      BY <2>1, <3>1, <3>3 DEF RefsResolve
  <2>11. CASE SaveSucceeds
    <3>1. /\ file' = [keys |-> Stripped(keys), aliases |-> aliases]
          /\ UNCHANGED <<keys, aliases>>
      BY <2>0, <2>11 DEF SaveSucceeds, Saves
    <3>2. RefsKnown(Stripped(keys), aliases)
      BY <2>0, <2>1, StrippedType DEF RefsKnown
    <3>3. QED
      BY <2>1, <3>1, <3>2 DEF RefsResolve
  <2>12. CASE KeyStep
    <3>1. {} \in SUBSET Aliases /\ {} \in SUBSET Rules
      OBVIOUS
    <3>2. \A rule \in Rules : {rule} \in SUBSET Rules
      OBVIOUS
    <3>3. QED
      BY <2>5, <2>6, <2>7, <2>12, <3>1, <3>2 DEF KeyStep
  <2>13. CASE PatchStep
    BY <2>3, <2>8, <2>13 DEF PatchStep, PatchRead, PatchRefused
  <2>14. CASE AliasStep
    BY <2>9, <2>10, <2>14 DEF AliasStep
  <2>15. QED
    BY <2>3, <2>4, <2>11, <2>12, <2>13, <2>14
    DEF Next, SaveFails, Reconfigure, Restart, vars
<1>3. RefsResolve => FileLoads
  BY DEF RefsResolve, FileLoads, Loads, LoadedAliases
<1>4. QED
  BY <1>1, <1>2, <1>3, TablesTyped, PTL DEF Spec
-----------------------------------------------------------------------------
(***************************************************************************)
(* The picks that travel from Authenticate to Route.                       *)
(***************************************************************************)

Picks == [rule : RuleTargets, at : Nat, by : Requests]

Stages == UnderWay \cup {"idle", "denied", "routed", "answered", "gone"}

\* The stages of a request whose pick has been remembered.
Remembered == {"authed", "gone", "routing", "resolving", "routed", "answering",
               "reanswering", "answered"}

\* The shape of the alias, of the pending picks and of what the requests hold.
PicksType ==
    /\ rules \in RuleLists
    /\ dispatch \in {"priority", "round-robin"}
    /\ counter \in {0, 1}
    /\ queue \in Seq(Picks)
    /\ Len(queue) <= MaxQueue
    /\ clock \in Nat
    /\ stage \in [Requests -> Stages]
    /\ copy \in [Requests -> RuleLists]
    /\ auth \in [Requests -> RuleTargets \cup {NoTarget}]
    /\ routed \in [Requests -> RuleTargets \cup {NoTarget}]
    /\ used \in SUBSET Requests
    /\ calm \in BOOLEAN
    /\ changes \in Nat

\* A request that has been looked up has rules, one that has selected a target
\* has that target, and one that has not been routed has none to go to.
HoldsInv ==
    \A r \in Requests :
        /\ stage[r] = "found" => copy[r] # <<>>
        /\ stage[r] = "selected" => auth[r] \in RuleTargets
        /\ stage[r] \in {"idle", "found", "selected", "authed", "routing"}
             => routed[r] = NoTarget

\* Only a request that remembered its pick has one pending or taken.
OwnedInv ==
    /\ \A i \in DOMAIN queue : stage[queue[i].by] \in Remembered
    /\ \A r \in used : stage[r] \in Remembered

\* The pick of this request is pending.
Waiting(r) == stage[r] \in {"authed", "routing"}

\* While requests come one at a time, one call is under way at most and the
\* queue holds the pick of the request between Authenticate and Route, fresh,
\* and nothing else.
CalmInv ==
    calm =>
        /\ \A r, q \in Requests : Active(r) /\ Active(q) => r = q
        /\ \A i \in DOMAIN queue : Fresh(queue[i])
        /\ \A r \in Requests :
             Waiting(r) => Len(queue) = 1 /\ queue[1].rule = auth[r]
        /\ (\A r \in Requests : ~Waiting(r)) => queue = <<>>
        /\ \A r \in Requests : stage[r] # "resolving"
        /\ SharedWhenAlone

PicksInv == PicksType /\ HoldsInv /\ OwnedInv /\ PickUsedOnce /\ CalmInv

\* s is what is left of q when its oldest picks are dropped.
Later(s, q) ==
    \E k \in 0 .. Len(q) :
        /\ Len(s) = Len(q) - k
        /\ \A i \in 1 .. Len(s) : s[i] = q[i + k]

\* The picks of q belong to different requests, none of which is in u.
Distinct(q, u) ==
    \A i \in 1 .. Len(q) :
        /\ q[i].by \notin u
        /\ \A j \in 1 .. Len(q) : i # j => q[i].by # q[j].by

\* The picks of q were remembered by requests at the stages st.
Owned(q, st) == \A i \in 1 .. Len(q) : st[q[i].by] \in Remembered

\* A list of rules is empty, has one target or has two.
LEMMA RuleListShape ==
  ASSUME NEW rs \in RuleLists
  PROVE  /\ rs \in Seq(RuleTargets)
         /\ Len(rs) \in 0 .. 2
         /\ rs # <<>> <=> Len(rs) > 0
<1>1. CASE rs = <<>>
  BY <1>1
<1>2. ASSUME NEW t \in RuleTargets, rs = <<t>>
      PROVE  rs \in Seq(RuleTargets) /\ Len(rs) = 1
  BY <1>2
<1>3. CASE rs \in RuleTargets \X RuleTargets
  <2>1. PICK t \in RuleTargets : \E u \in RuleTargets : rs = <<t, u>>
    BY <1>3
  <2>2. PICK u \in RuleTargets : rs = <<t, u>>
    BY <2>1
  <2>3. <<t, u>> \in Seq(RuleTargets) /\ Len(<<t, u>>) = 2
    OBVIOUS
  <2>4. rs # <<>>
    BY <2>2, <2>3
  <2>5. QED
    BY <2>2, <2>3, <2>4
<1>4. QED
  BY <1>1, <1>2, <1>3 DEF RuleLists

\* resolveRuleForAlias returns one of the rules, and the counter it leaves
\* behind indexes a list of two.
LEMMA SelectedIsRule ==
  ASSUME NEW rs \in RuleLists, rs # <<>>, counter \in {0, 1}
  PROVE  /\ Selected(rs) \in RuleTargets
         /\ Rotate(rs) => counter' \in {0, 1}
<1>1. rs \in Seq(RuleTargets) /\ Len(rs) \in {1, 2}
  BY RuleListShape
<1>2. rs[1] \in RuleTargets
  BY <1>1
<1>3. Rotates(rs) => Len(rs) = 2
  BY <1>1 DEF Rotates
<1>4. Rotates(rs) => rs[counter + 1] \in RuleTargets
  <2>1. CASE counter = 0
    BY <1>2, <2>1
  <2>2. CASE counter = 1
    <3>1. Len(rs) = 2 => rs[2] \in RuleTargets
      BY <1>1
    <3>2. QED
      BY <1>3, <2>2, <3>1
  <2>3. QED
    BY <2>1, <2>2
<1>5. Rotates(rs) => (counter + 1) % Len(rs) \in {0, 1}
  <2>1. (0 + 1) % 2 \in {0, 1} /\ (1 + 1) % 2 \in {0, 1}
    OBVIOUS
  <2>2. (counter + 1) % 2 \in {0, 1}
    <3>1. CASE counter = 0
      BY <2>1, <3>1
    <3>2. CASE counter = 1
      BY <2>1, <3>2
    <3>3. QED
      BY <3>1, <3>2
  <2>3. QED
    BY <1>3, <2>2
<1>6. QED
  BY <1>2, <1>4, <1>5 DEF Selected, Rotate

\* What is left of a queue keeps what holds of its picks.
LEMMA LaterKeeps ==
  ASSUME NEW q \in Seq(Picks), NEW s \in Seq(Picks), Later(s, q), NEW u, NEW st,
         Distinct(q, u), Owned(q, st)
  PROVE  Distinct(s, u) /\ Owned(s, st)
<1>1. PICK k \in 0 .. Len(q) :
         /\ Len(s) = Len(q) - k
         /\ \A i \in 1 .. Len(s) : s[i] = q[i + k]
  BY DEF Later
<1>2. Len(q) \in Nat /\ Len(s) \in Nat
  OBVIOUS
<1>3. \A i \in 1 .. Len(s) : i + k \in 1 .. Len(q)
  BY <1>1, <1>2
<1>4. Owned(s, st)
  BY <1>1, <1>3 DEF Owned
<1>5. ASSUME NEW i \in 1 .. Len(s)
      PROVE  /\ s[i].by \notin u
             /\ \A j \in 1 .. Len(s) : i # j => s[i].by # s[j].by
  <2>1. s[i] = q[i + k] /\ i + k \in 1 .. Len(q)
    BY <1>1, <1>3
  <2>2. \A j \in 1 .. Len(s) : s[j] = q[j + k] /\ j + k \in 1 .. Len(q)
    BY <1>1, <1>3
  <2>3. \A j \in 1 .. Len(s) : i # j => i + k # j + k
    BY <1>1
  <2>4. QED
    BY <2>1, <2>2, <2>3 DEF Distinct
<1>6. QED
  BY <1>4, <1>5 DEF Distinct

\* Dropping the first k picks leaves the later ones.
LEMMA DropIsLater ==
  ASSUME NEW q \in Seq(Picks), NEW k \in 0 .. Len(q)
  PROVE  /\ SubSeq(q, k + 1, Len(q)) \in Seq(Picks)
         /\ Len(SubSeq(q, k + 1, Len(q))) = Len(q) - k
         /\ Later(SubSeq(q, k + 1, Len(q)), q)
<1> DEFINE s == SubSeq(q, k + 1, Len(q))
<1>1. Len(q) \in Nat /\ k + 1 \in Int /\ \A i \in k + 1 .. Len(q) : q[i] \in Picks
  OBVIOUS
<1>2. /\ s \in Seq(Picks)
      /\ Len(s) = IF k + 1 <= Len(q) THEN Len(q) - (k + 1) + 1 ELSE 0
      /\ \A i \in 1 .. Len(q) - (k + 1) + 1 : s[i] = q[(k + 1) + i - 1]
  BY <1>1, SubSeqProperties
<1>3. Len(s) = Len(q) - k
  BY <1>1, <1>2
<1>4. \A i \in 1 .. Len(s) : s[i] = q[i + k]
  <2>1. SUFFICES ASSUME NEW i \in 1 .. Len(s) PROVE s[i] = q[i + k]
    OBVIOUS
  <2>2. i \in 1 .. Len(q) - (k + 1) + 1 /\ (k + 1) + i - 1 = i + k
    BY <1>1, <1>3
  <2>3. QED
    BY <1>2, <2>2
<1>5. QED
  BY <1>2, <1>3, <1>4 DEF Later

\* prunePendingLocked drops the oldest picks, and none if all are fresh.
LEMMA PrunedIsLater ==
  ASSUME queue \in Seq(Picks)
  PROVE  /\ Pruned \in Seq(Picks)
         /\ Len(Pruned) <= Len(queue)
         /\ Later(Pruned, queue)
         /\ (\A i \in DOMAIN queue : Fresh(queue[i])) => Pruned = queue
<1>1. Len(queue) \in Nat /\ DOMAIN queue = 1 .. Len(queue)
  OBVIOUS
<1>2. Expired \subseteq 1 .. Len(queue)
  BY <1>1 DEF Expired
<1>3. /\ IsFiniteSet(1 .. Len(queue))
      /\ Cardinality(1 .. Len(queue)) = IF 1 > Len(queue) THEN 0 ELSE Len(queue) - 1 + 1
  BY <1>1, FS_Interval
<1>4. IsFiniteSet(Expired) /\ Cardinality(Expired) <= Cardinality(1 .. Len(queue))
  BY <1>2, <1>3, FS_Subset
<1>5. Cardinality(Expired) \in Nat
  BY <1>4, FS_CardinalityType
<1>6. Cardinality(Expired) \in 0 .. Len(queue)
  BY <1>1, <1>3, <1>4, <1>5
<1>7. /\ Pruned \in Seq(Picks)
      /\ Len(Pruned) = Len(queue) - Cardinality(Expired)
      /\ Later(Pruned, queue)
  BY <1>6, DropIsLater DEF Pruned
<1>8. ASSUME \A i \in DOMAIN queue : Fresh(queue[i])
      PROVE  Pruned = queue
  <2>1. \A i \in 1 .. Len(queue) : i \in 1 .. i
    BY <1>1
  <2>2. Expired = {}
    BY <1>1, <1>8, <2>1 DEF Expired
  <2>3. Cardinality(Expired) = 0
    BY <2>2, FS_EmptySet
  <2>4. SubSeq(queue, 1, Len(queue)) = queue
    BY SubSeqFull
  <2>5. QED
    BY <2>3, <2>4 DEF Pruned
<1>9. QED
  BY <1>1, <1>5, <1>7, <1>8

\* The cap of rememberPick keeps the newest picks, and all if they fit.
LEMMA CappedIsLater ==
  ASSUME NEW q \in Seq(Picks)
  PROVE  /\ Capped(q) \in Seq(Picks)
         /\ Len(Capped(q)) <= MaxQueue
         /\ Later(Capped(q), q)
         /\ Len(q) <= MaxQueue => Capped(q) = q
<1>0. Len(q) \in Nat /\ MaxQueue \in Nat
  BY QueueAssumption
<1>1. CASE Len(q) > MaxQueue
  <2>1. Len(q) - MaxQueue \in 0 .. Len(q)
    BY <1>0, <1>1
  <2>2. Capped(q) = SubSeq(q, Len(q) - MaxQueue + 1, Len(q))
    BY <1>1 DEF Capped
  <2>3. /\ Capped(q) \in Seq(Picks)
        /\ Len(Capped(q)) = Len(q) - (Len(q) - MaxQueue)
        /\ Later(Capped(q), q)
    BY <2>1, <2>2, DropIsLater
  <2>4. QED
    BY <1>0, <1>1, <2>3
<1>2. CASE ~(Len(q) > MaxQueue)
  <2>1. Capped(q) = q
    BY <1>2 DEF Capped
  <2>2. 0 \in 0 .. Len(q) /\ Len(q) = Len(q) - 0
    BY <1>0
  <2>3. \A i \in 1 .. Len(q) : q[i] = q[i + 0]
    BY <1>0
  <2>4. Later(q, q)
    BY <2>2, <2>3 DEF Later
  <2>5. QED
    BY <1>0, <1>2, <2>1, <2>4
<1>3. QED
  BY <1>1, <1>2

\* takePick takes the oldest pick.
LEMMA TakenIsLater ==
  ASSUME NEW q \in Seq(Picks), q # <<>>
  PROVE  /\ Head(q) = q[1]
         /\ Head(q) \in Picks
         /\ Taken(q) \in Seq(Picks)
         /\ Len(Taken(q)) = Len(q) - 1
         /\ Later(Taken(q), q)
         /\ \A i \in 1 .. Len(Taken(q)) : Taken(q)[i] = q[i + 1]
<1>1. /\ Head(q) \in Picks
      /\ Taken(q) \in Seq(Picks)
      /\ Len(Taken(q)) = Len(q) - 1
      /\ \A i \in 1 .. Len(Taken(q)) : Taken(q)[i] = q[i + 1]
  BY HeadTailProperties DEF Taken
<1>2. Len(q) \in Nat /\ Len(q) > 0 /\ 1 \in 0 .. Len(q)
  OBVIOUS
<1>3. Head(q) = q[1]
  OBVIOUS
<1>4. QED
  BY <1>1, <1>2, <1>3 DEF Later

\* A step of a call changes the stage of its request alone.
LEMMA MoveFacts ==
  ASSUME NEW r \in Requests, NEW to \in Stages, Move(r, to),
         stage \in [Requests -> Stages], calm \in BOOLEAN
  PROVE  /\ stage' \in [Requests -> Stages]
         /\ stage'[r] = to
         /\ \A q \in Requests \ {r} : stage'[q] = stage[q]
         /\ calm' \in BOOLEAN
         /\ calm' => calm /\ Alone(r) /\ to # "gone"
BY DEF Move

\* rememberPick appends the pick to the fresh part of the queue.
LEMMA Remembering ==
  ASSUME PicksType, HoldsInv, NEW r \in Requests, RememberPick(r)
  PROVE  LET p == [rule |-> auth[r], at |-> clock, by |-> r]
         IN  /\ p \in Picks
             /\ Pruned \in Seq(Picks)
             /\ Append(Pruned, p) \in Seq(Picks)
             /\ queue' = Capped(Append(Pruned, p))
             /\ queue' \in Seq(Picks)
             /\ Len(queue') <= MaxQueue
<1> DEFINE p == [rule |-> auth[r], at |-> clock, by |-> r]
<1>1. p \in Picks
  BY DEF PicksType, HoldsInv, RememberPick, Picks
<1>2. Pruned \in Seq(Picks)
  BY PrunedIsLater DEF PicksType
<1>3. Append(Pruned, p) \in Seq(Picks)
  BY <1>1, <1>2
<1>4. queue' = Capped(Append(Pruned, p))
  BY DEF RememberPick
<1>5. QED
  BY <1>1, <1>2, <1>3, <1>4, CappedIsLater

\* takePick empties the queue or takes the head of its fresh part.
LEMMA Taking ==
  ASSUME PicksType, NEW r \in Requests, TakePick(r)
  PROVE  /\ Pruned \in Seq(Picks)
         /\ queue' \in Seq(Picks)
         /\ Len(queue') <= MaxQueue
         /\ \/ Pruned = <<>> /\ queue' = <<>> /\ UNCHANGED <<routed, used>>
            \/ /\ Pruned # <<>>
               /\ Head(Pruned) \in Picks
               /\ queue' = Taken(Pruned)
               /\ used' = used \cup {Head(Pruned).by}
               /\ routed' = [routed EXCEPT ![r] =
                    IF stage[r] = "routing" THEN Head(Pruned).rule ELSE @]
<1>1. /\ Pruned \in Seq(Picks)
      /\ Len(Pruned) <= Len(queue)
  BY PrunedIsLater DEF PicksType
<1>2. MaxQueue \in Nat /\ Len(queue) \in Nat /\ Len(queue) <= MaxQueue
  BY QueueAssumption DEF PicksType
<1>3. CASE Pruned = <<>>
  <2>1. queue' = <<>> /\ UNCHANGED <<routed, used>>
    BY <1>3 DEF TakePick
  <2>2. queue' \in Seq(Picks) /\ Len(queue') = 0
    BY <2>1
  <2>3. QED
    BY <1>1, <1>2, <1>3, <2>1, <2>2
<1>4. CASE Pruned # <<>>
  <2>1. /\ queue' = Taken(Pruned)
        /\ used' = used \cup {Head(Pruned).by}
        /\ routed' = [routed EXCEPT ![r] =
             IF stage[r] = "routing" THEN Head(Pruned).rule ELSE @]
    BY <1>4 DEF TakePick
  <2>2. /\ Head(Pruned) \in Picks
        /\ Taken(Pruned) \in Seq(Picks)
        /\ Len(Taken(Pruned)) = Len(Pruned) - 1
    BY <1>1, <1>4, TakenIsLater
  <2>3. Len(Pruned) \in Nat
    BY <1>1
  <2>4. QED
    BY <1>1, <1>2, <1>4, <2>1, <2>2, <2>3
<1>5. QED
  BY <1>3, <1>4

\* The shape of the state and what the requests hold survive every step.
LEMMA PicksTypeStep ==
  ASSUME PicksType, HoldsInv, [PicksNext]_pickVars
  PROVE  PicksType' /\ HoldsInv'
<1>0. /\ <<>> \in RuleLists
      /\ rules \in RuleLists
      /\ counter \in {0, 1}
      /\ copy \in [Requests -> RuleLists]
  BY DEF PicksType, RuleLists
<1>1. ASSUME NEW r \in Requests, Lookup(r) PROVE PicksType' /\ HoldsInv'
  <2>1. (IF rules = <<>> THEN "denied" ELSE "found") \in Stages
    BY DEF Stages, UnderWay
  <2>2. /\ stage' \in [Requests -> Stages]
        /\ stage'[r] = (IF rules = <<>> THEN "denied" ELSE "found")
        /\ \A q \in Requests \ {r} : stage'[q] = stage[q]
        /\ calm' \in BOOLEAN
    BY <1>1, <2>1, MoveFacts DEF Lookup, PicksType
  <2>3. PicksType'
    BY <1>0, <1>1, <2>2 DEF PicksType, Lookup
  <2>4. HoldsInv'
    BY <1>0, <1>1, <2>2 DEF PicksType, HoldsInv, Lookup
  <2>5. QED
    BY <2>3, <2>4
<1>2. ASSUME NEW r \in Requests, Select(r) PROVE PicksType' /\ HoldsInv'
  <2>1. "selected" \in Stages
    BY DEF Stages, UnderWay
  <2>2. /\ stage' \in [Requests -> Stages]
        /\ stage'[r] = "selected"
        /\ \A q \in Requests \ {r} : stage'[q] = stage[q]
        /\ calm' \in BOOLEAN
    BY <1>2, <2>1, MoveFacts DEF Select, PicksType
  <2>3. copy[r] \in RuleLists /\ copy[r] # <<>>
    BY <1>0, <1>2 DEF HoldsInv, Select
  <2>4. Selected(copy[r]) \in RuleTargets /\ counter' \in {0, 1}
    BY <1>0, <1>2, <2>3, SelectedIsRule DEF Select
  <2>5. auth' = [auth EXCEPT ![r] = Selected(copy[r])]
    BY <1>2 DEF Select
  <2>6. auth' \in [Requests -> RuleTargets \cup {NoTarget}]
    BY <2>4, <2>5 DEF PicksType
  <2>7. PicksType'
    BY <1>2, <2>2, <2>4, <2>6 DEF PicksType, Select
  <2>8. auth'[r] \in RuleTargets /\ \A q \in Requests \ {r} : auth'[q] = auth[q]
    BY <2>4, <2>5 DEF PicksType
  <2>9. stage[r] = "found" /\ UNCHANGED <<copy, routed>>
    BY <1>2 DEF Select
  <2>10. HoldsInv'
    BY <2>2, <2>8, <2>9 DEF HoldsInv
  <2>11. QED
    BY <2>7, <2>10
<1>3. ASSUME NEW r \in Requests, Limited(r) PROVE PicksType' /\ HoldsInv'
  <2>1. "denied" \in Stages
    BY DEF Stages
  <2>2. /\ stage' \in [Requests -> Stages]
        /\ stage'[r] = "denied"
        /\ \A q \in Requests \ {r} : stage'[q] = stage[q]
        /\ calm' \in BOOLEAN
    BY <1>3, <2>1, MoveFacts DEF Limited, PicksType
  <2>3. PicksType'
    BY <1>3, <2>2 DEF PicksType, Limited
  <2>4. UNCHANGED <<copy, auth, routed>>
    BY <1>3 DEF Limited
  <2>5. HoldsInv'
    BY <2>2, <2>4 DEF HoldsInv
  <2>6. QED
    BY <2>3, <2>5
<1>4. ASSUME NEW r \in Requests, RememberPick(r) PROVE PicksType' /\ HoldsInv'
  <2>1. "authed" \in Stages
    BY DEF Stages, UnderWay
  <2>2. /\ stage' \in [Requests -> Stages]
        /\ stage'[r] = "authed"
        /\ \A q \in Requests \ {r} : stage'[q] = stage[q]
        /\ calm' \in BOOLEAN
    BY <1>4, <2>1, MoveFacts DEF RememberPick, PicksType
  <2>3. queue' \in Seq(Picks) /\ Len(queue') <= MaxQueue
    BY <1>4, Remembering
  <2>4. PicksType'
    BY <1>4, <2>2, <2>3 DEF PicksType, RememberPick
  <2>5. stage[r] = "selected" /\ UNCHANGED <<copy, auth, routed>>
    BY <1>4 DEF RememberPick
  <2>6. HoldsInv'
    BY <2>2, <2>5 DEF HoldsInv
  <2>7. QED
    BY <2>4, <2>6
<1>5. ASSUME NEW r \in Requests, Abandon(r) PROVE PicksType' /\ HoldsInv'
  <2>1. "gone" \in Stages
    BY DEF Stages
  <2>2. /\ stage' \in [Requests -> Stages]
        /\ stage'[r] = "gone"
        /\ \A q \in Requests \ {r} : stage'[q] = stage[q]
        /\ calm' \in BOOLEAN
    BY <1>5, <2>1, MoveFacts DEF Abandon, PicksType
  <2>3. PicksType'
    BY <1>5, <2>2 DEF PicksType, Abandon
  <2>4. UNCHANGED <<copy, auth, routed>>
    BY <1>5 DEF Abandon
  <2>5. HoldsInv'
    BY <2>2, <2>4 DEF HoldsInv
  <2>6. QED
    BY <2>3, <2>5
<1>6. ASSUME NEW r \in Requests, RouteLookup(r) PROVE PicksType' /\ HoldsInv'
  <2>1. "routing" \in Stages /\ "answering" \in Stages
    BY DEF Stages, UnderWay
  <2>2. /\ stage' \in [Requests -> Stages]
        /\ \/ stage[r] = "authed" /\ stage'[r] = "routing"
           \/ stage[r] = "routed" /\ stage'[r] = "answering"
        /\ \A q \in Requests \ {r} : stage'[q] = stage[q]
        /\ calm' \in BOOLEAN
    BY <1>6, <2>1, MoveFacts DEF RouteLookup, PicksType
  <2>3. PicksType'
    BY <1>0, <1>6, <2>2 DEF PicksType, RouteLookup
  <2>4. copy' = [copy EXCEPT ![r] = rules] /\ UNCHANGED <<auth, routed>>
    BY <1>6 DEF RouteLookup
  <2>5. HoldsInv'
    BY <1>0, <2>2, <2>4 DEF HoldsInv
  <2>6. QED
    BY <2>3, <2>5
<1>7. ASSUME NEW r \in Requests, TakePick(r) PROVE PicksType' /\ HoldsInv'
  <2>1. {"resolving", "reanswering", "routed", "answered"} \subseteq Stages
    BY DEF Stages, UnderWay
  <2>2. \E to \in {"resolving", "reanswering", "routed", "answered"} : Move(r, to)
    BY <1>7 DEF TakePick
  <2>3. PICK to \in {"resolving", "reanswering", "routed", "answered"} : Move(r, to)
    BY <2>2
  <2>4. /\ stage' \in [Requests -> Stages]
        /\ stage'[r] = to
        /\ \A q \in Requests \ {r} : stage'[q] = stage[q]
        /\ calm' \in BOOLEAN
    BY <2>1, <2>3, MoveFacts DEF PicksType
  <2>5. /\ queue' \in Seq(Picks)
        /\ Len(queue') <= MaxQueue
        /\ used' \in SUBSET Requests
        /\ routed' \in [Requests -> RuleTargets \cup {NoTarget}]
        /\ \A q \in Requests \ {r} : routed'[q] = routed[q]
    BY <1>7, Taking DEF PicksType, Picks
  <2>6. PicksType'
    BY <1>7, <2>4, <2>5 DEF PicksType, TakePick
  <2>7. UNCHANGED <<copy, auth>>
    BY <1>7 DEF TakePick
  <2>8. HoldsInv'
    BY <2>4, <2>5, <2>7 DEF HoldsInv
  <2>9. QED
    BY <2>6, <2>8
<1>8. ASSUME NEW r \in Requests, RouteResolve(r) PROVE PicksType' /\ HoldsInv'
  <2>1. {"gone", "routed", "answered"} \subseteq Stages
    BY DEF Stages
  <2>2. \E to \in {"gone", "routed", "answered"} : Move(r, to)
    BY <1>8 DEF RouteResolve
  <2>3. PICK to \in {"gone", "routed", "answered"} : Move(r, to)
    BY <2>2
  <2>4. /\ stage' \in [Requests -> Stages]
        /\ stage'[r] = to
        /\ \A q \in Requests \ {r} : stage'[q] = stage[q]
        /\ calm' \in BOOLEAN
    BY <2>1, <2>3, MoveFacts DEF PicksType
  <2>5. copy[r] \in RuleLists
    BY <1>0
  <2>6. copy[r] # <<>> => Selected(copy[r]) \in RuleTargets /\ counter' \in {0, 1}
    BY <1>0, <1>8, <2>5, SelectedIsRule DEF RouteResolve
  <2>7. counter' \in {0, 1}
    BY <1>0, <1>8, <2>6 DEF RouteResolve
  <2>8. /\ routed' \in [Requests -> RuleTargets \cup {NoTarget}]
        /\ \A q \in Requests \ {r} : routed'[q] = routed[q]
    BY <1>8, <2>6 DEF PicksType, RouteResolve
  <2>9. PicksType'
    BY <1>8, <2>4, <2>7, <2>8 DEF PicksType, RouteResolve
  <2>10. UNCHANGED <<copy, auth>>
    BY <1>8 DEF RouteResolve
  <2>11. HoldsInv'
    BY <2>4, <2>8, <2>10 DEF HoldsInv
  <2>12. QED
    BY <2>9, <2>11
<1>9. <<>> \in Seq(Picks) /\ Len(<<>>) <= MaxQueue
  BY QueueAssumption
<1>10. Change => calm' \in BOOLEAN /\ changes' \in Nat
  BY DEF Change, PicksType
<1>11. ASSUME NEW rs \in RuleLists, UpsertKey(rs) PROVE PicksType' /\ HoldsInv'
  <2>1. PicksType'
    BY <1>9, <1>10, <1>11 DEF PicksType, UpsertKey
  <2>2. HoldsInv'
    BY <1>11 DEF HoldsInv, UpsertKey
  <2>3. QED
    BY <2>1, <2>2
<1>12. ASSUME NEW rs \in RuleLists, NEW d \in {"priority", "round-robin"},
              UpsertAliasRules(rs, d)
       PROVE  PicksType' /\ HoldsInv'
  <2>1. PicksType'
    BY <1>10, <1>12 DEF PicksType, UpsertAliasRules
  <2>2. HoldsInv'
    BY <1>12 DEF HoldsInv, UpsertAliasRules
  <2>3. QED
    BY <2>1, <2>2
<1>13. ASSUME NEW rs \in RuleLists, NEW d \in {"priority", "round-robin"},
              Configure(rs, d)
       PROVE  PicksType' /\ HoldsInv'
  <2>1. PicksType'
    BY <1>9, <1>10, <1>13 DEF PicksType, Configure
  <2>2. HoldsInv'
    BY <1>13 DEF HoldsInv, Configure
  <2>3. QED
    BY <2>1, <2>2
<1>14. CASE Tick
  <2>1. clock' \in Nat /\ calm' \in BOOLEAN
    BY <1>14 DEF Tick, PicksType
  <2>2. PicksType'
    BY <1>14, <2>1 DEF PicksType, Tick
  <2>3. HoldsInv'
    BY <1>14 DEF HoldsInv, Tick
  <2>4. QED
    BY <2>2, <2>3
<1>15. CASE UNCHANGED pickVars
  BY <1>15 DEF PicksType, HoldsInv, pickVars
<1>16. QED
  BY <1>1, <1>2, <1>3, <1>4, <1>5, <1>6, <1>7, <1>8, <1>11, <1>12, <1>13,
     <1>14, <1>15
  DEF PicksNext, Call

\* A request that has remembered its pick never goes back.
LEMMA RememberedStay ==
  ASSUME PicksType, [PicksNext]_pickVars, NEW q \in Requests,
         stage[q] \in Remembered
  PROVE  stage'[q] \in Remembered
<1>1. ASSUME NEW r \in Requests, NEW to \in Stages, Move(r, to),
             stage[r] \in Remembered => to \in Remembered
      PROVE  stage'[q] \in Remembered
  BY <1>1, MoveFacts DEF PicksType
<1>2. {"denied", "found", "selected", "authed", "gone", "routing", "answering",
       "resolving", "reanswering", "routed", "answered"} \subseteq Stages
  BY DEF Stages, UnderWay
<1>3. /\ {"authed", "gone", "routing", "answering", "resolving", "reanswering",
          "routed", "answered"} \subseteq Remembered
      /\ "idle" \notin Remembered /\ "found" \notin Remembered
      /\ "selected" \notin Remembered
  BY DEF Remembered
<1>4. ASSUME NEW r \in Requests, Call(r) PROVE stage'[q] \in Remembered
  <2>1. CASE Lookup(r)
    BY <1>1, <1>2, <1>3, <2>1 DEF Lookup
  <2>2. CASE Select(r)
    BY <1>1, <1>2, <1>3, <2>2 DEF Select
  <2>3. CASE Limited(r)
    BY <1>1, <1>2, <1>3, <2>3 DEF Limited
  <2>4. CASE RememberPick(r)
    BY <1>1, <1>2, <1>3, <2>4 DEF RememberPick
  <2>5. CASE Abandon(r)
    BY <1>1, <1>2, <1>3, <2>5 DEF Abandon
  <2>6. CASE RouteLookup(r)
    BY <1>1, <1>2, <1>3, <2>6 DEF RouteLookup
  <2>7. CASE TakePick(r)
    BY <1>1, <1>2, <1>3, <2>7 DEF TakePick
  <2>8. CASE RouteResolve(r)
    BY <1>1, <1>2, <1>3, <2>8 DEF RouteResolve
  <2>9. QED
    BY <1>4, <2>1, <2>2, <2>3, <2>4, <2>5, <2>6, <2>7, <2>8 DEF Call
<1>5. QED
  BY <1>4 DEF PicksNext, UpsertKey, UpsertAliasRules, Configure, Tick, pickVars

\* Pending and taken picks in the words of the lemmas about queues.
LEMMA InvOfQueue ==
  ASSUME queue \in Seq(Picks)
  PROVE  /\ PickUsedOnce <=> Distinct(queue, used)
         /\ OwnedInv <=> Owned(queue, stage) /\ \A r \in used : stage[r] \in Remembered
<1>1. DOMAIN queue = 1 .. Len(queue)
  OBVIOUS
<1>2. QED
  BY <1>1 DEF PickUsedOnce, OwnedInv, Distinct, Owned

\* No step makes a pick serve twice.
LEMMA OnceStep ==
  ASSUME PicksType, HoldsInv, OwnedInv, PickUsedOnce, [PicksNext]_pickVars
  PROVE  OwnedInv' /\ PickUsedOnce'
<1>1. PicksType'
  BY PicksTypeStep
<1>2. /\ queue \in Seq(Picks) /\ queue' \in Seq(Picks)
      /\ used \subseteq Requests
      /\ Distinct(queue, used)
      /\ Owned(queue, stage)
      /\ \A r \in used : stage[r] \in Remembered
  BY <1>1, InvOfQueue DEF PicksType
<1>3. /\ \A r \in used : stage'[r] \in Remembered
      /\ \A r \in Requests : stage[r] \in Remembered => stage'[r] \in Remembered
  BY <1>2, RememberedStay
<1>4. ASSUME NEW q \in Seq(Picks), Owned(q, stage) PROVE Owned(q, stage')
  <2>1. \A i \in 1 .. Len(q) : q[i] \in Picks
    OBVIOUS
  <2>2. \A i \in 1 .. Len(q) : q[i].by \in Requests
    BY <2>1 DEF Picks
  <2>3. QED
    BY <1>3, <1>4, <2>2 DEF Owned
<1>5. SUFFICES /\ Distinct(queue', used')
               /\ Owned(queue', stage')
               /\ \A r \in used' : stage'[r] \in Remembered
  BY <1>2 DEF PickUsedOnce, OwnedInv, Distinct, Owned
<1>6. Distinct(<<>>, used) /\ Owned(<<>>, stage')
  BY DEF Distinct, Owned
<1>7. ASSUME UNCHANGED used, queue' = queue \/ queue' = <<>>
      PROVE  /\ Distinct(queue', used')
             /\ Owned(queue', stage')
             /\ \A r \in used' : stage'[r] \in Remembered
  <2>1. Owned(queue, stage')
    BY <1>2, <1>4
  <2>2. Distinct(queue', used') /\ Owned(queue', stage')
    BY <1>2, <1>6, <1>7, <2>1
  <2>3. QED
    BY <1>3, <1>7, <2>2
<1>8. /\ Pruned \in Seq(Picks)
      /\ Distinct(Pruned, used)
      /\ Owned(Pruned, stage)
  BY <1>2, PrunedIsLater, LaterKeeps
<1>9. ASSUME NEW r \in Requests, RememberPick(r)
      PROVE  /\ Distinct(queue', used')
             /\ Owned(queue', stage')
             /\ \A q \in used' : stage'[q] \in Remembered
  <2> DEFINE p == [rule |-> auth[r], at |-> clock, by |-> r]
             q == Append(Pruned, p)
  <2>1. p \in Picks /\ q \in Seq(Picks) /\ queue' = Capped(q)
    BY <1>9, Remembering
  <2>2. stage[r] = "selected" /\ UNCHANGED used /\ Move(r, "authed")
    BY <1>9 DEF RememberPick
  <2>3. stage[r] \notin Remembered
    BY <2>2 DEF Remembered
  <2>4. stage'[r] = "authed"
    BY <2>2, MoveFacts DEF PicksType, Stages, UnderWay
  <2>5. stage'[r] \in Remembered
    BY <2>4 DEF Remembered
  <2>6. /\ Len(Pruned) \in Nat
        /\ Len(q) = Len(Pruned) + 1
        /\ q[Len(Pruned) + 1] = p
        /\ \A i \in 1 .. Len(Pruned) : q[i] = Pruned[i]
    BY <1>8, <2>1
  <2>7. \A i \in 1 .. Len(q) : i \in 1 .. Len(Pruned) \/ i = Len(Pruned) + 1
    BY <2>6
  <2>8. p.by = r
    OBVIOUS
  <2> HIDE DEF p, q
  <2>9. \A i \in 1 .. Len(Pruned) : Pruned[i].by # r
    BY <1>8, <2>3 DEF Owned
  <2>10. r \notin used
    BY <1>2, <2>3
  <2>11. \A i \in 1 .. Len(q) : q[i].by \notin used
    BY <1>8, <2>6, <2>7, <2>8, <2>10 DEF Distinct
  <2>12. ASSUME NEW i \in 1 .. Len(q), NEW j \in 1 .. Len(q), i # j
         PROVE  q[i].by # q[j].by
    <3>1. CASE i \in 1 .. Len(Pruned) /\ j \in 1 .. Len(Pruned)
      BY <1>8, <2>6, <2>12, <3>1 DEF Distinct
    <3>2. CASE i \in 1 .. Len(Pruned) /\ j = Len(Pruned) + 1
      BY <2>6, <2>8, <2>9, <3>2
    <3>3. CASE i = Len(Pruned) + 1 /\ j \in 1 .. Len(Pruned)
      BY <2>6, <2>8, <2>9, <3>3
    <3>4. QED
      BY <2>7, <2>12, <3>1, <3>2, <3>3
  <2>13. Distinct(q, used)
    BY <2>11, <2>12 DEF Distinct
  <2>14. Owned(Pruned, stage')
    BY <1>4, <1>8
  <2>15. Owned(q, stage')
    BY <2>5, <2>6, <2>7, <2>8, <2>14 DEF Owned
  <2>16. Distinct(Capped(q), used) /\ Owned(Capped(q), stage')
    BY <2>1, <2>13, <2>15, CappedIsLater, LaterKeeps
  <2>17. QED
    BY <1>3, <2>1, <2>2, <2>16
<1>10. ASSUME NEW r \in Requests, TakePick(r)
       PROVE  /\ Distinct(queue', used')
              /\ Owned(queue', stage')
              /\ \A q \in used' : stage'[q] \in Remembered
  <2>1. CASE UNCHANGED used /\ queue' = <<>>
    BY <1>7, <2>1
  <2>2. CASE /\ Pruned # <<>>
             /\ Head(Pruned) \in Picks
             /\ queue' = Taken(Pruned)
             /\ used' = used \cup {Head(Pruned).by}
    <3>1. /\ Head(Pruned) = Pruned[1]
          /\ Taken(Pruned) \in Seq(Picks)
          /\ Len(Taken(Pruned)) = Len(Pruned) - 1
          /\ Later(Taken(Pruned), Pruned)
          /\ \A i \in 1 .. Len(Taken(Pruned)) : Taken(Pruned)[i] = Pruned[i + 1]
      BY <1>8, <2>2, TakenIsLater
    <3>2. Distinct(Taken(Pruned), used) /\ Owned(Taken(Pruned), stage)
      BY <1>8, <3>1, LaterKeeps
    <3>3. Len(Pruned) \in Nat /\ 1 \in 1 .. Len(Pruned)
      BY <1>8, <2>2
    <3>4. \A i \in 1 .. Len(Taken(Pruned)) : i + 1 \in 1 .. Len(Pruned) /\ i + 1 # 1
      BY <3>1, <3>3
    <3>5. \A i \in 1 .. Len(Taken(Pruned)) : Taken(Pruned)[i].by # Head(Pruned).by
      BY <1>8, <3>1, <3>3, <3>4 DEF Distinct
    <3>6. Distinct(queue', used')
      BY <2>2, <3>2, <3>5 DEF Distinct
    <3>7. Owned(queue', stage')
      BY <1>4, <2>2, <3>1, <3>2
    <3>8. Head(Pruned).by \in Requests /\ stage[Head(Pruned).by] \in Remembered
      BY <1>8, <2>2, <3>1, <3>3 DEF Owned, Picks
    <3>9. \A q \in used' : stage'[q] \in Remembered
      BY <1>3, <2>2, <3>8
    <3>10. QED
      BY <3>6, <3>7, <3>9
  <2>3. QED
    BY <1>10, <2>1, <2>2, Taking
<1>11. ASSUME NEW r \in Requests, Call(r), ~RememberPick(r), ~TakePick(r)
       PROVE  UNCHANGED used /\ queue' = queue
  BY <1>11 DEF Call, Lookup, Select, Limited, Abandon, RouteLookup, RouteResolve
<1>12. ASSUME NEW rs \in RuleLists, NEW d \in {"priority", "round-robin"},
              UpsertKey(rs) \/ UpsertAliasRules(rs, d) \/ Configure(rs, d)
       PROVE  UNCHANGED used /\ (queue' = queue \/ queue' = <<>>)
  BY <1>12 DEF UpsertKey, UpsertAliasRules, Configure
<1>13. Tick \/ UNCHANGED pickVars => UNCHANGED used /\ queue' = queue
  BY DEF Tick, pickVars
<1>14. QED
  BY <1>7, <1>9, <1>10, <1>11, <1>12, <1>13 DEF PicksNext

\* Before a step that leaves requests one at a time, the request that takes it
\* is the only one under way, and the queue holds its pick or nothing.
LEMMA CalmBefore ==
  ASSUME PicksType, CalmInv, NEW r \in Requests, NEW to \in Stages, Move(r, to),
         calm'
  PROVE  /\ to # "gone"
         /\ \A q \in Requests \ {r} : ~Active(q)
         /\ Waiting(r) => Len(queue) = 1 /\ queue[1].rule = auth[r]
         /\ ~Waiting(r) => queue = <<>>
         /\ Pruned = queue
         /\ \A i \in DOMAIN queue : Fresh(queue[i])
         /\ \A q \in Requests : stage[q] # "resolving"
         /\ \A q \in Requests : routed[q] \in {auth[q], NoTarget}
<1>1. calm /\ Alone(r) /\ to # "gone"
  BY MoveFacts DEF PicksType
<1>2. \A q \in Requests \ {r} : ~Active(q)
  BY <1>1 DEF Alone
<1>3. \A q \in Requests : Waiting(q) => Active(q)
  BY DEF Waiting, Active, UnderWay
<1>4. ~Waiting(r) => \A q \in Requests : ~Waiting(q)
  BY <1>2, <1>3
<1>5. \A i \in DOMAIN queue : Fresh(queue[i])
  BY <1>1 DEF CalmInv
<1>6. Pruned = queue
  BY <1>5, PrunedIsLater DEF PicksType
<1>7. /\ Waiting(r) => Len(queue) = 1 /\ queue[1].rule = auth[r]
      /\ (\A q \in Requests : ~Waiting(q)) => queue = <<>>
      /\ \A q \in Requests : stage[q] # "resolving"
      /\ \A q \in Requests : routed[q] \in {auth[q], NoTarget}
  BY <1>1 DEF CalmInv, SharedWhenAlone
<1>8. QED
  BY <1>1, <1>2, <1>4, <1>5, <1>6, <1>7

\* After it, all that is left to say is about the queue and this request.
LEMMA CalmAfter ==
  ASSUME PicksType, CalmInv, NEW r \in Requests, NEW to \in Stages, Move(r, to),
         calm',
         \A q \in Requests \ {r} : auth'[q] = auth[q] /\ routed'[q] = routed[q],
         \A i \in DOMAIN queue' : Fresh(queue[i])',
         to \in {"authed", "routing"} => Len(queue') = 1 /\ queue'[1].rule = auth'[r],
         to \notin {"authed", "routing"} => queue' = <<>>,
         to # "resolving",
         routed'[r] \in {auth'[r], NoTarget}
  PROVE  CalmInv'
<1>1. /\ stage'[r] = to
      /\ \A q \in Requests \ {r} : stage'[q] = stage[q]
  BY MoveFacts DEF PicksType
<1>2. /\ \A q \in Requests \ {r} : ~Active(q)
      /\ \A q \in Requests : stage[q] # "resolving"
      /\ \A q \in Requests : routed[q] \in {auth[q], NoTarget}
  BY CalmBefore
<1>3. \A q \in Requests \ {r} : stage'[q] \notin UnderWay
  BY <1>1, <1>2 DEF Active
<1>4. \A q \in Requests \ {r} : stage'[q] \notin {"authed", "routing", "resolving"}
  BY <1>3 DEF UnderWay
<1>5. \A p, q \in Requests : Active(p)' /\ Active(q)' => p = q
  BY <1>3 DEF Active
<1>6. \A q \in Requests :
        Waiting(q)' => Len(queue') = 1 /\ queue'[1].rule = auth'[q]
  BY <1>1, <1>4 DEF Waiting
<1>7. (\A q \in Requests : ~Waiting(q)') => queue' = <<>>
  BY <1>1 DEF Waiting
<1>8. \A q \in Requests : stage'[q] # "resolving"
  BY <1>1, <1>4
<1>9. \A q \in Requests : routed'[q] \in {auth'[q], NoTarget}
  BY <1>2
<1>10. QED
  BY <1>5, <1>6, <1>7, <1>8, <1>9 DEF CalmInv, SharedWhenAlone

\* What holds while requests come one at a time survives every step.
LEMMA CalmStep ==
  ASSUME PicksType, HoldsInv, CalmInv, [PicksNext]_pickVars
  PROVE  CalmInv'
<1>0. SUFFICES ASSUME calm' PROVE CalmInv'
  BY DEF CalmInv
<1>1. {"idle", "denied", "found", "selected", "authed", "gone", "routing",
       "answering", "resolving", "reanswering", "routed", "answered"}
        \subseteq Stages
  BY DEF Stages, UnderWay
<1>2. \A i \in DOMAIN <<>> : Fresh(queue[i])'
  OBVIOUS
<1>3. ASSUME NEW p, UNCHANGED clock, Fresh(p) PROVE clock' <= p.at + TTL
  BY <1>3 DEF Fresh
<1>4. ASSUME NEW r \in Requests, Lookup(r) PROVE CalmInv'
  <2>1. PICK to \in {"denied", "found"} : Move(r, to)
    BY <1>4 DEF Lookup
  <2>2. stage[r] = "idle" /\ UNCHANGED <<queue, auth, routed>>
    BY <1>4 DEF Lookup
  <2>3. queue' = <<>> /\ routed'[r] \in {auth'[r], NoTarget}
    BY <1>0, <1>1, <2>1, <2>2, CalmBefore DEF Waiting
  <2>4. QED
    BY <1>0, <1>1, <1>2, <2>1, <2>2, <2>3, CalmAfter
<1>5. ASSUME NEW r \in Requests, Select(r) PROVE CalmInv'
  <2>1. Move(r, "selected") /\ stage[r] = "found" /\ UNCHANGED <<queue, routed>>
    BY <1>5 DEF Select
  <2>2. queue' = <<>>
    BY <1>0, <1>1, <2>1, CalmBefore DEF Waiting
  <2>3. routed'[r] = NoTarget
    BY <2>1 DEF HoldsInv
  <2>4. \A q \in Requests \ {r} : auth'[q] = auth[q]
    BY <1>5 DEF Select, PicksType
  <2>5. QED
    BY <1>0, <1>1, <1>2, <2>1, <2>2, <2>3, <2>4, CalmAfter
<1>6. ASSUME NEW r \in Requests, Limited(r) PROVE CalmInv'
  <2>1. /\ Move(r, "denied")
        /\ stage[r] = "selected"
        /\ UNCHANGED <<queue, auth, routed>>
    BY <1>6 DEF Limited
  <2>2. queue' = <<>> /\ routed'[r] \in {auth'[r], NoTarget}
    BY <1>0, <1>1, <2>1, CalmBefore DEF Waiting
  <2>3. QED
    BY <1>0, <1>1, <1>2, <2>1, <2>2, CalmAfter
<1>7. ASSUME NEW r \in Requests, RememberPick(r) PROVE CalmInv'
  <2> DEFINE p == [rule |-> auth[r], at |-> clock, by |-> r]
  <2>1. /\ Move(r, "authed")
        /\ stage[r] = "selected"
        /\ UNCHANGED <<clock, auth, routed>>
    BY <1>7 DEF RememberPick
  <2>2. p \in Picks /\ queue' = Capped(Append(Pruned, p))
    BY <1>7, Remembering
  <2>3. Pruned = <<>> /\ routed'[r] \in {auth'[r], NoTarget}
    BY <1>0, <1>1, <2>1, CalmBefore DEF Waiting
  <2>4. /\ Append(<<>>, p) \in Seq(Picks)
        /\ Len(Append(<<>>, p)) = 1
        /\ Append(<<>>, p)[1] = p
    BY <2>2
  <2>5. 1 <= MaxQueue
    BY QueueAssumption
  <2>6. queue' = Append(<<>>, p)
    BY <2>2, <2>3, <2>4, <2>5, CappedIsLater
  <2>7. p.rule = auth[r] /\ p.at = clock
    OBVIOUS
  <2> HIDE DEF p
  <2>8. Len(queue') = 1 /\ queue'[1].rule = auth'[r]
    BY <2>1, <2>4, <2>6, <2>7
  <2>9. \A i \in DOMAIN queue' : i = 1
    BY <2>4, <2>6
  <2>10. clock' <= queue'[1].at + TTL
    BY <2>1, <2>4, <2>6, <2>7, TTLAssumption DEF PicksType
  <2>11. \A i \in DOMAIN queue' : Fresh(queue[i])'
    BY <2>9, <2>10 DEF Fresh
  <2>12. QED
    BY <1>0, <1>1, <2>1, <2>3, <2>8, <2>11, CalmAfter
<1>8. ASSUME NEW r \in Requests, Abandon(r) PROVE CalmInv'
  <2>1. Move(r, "gone")
    BY <1>8 DEF Abandon
  <2>2. QED
    BY <1>0, <1>1, <2>1, CalmBefore
<1>9. ASSUME NEW r \in Requests, RouteLookup(r) PROVE CalmInv'
  <2>1. UNCHANGED <<queue, clock, auth, routed>>
    BY <1>9 DEF RouteLookup
  <2>2. CASE stage[r] = "authed" /\ Move(r, "routing")
    <3>1. /\ Len(queue) = 1 /\ queue[1].rule = auth[r]
          /\ \A i \in DOMAIN queue : Fresh(queue[i])
          /\ routed[r] \in {auth[r], NoTarget}
      BY <1>0, <1>1, <2>2, CalmBefore DEF Waiting
    <3>2. \A i \in DOMAIN queue' : Fresh(queue[i])'
      BY <1>3, <2>1, <3>1 DEF Fresh
    <3>3. QED
      BY <1>0, <1>1, <2>1, <2>2, <3>1, <3>2, CalmAfter
  <2>3. CASE stage[r] = "routed" /\ Move(r, "answering")
    <3>1. queue' = <<>> /\ routed'[r] \in {auth'[r], NoTarget}
      BY <1>0, <1>1, <2>1, <2>3, CalmBefore DEF Waiting
    <3>2. QED
      BY <1>0, <1>1, <1>2, <2>1, <2>3, <3>1, CalmAfter
  <2>4. QED
    BY <1>9, <2>2, <2>3 DEF RouteLookup
<1>10. ASSUME NEW r \in Requests, TakePick(r) PROVE CalmInv'
  <2>1. PICK to \in {"resolving", "reanswering", "routed", "answered"} : Move(r, to)
    BY <1>10 DEF TakePick
  <2>2. /\ Pruned = queue
        /\ Waiting(r) => Len(queue) = 1 /\ queue[1].rule = auth[r]
        /\ ~Waiting(r) => queue = <<>>
        /\ routed[r] \in {auth[r], NoTarget}
    BY <1>0, <1>1, <2>1, CalmBefore
  <2>3. UNCHANGED <<clock, auth>> /\ stage[r] \in {"routing", "answering"}
    BY <1>10 DEF TakePick
  <2>4. queue \in Seq(Picks)
    BY DEF PicksType
  <2>5. CASE stage[r] = "routing"
    <3>1. Len(queue) = 1 /\ queue[1].rule = auth[r]
      BY <2>2, <2>5 DEF Waiting
    <3>2. Pruned # <<>>
      <4>1. Len(queue) = 1
        BY <3>1
      <4>2. queue # <<>>
        BY <2>4, <4>1, EmptySeq
      <4>3. QED
        BY <2>2, <4>2
    <3>3. /\ queue' = Taken(queue)
          /\ Move(r, "routed")
          /\ routed' = [routed EXCEPT ![r] = Head(queue).rule]
      BY <1>10, <2>2, <2>5, <3>2 DEF TakePick
    <3>4. Head(queue) = queue[1] /\ Len(Taken(queue)) = 0 /\ Taken(queue) \in Seq(Picks)
      BY <2>2, <2>4, <3>1, <3>2, TakenIsLater
    <3>5. queue' = <<>>
      BY <3>3, <3>4
    <3>6. /\ routed'[r] = auth'[r]
          /\ \A q \in Requests \ {r} : routed'[q] = routed[q]
      BY <2>3, <3>1, <3>3, <3>4 DEF PicksType
    <3>7. QED
      BY <1>0, <1>1, <1>2, <2>3, <3>3, <3>5, <3>6, CalmAfter
  <2>6. CASE stage[r] = "answering"
    <3>1. queue = <<>>
      BY <2>2, <2>6 DEF Waiting
    <3>2. queue' = <<>> /\ UNCHANGED routed /\ Move(r, "reanswering")
      BY <1>10, <2>2, <2>6, <3>1 DEF TakePick
    <3>3. QED
      BY <1>0, <1>1, <1>2, <2>2, <2>3, <3>2, CalmAfter
  <2>7. QED
    BY <2>3, <2>5, <2>6
<1>11. ASSUME NEW r \in Requests, RouteResolve(r) PROVE CalmInv'
  <2>1. PICK to \in {"gone", "routed", "answered"} : Move(r, to)
    BY <1>11 DEF RouteResolve
  <2>2. stage[r] \in {"resolving", "reanswering"} /\ UNCHANGED <<queue, auth>>
    BY <1>11 DEF RouteResolve
  <2>3. /\ to # "gone"
        /\ stage[r] # "resolving"
        /\ queue = <<>>
        /\ routed[r] \in {auth[r], NoTarget}
    BY <1>0, <1>1, <2>1, <2>2, CalmBefore DEF Waiting
  <2>4. stage[r] = "reanswering" /\ stage \in [Requests -> Stages]
    BY <2>2, <2>3 DEF PicksType
  <2>5. CASE copy[r] = <<>>
    <3>1. Move(r, "gone")
      BY <1>11, <2>5 DEF RouteResolve
    <3>2. QED
      BY <1>0, <1>1, <3>1, CalmBefore
  <2>6. CASE copy[r] # <<>>
    <3>1. Move(r, "answered") /\ routed' = [routed EXCEPT ![r] = @]
      BY <1>11, <2>4, <2>6 DEF RouteResolve
    <3>2. UNCHANGED routed
      BY <3>1 DEF PicksType
    <3>3. QED
      BY <1>0, <1>1, <1>2, <2>2, <2>3, <3>1, <3>2, CalmAfter
  <2>7. QED
    BY <2>5, <2>6
<1>12. ASSUME Change, queue' = queue \/ queue' = <<>>,
              UNCHANGED <<stage, auth, routed>>
       PROVE  CalmInv'
  <2>1. calm /\ \A r \in Requests : ~Active(r)
    BY <1>0, <1>12 DEF Change, PicksType
  <2>2. \A r \in Requests : ~Waiting(r)
    BY <2>1 DEF Waiting, Active, UnderWay
  <2>3. /\ queue' = <<>>
        /\ \A r \in Requests : stage[r] # "resolving"
        /\ \A r \in Requests : routed[r] \in {auth[r], NoTarget}
    BY <1>12, <2>1, <2>2 DEF CalmInv, SharedWhenAlone
  <2>4. /\ \A r \in Requests : ~Active(r)' /\ ~Waiting(r)'
        /\ \A r \in Requests : stage'[r] # "resolving"
        /\ \A r \in Requests : routed'[r] \in {auth'[r], NoTarget}
    BY <1>12, <2>1, <2>2, <2>3 DEF Active, Waiting
  <2>5. QED
    BY <1>2, <2>3, <2>4 DEF CalmInv, SharedWhenAlone
<1>13. ASSUME NEW rs \in RuleLists, NEW d \in {"priority", "round-robin"},
              UpsertKey(rs) \/ UpsertAliasRules(rs, d) \/ Configure(rs, d)
       PROVE  CalmInv'
  BY <1>12, <1>13 DEF UpsertKey, UpsertAliasRules, Configure
<1>14. CASE Tick
  <2>1. /\ calm
        /\ \A i \in DOMAIN queue : clock' <= queue[i].at + TTL
        /\ UNCHANGED <<queue, stage, auth, routed>>
    BY <1>0, <1>14 DEF Tick, PicksType
  <2>2. \A i \in DOMAIN queue' : Fresh(queue[i])'
    BY <2>1 DEF Fresh
  <2>3. /\ \A r, q \in Requests : Active(r) /\ Active(q) => r = q
        /\ \A r \in Requests :
             Waiting(r) => Len(queue) = 1 /\ queue[1].rule = auth[r]
        /\ (\A r \in Requests : ~Waiting(r)) => queue = <<>>
        /\ \A r \in Requests : stage[r] # "resolving"
        /\ \A r \in Requests : routed[r] \in {auth[r], NoTarget}
    BY <2>1 DEF CalmInv, SharedWhenAlone
  <2>4. \A r \in Requests : (Active(r)' <=> Active(r)) /\ (Waiting(r)' <=> Waiting(r))
    BY <2>1 DEF Active, Waiting
  <2>5. QED
    BY <2>1, <2>2, <2>3, <2>4 DEF CalmInv, SharedWhenAlone
<1>15. CASE UNCHANGED pickVars
  BY <1>15 DEF CalmInv, SharedWhenAlone, Active, Waiting, Fresh, pickVars
<1>16. QED
  BY <1>4, <1>5, <1>6, <1>7, <1>8, <1>9, <1>10, <1>11, <1>13, <1>14, <1>15
  DEF PicksNext, Call

\* The invariant holds for every set of requests and targets, queue length and
\* lifetime of a pick; its type part says the queue never outgrows its cap.
THEOREM PicksHold == PicksSpec => []PicksInv
<1>1. PicksInit => PicksInv
  <2>1. SUFFICES ASSUME PicksInit PROVE PicksInv
    OBVIOUS
  <2>2. queue \in Seq(Picks) /\ Len(queue) <= MaxQueue /\ DOMAIN queue = {}
    BY <2>1, QueueAssumption DEF PicksInit
  <2>3. PicksType
    BY <2>1, <2>2 DEF PicksInit, PicksType, RuleLists, Stages
  <2>4. HoldsInv
    BY <2>1 DEF PicksInit, HoldsInv
  <2>5. OwnedInv /\ PickUsedOnce
    BY <2>1, <2>2 DEF PicksInit, OwnedInv, PickUsedOnce
  <2>6. \A r \in Requests : ~Active(r) /\ ~Waiting(r) /\ stage[r] # "resolving"
    BY <2>1 DEF PicksInit, Active, Waiting, UnderWay
  <2>7. CalmInv
    BY <2>1, <2>2, <2>6 DEF PicksInit, CalmInv, SharedWhenAlone
  <2>8. QED
    BY <2>3, <2>4, <2>5, <2>7 DEF PicksInv
<1>2. PicksInv /\ [PicksNext]_pickVars => PicksInv'
  <2>1. SUFFICES ASSUME PicksInv, [PicksNext]_pickVars PROVE PicksInv'
    OBVIOUS
  <2>2. PicksType' /\ HoldsInv'
    BY <2>1, PicksTypeStep DEF PicksInv
  <2>3. OwnedInv' /\ PickUsedOnce'
    BY <2>1, OnceStep DEF PicksInv
  <2>4. CalmInv'
    BY <2>1, CalmStep DEF PicksInv
  <2>5. QED
    BY <2>2, <2>3, <2>4 DEF PicksInv
<1>3. QED
  BY <1>1, <1>2, PTL DEF PicksSpec

\* The pending picks belong to different requests, and none of them has been
\* taken before, whatever calls, expiry, a full queue and configuration changes
\* do in between.
THEOREM PicksServeOnce == PicksSpec => []PickUsedOnce
<1>1. PicksInv => PickUsedOnce
  BY DEF PicksInv
<1>2. QED
  BY <1>1, PicksHold, PTL

\* A request that nothing comes between is forwarded to the target whose group
\* Authenticate stamped into it.
THEOREM AloneMeansShared == PicksSpec => []SharedWhenAlone
<1>1. PicksInv => SharedWhenAlone
  <2>1. SUFFICES ASSUME PicksInv, calm PROVE SharedWhenAlone
    BY DEF SharedWhenAlone
  <2>2. QED
    BY <2>1 DEF PicksInv, CalmInv
<1>2. QED
  BY <1>1, PicksHold, PTL
=============================================================================
