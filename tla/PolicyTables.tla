--------------------------- MODULE PolicyTables ---------------------------
(***************************************************************************)
(* The key table, the alias table and the copy of both in the state file   *)
(* (internal/policy/store.go, internal/policy/config.go), changed by the   *)
(* handlers of the management API (internal/plugin/app.go).                *)
(*                                                                         *)
(* A mutation publishes in memory and then saves the whole state, all      *)
(* under updateMu; PATCH reads the key before it takes updateMu and sends  *)
(* back the whole key.  A key refers to aliases (refs) and carries the     *)
(* rules they expand to (models), which the file leaves out.  An alias is  *)
(* the set of its targets, empty when there is no such alias; prices, RPM  *)
(* and names do not matter here.                                           *)
(***************************************************************************)
EXTENDS Naturals

CONSTANTS
    Keys,       \* key ids
    Secrets,    \* plaintext secrets, each standing for its hash too
    NoSecret,   \* the hash of a key that does not exist
    Idle,       \* no mutation, no PATCH under way
    Aliases,    \* alias names
    Targets,    \* (provider, model, group) triples
    CfgAliases, \* aliases of config.yaml that state keys may not know
    Patchers,   \* PATCH requests that can be under way at the same time
    MaxFailures \* bound: saves that fail

ASSUME NoSecretAssumption == NoSecret \notin Secrets
ASSUME CfgAssumption == CfgAliases \subseteq Aliases
ASSUME FailureBound == MaxFailures \in Nat

VARIABLES
    keys,     \* Store.keys
    aliases,  \* Store.aliases
    file,     \* keys and aliases of the state file; its keys have no models
    saving,   \* updateMu: what a mutation has published and will save, and
              \* the secrets it revokes once it is acknowledged
    snap,     \* per PATCH: the key it read and has not yet written back
    revoked,  \* history: secrets of acknowledged deletions and rotations
    replayed, \* history: of these, what a PATCH has written back since
    failures  \* number of failed saves

vars == <<keys, aliases, file, saving, snap, revoked, replayed,
          failures>>

Rules == Aliases \X Targets

NoKey == [hash |-> NoSecret, refs |-> {}, models |-> {}]

\* What SaveState writes of a key table: the derived models are left out.
Stripped(ks) == [k \in Keys |-> [ks[k] EXCEPT !.models = {}]]

Exists(ks, k) == ks[k].hash # NoSecret

Present(al) == {a \in Aliases : al[a] # {}}

\* resolveAliasRefsToModels: one rule per target of each referenced alias.
Derived(refs, al) == {rule \in Rules : rule[1] \in refs /\ rule[2] \in al[rule[1]]}

\* migrateModelsToAliases: the models of a key decide which aliases it refers
\* to, and their targets are merged into the alias table.
MigratedRefs(rec) ==
    IF rec.models = {} THEN rec.refs ELSE {rule[1] : rule \in rec.models}

MergedAliases(rec, al) ==
    [a \in Aliases |-> al[a] \cup {t \in Targets : <<a, t>> \in rec.models}]

\* normalizeConfig: every alias a key refers to exists.
RefsKnown(ks, al) ==
    \A k \in Keys : Exists(ks, k) => ks[k].refs \subseteq Present(al)

-----------------------------------------------------------------------------
\* No key and no alias yet, in memory and in the file.
Init ==
    /\ keys = [k \in Keys |-> NoKey]
    /\ aliases = [a \in Aliases |-> {}]
    /\ file = [keys |-> keys, aliases |-> aliases]
    /\ saving = Idle
    /\ snap = [p \in Patchers |-> Idle]
    /\ revoked = {}
    /\ replayed = {}
    /\ failures = 0

\* The publication of a mutation under updateMu, and what it will save.
Publish(ks, al, gone) ==
    /\ saving = Idle
    /\ keys' = ks
    /\ aliases' = al
    /\ saving' = [content |-> [keys |-> Stripped(ks), aliases |-> al],
                  revokes |-> gone]

-----------------------------------------------------------------------------
(***************************************************************************)
(* Broken variants, one per property; the specification does not use them. *)
(***************************************************************************)

\* An upsert that does not validate the references of the key.
UpsertUnvalidated(k, rec) ==
    LET al  == MergedAliases(rec, aliases)
        ref == MigratedRefs(rec)
        new == [hash |-> rec.hash, refs |-> ref, models |-> Derived(ref, al)]
    IN Publish([keys EXCEPT ![k] = new], al, {})

\* UpsertAlias without resolveAllModelsLocked.
UpsertAliasUnresolved(a, ts) ==
    /\ ts # {}
    /\ Publish(keys, [aliases EXCEPT ![a] = ts], {})
    /\ UNCHANGED <<file, snap, revoked, replayed, failures>>

\* DeleteKey that saves the snapshot it took before it deleted the key.
DeleteKeyStaleSave(k) ==
    /\ saving = Idle
    /\ Exists(keys, k)
    /\ keys' = [keys EXCEPT ![k] = NoKey]
    /\ saving' = [content |-> [keys |-> Stripped(keys), aliases |-> aliases],
                  revokes |-> {keys[k].hash}]
    /\ UNCHANGED <<aliases, file, snap, revoked, replayed, failures>>

-----------------------------------------------------------------------------
\* Store.UpsertKey: validated against the alias table; the models of the
\* other keys are left as they are.
Upsert(k, rec) ==
    LET al  == MergedAliases(rec, aliases)
        ref == MigratedRefs(rec)
        new == [hash |-> rec.hash, refs |-> ref, models |-> Derived(ref, al)]
    IN /\ ref \subseteq Present(al)
       /\ Publish([keys EXCEPT ![k] = new], al, {})

\* createKey: a secret given or generated, refs to aliases or models.
CreateKey(k, s, refs, models) ==
    /\ Upsert(k, [hash |-> s, refs |-> refs, models |-> models])
    /\ revoked' = revoked \ {s}
    /\ UNCHANGED <<file, snap, replayed, failures>>

\* patchKey reads the key, models included, without updateMu.
PatchRead(p, k) ==
    /\ snap[p] = Idle
    /\ Exists(keys, k)
    /\ snap' = [snap EXCEPT ![p] = [key |-> k, rec |-> keys[k]]]
    /\ UNCHANGED <<keys, aliases, file, saving, revoked, replayed, failures>>

\* The secret it read is written back with the key.
Replays(p) == replayed' = replayed \cup ({snap[p].rec.hash} \cap revoked)

\* ... and upserts the whole key after setting only a name or a limit,
PatchScalar(p) ==
    /\ snap[p] # Idle
    /\ Upsert(snap[p].key, snap[p].rec)
    /\ Replays(p)
    /\ snap' = [snap EXCEPT ![p] = Idle]
    /\ UNCHANGED <<file, revoked, failures>>

\* ... after replacing its models, as the key form of the Web UI does,
PatchModels(p, models) ==
    /\ snap[p] # Idle
    /\ Upsert(snap[p].key, [snap[p].rec EXCEPT !.models = models])
    /\ Replays(p)
    /\ snap' = [snap EXCEPT ![p] = Idle]
    /\ UNCHANGED <<file, revoked, failures>>

\* ... or after replacing its alias references.
PatchAliases(p, refs) ==
    /\ snap[p] # Idle
    /\ Upsert(snap[p].key, [snap[p].rec EXCEPT !.refs = refs])
    /\ Replays(p)
    /\ snap' = [snap EXCEPT ![p] = Idle]
    /\ UNCHANGED <<file, revoked, failures>>

\* A PATCH may set a new secret as well.
PatchSecret(p, s) ==
    /\ snap[p] # Idle
    /\ Upsert(snap[p].key, [snap[p].rec EXCEPT !.hash = s])
    /\ revoked' = revoked \ {s}
    /\ snap' = [snap EXCEPT ![p] = Idle]
    /\ UNCHANGED <<file, replayed, failures>>

\* What the client asks for does not validate: it gets invalid_policy.
PatchRefused(p) ==
    /\ snap[p] # Idle
    /\ saving = Idle
    /\ snap' = [snap EXCEPT ![p] = Idle]
    /\ UNCHANGED <<keys, aliases, file, saving, revoked, replayed, failures>>

DeleteKey(k) ==
    /\ Exists(keys, k)
    /\ Publish([keys EXCEPT ![k] = NoKey], aliases, {keys[k].hash})
    /\ UNCHANGED <<file, snap, revoked, replayed, failures>>

\* RotateKey installs a secret nobody has seen.
RotateKey(k, s) ==
    /\ Exists(keys, k)
    /\ s \notin revoked
    /\ \A j \in Keys : s \notin {keys[j].hash, file.keys[j].hash}
    /\ \A p \in Patchers : snap[p] # Idle => snap[p].rec.hash # s
    /\ Publish([keys EXCEPT ![k].hash = s], aliases, {keys[k].hash})
    /\ UNCHANGED <<file, snap, revoked, replayed, failures>>

\* upsertAlias re-resolves the models of every key.
UpsertAlias(a, ts) ==
    LET al == [aliases EXCEPT ![a] = ts]
    IN /\ ts # {}
       /\ Publish([k \in Keys |-> [keys[k] EXCEPT
                      !.models = Derived(keys[k].refs, al)]], al, {})
       /\ UNCHANGED <<file, snap, revoked, replayed, failures>>

\* DeleteAlias is refused while a key refers to the alias.
DeleteAlias(a) ==
    /\ \A k \in Keys : a \notin keys[k].refs
    /\ Publish(keys, [aliases EXCEPT ![a] = {}], {})
    /\ UNCHANGED <<file, snap, revoked, replayed, failures>>

\* What the mutation revokes: a secret that another key carries too is not.
Gone == {s \in saving.revokes : \A k \in Keys : keys[k].hash # s}

\* saveState succeeds and the client is told so.
SaveSucceeds ==
    /\ saving # Idle
    /\ file' = saving.content
    /\ revoked' = revoked \cup Gone
    /\ replayed' = replayed \ Gone
    /\ saving' = Idle
    /\ UNCHANGED <<keys, aliases, snap, failures>>

\* saveState fails: the client gets the error and memory keeps the change.
SaveFails ==
    /\ failures < MaxFailures
    /\ failures' = failures + 1
    /\ saving # Idle
    /\ saving' = Idle
    /\ UNCHANGED <<keys, aliases, file, snap, revoked, replayed>>

\* The aliases Configure works with: a table in config.yaml wins over the one
\* in the state file.
LoadedAliases(disk) ==
    IF CfgAliases = {} THEN disk.aliases
    ELSE [a \in Aliases |-> IF a \in CfgAliases THEN Targets ELSE {}]

Loads(disk) == RefsKnown(disk.keys, LoadedAliases(disk))

LoadFile ==
    /\ aliases' = LoadedAliases(file)
    /\ keys' = [k \in Keys |-> [file.keys[k] EXCEPT
                   !.models = Derived(file.keys[k].refs, LoadedAliases(file))]]

\* Configure in a running process, under updateMu.  When the state does not
\* validate it returns an error and changes nothing.
Reconfigure ==
    /\ saving = Idle
    /\ Loads(file)
    /\ LoadFile
    /\ UNCHANGED <<file, saving, snap, revoked, replayed, failures>>

\* The process dies, with whatever was under way, and boots again.
Restart ==
    /\ Loads(file)
    /\ LoadFile
    /\ saving' = Idle
    /\ snap' = [p \in Patchers |-> Idle]
    /\ UNCHANGED <<file, revoked, replayed, failures>>

KeyStep ==
    \E k \in Keys :
        \/ \E s \in Secrets :
               \/ \E refs \in SUBSET Aliases : CreateKey(k, s, refs, {})
               \/ \E rule \in Rules : CreateKey(k, s, {}, {rule})
               \/ RotateKey(k, s)
        \/ DeleteKey(k)

PatchStep ==
    \E p \in Patchers :
        \/ \E k \in Keys : PatchRead(p, k)
        \/ PatchScalar(p)
        \/ \E s \in Secrets : PatchSecret(p, s)
        \/ \E rule \in Rules : PatchModels(p, {rule})
        \/ \E refs \in SUBSET Aliases : PatchAliases(p, refs)
        \/ PatchRefused(p)

AliasStep ==
    \E a \in Aliases :
        \/ \E ts \in SUBSET Targets : UpsertAlias(a, ts)
        \/ DeleteAlias(a)

Next ==
    \/ KeyStep \/ PatchStep \/ AliasStep
    \/ SaveSucceeds \/ SaveFails \/ Reconfigure \/ Restart

Spec == Init /\ [][Next]_vars

-----------------------------------------------------------------------------
(* Properties.                                                             *)

\* The state file always validates when it is loaded again: no sequence of
\* key, alias and patch calls, failed saves and restarts leaves a key that
\* refers to an alias the file does not have.
FileLoads == Loads(file)

\* No key is routed to a target that its aliases do not have.
NoPhantomTarget ==
    \A k \in Keys : keys[k].models \subseteq Derived(keys[k].refs, aliases)

\* store.go:253-255: "a revoked or deleted key cannot be resurrected from an
\* older in-memory snapshot": no key carries a secret that an acknowledged
\* deletion or rotation took away, in memory or in the file, but one that a
\* PATCH has written back which had read the key before: nothing else brings
\* one back, no failed save, reload or restart.
RevivedOnlyByPatch ==
    \A k \in Keys :
        {keys[k].hash, file.keys[k].hash} \cap revoked \subseteq replayed
=============================================================================
