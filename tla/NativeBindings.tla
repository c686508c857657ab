-------------------------- MODULE NativeBindings --------------------------
(***************************************************************************)
(* Credential restrictions of the host's own keys: bindings edited one at  *)
(* a time (internal/policy/native_keys.go), in batches, and restored from  *)
(* a bounded history of batches and restores                               *)
(* (internal/policy/native_binding_batch.go).                              *)
(*                                                                         *)
(* Every mutation runs under updateMu, writes the state file and then      *)
(* publishes.  A batch or a restore is previewed first; the client sends   *)
(* back the revision, a digest of everything the preview was computed      *)
(* from, and the digest is taken here as the tuple of those inputs.        *)
(*                                                                         *)
(* A key of the host is its caller scope.  Names, limits, model access and *)
(* the enabled flag are one value, the policy of a binding.  Time is the   *)
(* number of mutations, and the random identity of a history record is the *)
(* time of its creation.                                                   *)
(***************************************************************************)
EXTENDS Integers, Sequences, FiniteSets

CONSTANTS
    Scopes,       \* caller scopes: hashes of the host's keys
    OperatorIds,  \* binding ids that operators choose
    Auths,        \* credentials
    Groups,       \* classification groups
    Policies,     \* everything of a binding that is not its restriction
    DefaultPolicy,\* what a batch gives to a key that had no binding
    None,         \* no binding, no restriction, no template, no group
    BatchTargets, \* sets of credentials that batches ask for
    Catalogs,     \* what clients report of the host
    HistoryLimit, \* nativeBindingHistoryLimit
    MaxEdits,     \* bound: mutations that are no batch and no restore
    MaxOps,       \* bound: mutations of all kinds
    MaxFailures   \* bound: saves that fail, and restarts

ASSUME PolicyAssumption == DefaultPolicy \in Policies
ASSUME TargetAssumption == BatchTargets \subseteq ((SUBSET Auths) \ {{}})
ASSUME CatalogAssumption ==
    Catalogs \subseteq [scopes : SUBSET Scopes, auths : SUBSET Auths,
                        complete : BOOLEAN]
ASSUME LimitAssumption == HistoryLimit \in Nat \ {0}
ASSUME BoundAssumption == MaxOps \in Nat

VARIABLES
    bindings,  \* Store.nativeKeyBindings
    history,   \* Store.nativeBindingHistory, newest first
    file,      \* both in the state file
    commit,    \* updateMu: what has been written and is not yet published
    groups,    \* groups of the enabled classification rules
    preview,   \* the last preview a client received
    edits,     \* number of single edits
    commits,   \* number of batches and restores
    failures,  \* number of failed saves and restarts
    left,      \* history: per scope, what the last batch or restore left
    base       \* history: who had reverted what before the newest record

vars == <<bindings, history, file, commit, groups, preview, edits, commits,
          failures, left, base>>

\* Zero is Go's zero time; what was there at the start was created at 1.
Now == edits + commits + 2

-----------------------------------------------------------------------------
(* Restrictions, bindings, records                                         *)

GroupOnly(g) == [group |-> g, auths |-> {}]
AuthsOnly(a) == [group |-> None, auths |-> a]

Restrictions ==
    {GroupOnly(g) : g \in Groups} \cup {AuthsOnly(a) : a \in BatchTargets}

\* nativeBatchBindingID: a function of the scope.
BatchId(s) == <<"native-batch", s>>
BindingIds == OperatorIds \cup {BatchId(s) : s \in Scopes}

Times == 0 .. MaxOps + 1

Binding == [id : BindingIds, scope : Scopes, restr : Restrictions,
            policy : Policies, created : Times, updated : Times]

Change == [id : BindingIds, scope : Scopes,
           before : Restrictions \cup {None}, after : Restrictions \cup {None},
           beforeCreated : Times, afterCreated : Times,
           beforeTemplate : Binding \cup {None},
           afterTemplate : Binding \cup {None}]

Marker == [op : Times, before : Times, after : Times]

\* Zero stands for the empty id.
Record == [id : Times, kind : {"batch", "rollback"}, source : Times,
           revertedBy : Times, changes : SUBSET Change,
           markers : SUBSET Marker]

\* What the state file holds of this.
Tables == [bindings : SUBSET Binding, history : Seq(Record)]

\* The operations clients can ask for.
Action == [kind : {"batch"}, selected : SUBSET Scopes, target : BatchTargets]
          \cup [kind : {"rollback"}, op : Times]

\* A preview in a client's hands: what it was computed from, what it shows.
Shows == [revision : [snapshot : [bindings : SUBSET Binding,
                                  history : Seq(Record),
                                  groups : SUBSET Groups],
                      catalog : Catalogs, action : Action],
          changes : SUBSET Change]

ASSUME NoneAssumption ==
    None \notin Restrictions \cup Binding \cup Tables \cup Shows

TypeOK ==
    /\ bindings \subseteq Binding
    /\ history \in Seq(Record)
    /\ file \in Tables
    /\ commit \in Tables \cup {None}
    /\ groups \subseteq Groups
    /\ preview \in Shows \cup {None}
    /\ edits \in Nat /\ commits \in Nat /\ failures \in Nat

CurrentOf(B, s) ==
    IF \E b \in B : b.scope = s THEN CHOOSE b \in B : b.scope = s ELSE None

RestrictionOf(b) == IF b = None THEN None ELSE b.restr

\* nativeBindingFingerprint(b, true)
Fingerprint(b) == [id |-> b.id, scope |-> b.scope, policy |-> b.policy,
                   created |-> b.created]

\* What normalizeNativeKeyBindings demands of a table.
Normal(B) == \A b, c \in B : b # c => b.id # c.id /\ b.scope # c.scope

ScopesOf(changes) == {c.scope : c \in changes}

-----------------------------------------------------------------------------
(* Plans: what an operation would change, and what forbids it, given a     *)
(* snapshot of the store and the catalogue the client reports              *)

\* nativeBindingBatchSnapshot
Snapshot == [bindings |-> bindings, history |-> history, groups |-> groups]

\* The binding a batch gives to a scope; its times are set by the commit.
BatchCandidate(B, s, target) ==
    IF CurrentOf(B, s) = None
    THEN [id |-> BatchId(s), scope |-> s, restr |-> AuthsOnly(target),
          policy |-> DefaultPolicy, created |-> 0, updated |-> 0]
    ELSE [CurrentOf(B, s) EXCEPT !.restr = AuthsOnly(target)]

BatchChange(B, s, target) ==
    LET before == CurrentOf(B, s)
        after  == BatchCandidate(B, s, target)
    IN  [id |-> after.id, scope |-> s,
         before |-> RestrictionOf(before), after |-> after.restr,
         beforeCreated |-> IF before = None THEN 0 ELSE before.created,
         afterCreated |-> 0, beforeTemplate |-> None,
         afterTemplate |-> IF before = None THEN after ELSE None]

\* A broken variant, unused: the id of a new binding is taken to be free.
IdTakenIgnored(B, s) == FALSE

\* The id a new binding would get is in use.
IdTaken(B, s) ==
    CurrentOf(B, s) = None /\ \E b \in B : b.id = BatchId(s)

PlanNativeBindingBatch(S, action, cat) ==
    LET taken   == {s \in action.selected : IdTaken(S.bindings, s)}
        changed == {s \in action.selected \ taken :
                      RestrictionOf(CurrentOf(S.bindings, s))
                        # AuthsOnly(action.target)}
    IN  [bindings  |-> {b \in S.bindings : b.scope \notin changed} \cup
                       {BatchCandidate(S.bindings, s, action.target) : s \in changed},
         changes   |-> {BatchChange(S.bindings, s, action.target) : s \in changed},
         conflict  |-> \/ taken # {}
                       \/ ~cat.complete
                       \/ ~(action.target \subseteq cat.auths)]

\* The newest recorded change of a scope.
LatestChange(H, s) ==
    IF \E i \in DOMAIN H : s \in ScopesOf(H[i].changes)
    THEN LET i == CHOOSE i \in DOMAIN H :
                    /\ s \in ScopesOf(H[i].changes)
                    /\ \A j \in 1 .. i - 1 : s \notin ScopesOf(H[j].changes)
         IN  CHOOSE c \in H[i].changes : c.scope = s
    ELSE None

\* The instance of the binding that the saved change is about.
InstanceCreated(saved) ==
    IF saved.before = None THEN saved.afterCreated ELSE saved.beforeCreated

OtherInstance(S, saved) ==
    LET current == CurrentOf(S.bindings, saved.scope)
    IN  /\ current # None
        /\ \/ current.id # saved.id
           \/ current.created # InstanceCreated(saved)

AlreadyRestored(S, saved) ==
    RestrictionOf(CurrentOf(S.bindings, saved.scope)) = saved.before

\* A binding that is gone may come back only as the instance the newest
\* record of its scope removed.
OtherInstanceRemoved(S, saved) ==
    LET latest == LatestChange(S.history, saved.scope)
    IN  /\ CurrentOf(S.bindings, saved.scope) = None
        /\ saved.before # None
        /\ latest # None
        /\ \/ latest.id # saved.id
           \/ latest.beforeCreated # InstanceCreated(saved)

\* A broken variant, unused: only the instance is compared.
ChangedByHandById(S, saved) ==
    LET current == CurrentOf(S.bindings, saved.scope)
        latest  == LatestChange(S.history, saved.scope)
    IN  \/ latest = None
        \/ /\ current # None
           /\ \/ latest.id # current.id
              \/ latest.afterCreated # current.created

\* The restriction is not the one the newest record of the scope left.
ChangedByHand(S, saved) ==
    LET current == CurrentOf(S.bindings, saved.scope)
        latest  == LatestChange(S.history, saved.scope)
    IN  \/ latest = None
        \/ RestrictionOf(current) # latest.after
        \/ /\ current # None
           /\ \/ latest.id # current.id
              \/ latest.afterCreated # current.created

\* A broken variant, unused: any binding the operation created is removed.
ModifiedSinceUnseen(S, saved) == saved.before = None /\ saved.afterTemplate = None

\* To be removed, and no longer what its creation left but for the restriction.
ModifiedSince(S, saved) ==
    /\ saved.before = None
    /\ \/ saved.afterTemplate = None
       \/ Fingerprint(CurrentOf(S.bindings, saved.scope))
            # Fingerprint(saved.afterTemplate)

\* The target restriction cannot be put in force.
TargetUnavailable(S, saved, cat) ==
    /\ saved.before # None
    /\ \/ ~(saved.before.auths \subseteq cat.auths)
       \/ saved.before.group \notin S.groups \cup {None}

\* To be created again, and either unknown or its id is in use.
CannotRecreate(S, saved) ==
    /\ saved.before # None
    /\ CurrentOf(S.bindings, saved.scope) = None
    /\ \/ saved.beforeTemplate = None
       \/ \E b \in S.bindings : b.id = saved.id

Conflict(S, saved, cat) ==
    \/ saved.scope \notin cat.scopes
    \/ OtherInstance(S, saved)
    \/ /\ ~AlreadyRestored(S, saved)
       /\ \/ OtherInstanceRemoved(S, saved)
          \/ ChangedByHand(S, saved)
          \/ ModifiedSince(S, saved)
          \/ TargetUnavailable(S, saved, cat)
          \/ CannotRecreate(S, saved)

\* The binding a restore gives to a scope, None when it removes it.
RollbackCandidate(S, saved) ==
    LET current == CurrentOf(S.bindings, saved.scope)
    IN  IF saved.before = None THEN None
        ELSE IF current = None
             THEN [saved.beforeTemplate EXCEPT !.restr = saved.before]
             ELSE [current EXCEPT !.restr = saved.before]

RollbackChange(S, saved) ==
    LET current == CurrentOf(S.bindings, saved.scope)
        after   == RollbackCandidate(S, saved)
    IN  [id |-> saved.id, scope |-> saved.scope,
         before |-> RestrictionOf(current), after |-> RestrictionOf(after),
         beforeCreated |-> IF current = None THEN 0 ELSE current.created,
         afterCreated |-> 0,
         beforeTemplate |-> IF after = None THEN current ELSE None,
         afterTemplate |-> IF current = None THEN after ELSE None]

RecordOf(H, id) == CHOOSE h \in {H[i] : i \in DOMAIN H} : h.id = id

IdsOf(H) == {H[i].id : i \in DOMAIN H}

\* A broken variant, unused: keys in conflict are skipped.
PlanRollbackOfSome(S, action, cat) ==
    LET saved   == RecordOf(S.history, action.op).changes
        changed == {c \in saved : ~Conflict(S, c, cat) /\ ~AlreadyRestored(S, c)}
    IN  [bindings  |-> {b \in S.bindings : b.scope \notin ScopesOf(changed)} \cup
                       ({RollbackCandidate(S, c) : c \in changed} \ {None}),
         changes   |-> {RollbackChange(S, c) : c \in changed},
         conflict  |-> ~cat.complete]

PlanNativeBindingRollback(S, action, cat) ==
    LET saved   == RecordOf(S.history, action.op).changes
        blocked == {c \in saved : Conflict(S, c, cat)}
        changed == {c \in saved \ blocked : ~AlreadyRestored(S, c)}
    IN  [bindings  |-> {b \in S.bindings : b.scope \notin ScopesOf(changed)} \cup
                       ({RollbackCandidate(S, c) : c \in changed} \ {None}),
         changes   |-> {RollbackChange(S, c) : c \in changed},
         conflict  |-> blocked # {} \/ ~cat.complete]

\* The operations clients ask for, given the catalogue they know.
BatchActions(cat) ==
    [kind : {"batch"}, selected : (SUBSET cat.scopes) \ {{}},
     target : BatchTargets]
RollbackActions == [kind : {"rollback"}, op : IdsOf(history)]
Actions(cat) == BatchActions(cat) \cup RollbackActions

PlanFor(S, action, cat) ==
    IF action.kind = "batch" THEN PlanNativeBindingBatch(S, action, cat)
                             ELSE PlanNativeBindingRollback(S, action, cat)

\* A broken variant, unused: the digest leaves the bindings out.
RevisionOfHistory(action, cat) ==
    [snapshot |-> [Snapshot EXCEPT !.bindings = {}],
     catalog |-> cat, action |-> action]

\* The digest of all a plan is computed from.
Revision(action, cat) ==
    [snapshot |-> Snapshot, catalog |-> cat, action |-> action]

-----------------------------------------------------------------------------
(* The history after an operation                                          *)

\* What a restore of op marks: op as reverted by it; if op is itself a
\* restore, what op restored as no longer reverted; and so on downwards.
MarkChain(H, op, by) ==
    LET mark[n \in 0 .. Len(H)] ==
          IF n = 0 THEN <<op, by>>
          ELSE LET above == mark[n - 1]
                   h     == RecordOf(H, above[1])
               IN  IF above[1] \notin IdsOf(H) \/ h.kind # "rollback"
                   THEN <<0, 0>>
                   ELSE <<h.source, IF above[2] = 0 THEN h.id ELSE 0>>
    IN  {mark[n] : n \in 0 .. Len(H)} \cap (Times \X Times)

\* markNativeBindingOperation
MarkNativeBindingOperation(H, op, by) ==
    [i \in DOMAIN H |->
       IF \E m \in MarkChain(H, op, by) : m[1] = H[i].id
       THEN [H[i] EXCEPT !.revertedBy =
               (CHOOSE m \in MarkChain(H, op, by) : m[1] = H[i].id)[2]]
       ELSE H[i]]

\* A broken variant, unused: only the chain downwards is marked.
RestoreMarkersNot(H, source) == H

\* Undoing a restore puts back the markers it changed, those that still are
\* what it made them.
RestoreMarkers(H, source) ==
    LET undone(i) == {m \in source.markers :
                        /\ source.kind = "rollback"
                        /\ m.op = H[i].id
                        /\ m.after = history[i].revertedBy}
    IN  [i \in DOMAIN H |->
           IF undone(i) = {} THEN H[i]
           ELSE [H[i] EXCEPT !.revertedBy = (CHOOSE m \in undone(i) : TRUE).before]]

\* Batches newer than what is restored, all of whose keys the restore changed.
Supersede(H, source, by, scopes) ==
    [i \in DOMAIN H |->
       IF /\ H[i].id > source
          /\ H[i].kind = "batch"
          /\ ScopesOf(H[i].changes) \subseteq scopes
       THEN [H[i] EXCEPT !.revertedBy = by]
       ELSE H[i]]

Marked(action, id, changes) ==
    IF action.kind = "batch" THEN history
    ELSE Supersede(
           RestoreMarkers(MarkNativeBindingOperation(history, action.op, id),
                          RecordOf(history, action.op)),
           action.op, id, ScopesOf(changes))

\* Every difference the operation makes to the markers.
MarkersOf(H) ==
    {[op |-> H[i].id, before |-> history[i].revertedBy,
      after |-> H[i].revertedBy] :
       i \in {j \in DOMAIN H : H[j].revertedBy # history[j].revertedBy}}

\* The commit sets the times of what the plan changed.
Stamped(b) == [b EXCEPT !.created = IF b.created = 0 THEN Now ELSE b.created,
                        !.updated = Now]

StampedBindings(plan) ==
    {IF b.scope \in ScopesOf(plan.changes) THEN Stamped(b) ELSE b :
       b \in plan.bindings}

StampedChange(c, plan) ==
    LET b == CurrentOf(StampedBindings(plan), c.scope)
    IN  IF b = None THEN c
        ELSE [c EXCEPT !.afterCreated = b.created,
                       !.afterTemplate = IF @ = None THEN None ELSE b]

NewRecord(action, plan, marked) ==
    [id |-> Now, kind |-> action.kind,
     source |-> IF action.kind = "batch" THEN 0 ELSE action.op,
     revertedBy |-> 0,
     changes |-> {StampedChange(c, plan) : c \in plan.changes},
     markers |-> MarkersOf(marked)]

Shortened(H) == SubSeq(H, 1, IF Len(H) < HistoryLimit THEN Len(H) ELSE HistoryLimit)

NewHistory(action, plan) ==
    LET marked == Marked(action, Now, plan.changes)
    IN  Shortened(<<NewRecord(action, plan, marked)>> \o marked)

-----------------------------------------------------------------------------
(* Operations                                                              *)

\* A binding as the history knows it.
View(b) == IF b = None THEN None
           ELSE [restr |-> b.restr, id |-> b.id, created |-> b.created]

MarksOf(H) == {<<H[i].id, H[i].revertedBy>> : i \in DOMAIN H}

\* A broken variant, unused: a mutation is published though its save failed.
SaveOrNot(B, H) ==
    /\ commit' = [bindings |-> B, history |-> H]
    /\ \/ file' = [bindings |-> B, history |-> H] /\ UNCHANGED failures
       \/ failures < MaxFailures /\ failures' = failures + 1 /\ UNCHANGED file

\* A mutation writes the file first; a failing save changes nothing.
Save(B, H) ==
    \/ /\ file'   = [bindings |-> B, history |-> H]
       /\ commit' = [bindings |-> B, history |-> H]
       /\ UNCHANGED failures
    \/ /\ failures < MaxFailures
       /\ failures' = failures + 1
       /\ UNCHANGED <<file, commit>>

\* Then it publishes what it wrote.
Publish ==
    /\ commit # None
    /\ bindings' = commit.bindings
    /\ history'  = commit.history
    /\ commit'   = None
    /\ UNCHANGED <<file, groups, preview, edits, commits, failures, left, base>>

\* A single edit.
Edit(B) ==
    /\ commit = None
    /\ edits < MaxEdits
    /\ edits + commits < MaxOps
    /\ Normal(B)
    /\ edits' = edits + 1
    /\ Save(B, history)
    /\ UNCHANGED <<bindings, history, groups, preview, commits, left, base>>

CreateNativeKeyBinding ==
    \E id \in BindingIds, s \in Scopes, r \in Restrictions, p \in Policies :
       /\ \A b \in bindings : b.id # id
       /\ Edit(bindings \cup {[id |-> id, scope |-> s, restr |-> r, policy |-> p,
                               created |-> Now, updated |-> Now]})

\* One field at a time: restriction, policy or, rotating the key, the scope.
UpdateNativeKeyBinding ==
    \E b \in bindings :
    \E c \in {[b EXCEPT !.restr = r] : r \in Restrictions} \cup
             {[b EXCEPT !.policy = p] : p \in Policies} \cup
             {[b EXCEPT !.scope = s] : s \in Scopes} :
       Edit((bindings \ {b}) \cup {[c EXCEPT !.updated = Now]})

DeleteNativeKeyBinding ==
    \E b \in bindings : Edit(bindings \ {b})

\* The operator enables or disables the classification rules of a group.
ChangeRules ==
    /\ commit = None
    /\ edits < MaxEdits
    /\ edits + commits < MaxOps
    /\ edits' = edits + 1
    /\ \E g \in Groups : groups' = IF g \in groups THEN groups \ {g}
                                   ELSE groups \cup {g}
    /\ UNCHANGED <<bindings, history, file, commit, preview, commits, failures,
                   left, base>>

\* PreviewNativeBindingBatch, PreviewNativeBindingRollback.  Previews that
\* cannot be applied are left out: with the same revision the same plan
\* would be refused for its conflicts again.
Preview ==
    /\ commit = None
    /\ edits + commits < MaxOps
    /\ \E cat \in Catalogs : \E action \in Actions(cat) :
          LET plan == PlanFor(Snapshot, action, cat)
          IN  /\ ~plan.conflict
              /\ plan.changes # {}
              /\ preview' = [revision |-> Revision(action, cat),
                             changes  |-> plan.changes]
    /\ UNCHANGED <<bindings, history, file, commit, groups, edits, commits,
                   failures, left, base>>

\* Of the requests a client can make with the revision it was given, only
\* the one that was previewed can match; any other is refused.
Matches(action, cat) ==
    /\ preview.revision = Revision(action, cat)
    /\ action.kind = "rollback" => action.op \in IdsOf(history)

\* ApplyNativeBindingBatch, ApplyNativeBindingRollback, commitNativeBindingPlan.
\* The client forgets a preview it has applied; it could not be applied again,
\* the history has grown.
Apply ==
    /\ commit = None
    /\ edits + commits < MaxOps
    /\ preview # None
    /\ LET action == preview.revision.action
           cat    == preview.revision.catalog
           plan   == PlanFor(Snapshot, action, cat)
           B      == StampedBindings(plan)
       IN  /\ Matches(action, cat)
           /\ ~plan.conflict
           /\ plan.changes # {}
           /\ Normal(B)
           /\ Save(B, NewHistory(action, plan))
           /\ IF commit' = None THEN UNCHANGED <<preview, left, base>>
              ELSE /\ preview' = None
                   /\ left' = [s \in Scopes |->
                                 IF s \in ScopesOf(plan.changes)
                                 THEN <<View(CurrentOf(B, s))>> ELSE left[s]]
                   /\ base' = MarksOf(history)
    /\ commits' = commits + 1
    /\ UNCHANGED <<bindings, history, groups, edits>>

\* The process dies and starts again, or is reconfigured.
Restart ==
    /\ failures < MaxFailures
    /\ failures' = failures + 1
    /\ bindings' = file.bindings
    /\ history'  = file.history
    /\ commit'   = None
    /\ UNCHANGED <<file, groups, preview, edits, commits, left, base>>

\* A state file without history, or a first start with the bindings of
\* config.yaml, one at most.
Init ==
    /\ bindings \in {{}} \cup
         {{b} : b \in [id : OperatorIds, scope : Scopes, restr : Restrictions,
                       policy : Policies, created : {1}, updated : {1}]}
    /\ history  = <<>>
    /\ file     = [bindings |-> bindings, history |-> <<>>]
    /\ commit   = None
    /\ groups   = Groups
    /\ preview  = None
    /\ edits    = 0
    /\ commits  = 0
    /\ failures = 0
    /\ left     = [s \in Scopes |-> <<>>]
    /\ base     = {}

Next ==
    \/ CreateNativeKeyBinding
    \/ UpdateNativeKeyBinding
    \/ DeleteNativeKeyBinding
    \/ ChangeRules
    \/ Preview
    \/ Apply
    \/ Publish
    \/ Restart

Spec == Init /\ [][Next]_vars

-----------------------------------------------------------------------------
(* Properties                                                              *)

Committing == commit = None /\ commit' # None /\ commits' # commits
Written    == Head(commit'.history)
Restoring  == Committing /\ Written.kind = "rollback"

\* A restore puts back, for every key of the operation it reverts, exactly
\* the restriction the key had before that operation, whatever happened in
\* between; when it cannot do all of it, it does nothing
\* (planNativeBindingRollback, README.md:236).
RestoreReturnsTargets ==
    [][Restoring =>
         \A c \in RecordOf(history, Written.source).changes :
            RestrictionOf(CurrentOf(commit'.bindings, c.scope)) = c.before]_vars

\* A restore replaces only what the last batch or restore left: neither a
\* restriction that was edited by hand since, nor a binding that was rotated,
\* deleted or created again since (README.md:236).
OverridesOnlyRecorded ==
    [][Restoring =>
         \A s \in Scopes :
            View(CurrentOf(commit'.bindings, s)) # View(CurrentOf(bindings, s))
              => left[s] = <<View(CurrentOf(bindings, s))>>]_vars

\* A batch or a restore leaves alone every binding whose key it does not
\* list, and everything but the restriction of those it keeps; a restore
\* removes only what a batch created and nobody has edited since.
PolicyPreserved ==
    [][Committing =>
         \A b \in bindings :
            LET after == CurrentOf(commit'.bindings, b.scope)
            IN  \/ after = b
                \/ /\ after # None
                   /\ b.scope \in ScopesOf(Written.changes)
                   /\ Fingerprint(after) = Fingerprint(b)
                \/ /\ after = None
                   /\ Restoring
                   /\ b.id = BatchId(b.scope)
                   /\ b.policy = DefaultPolicy]_vars

Shown(changes) == {<<c.scope, c.before, c.after>> : c \in changes}

\* What is applied is what the client was shown, whatever else happened
\* between preview and apply (README.md:238).
PreviewIsExact ==
    [][Committing => Shown(Written.changes) = Shown(preview.changes)]_vars

\* No sequence of edits, batches and restores leads to a plan without
\* conflicts that gives one id or one key to two bindings.
PlansAreValid ==
    [][preview' \notin {preview, None} =>
         Normal(StampedBindings(PlanFor(Snapshot, preview'.revision.action,
                                        preview'.revision.catalog)))]_vars

\* No restriction, and no absence of one, is in force that the state file
\* does not have; bindings and history always agree
\* (native_keys.go:466, native_keys.go:606).  It is proved; no run states it.
LiveIsDurable ==
    commit = None => file = [bindings |-> bindings, history |-> history]

\* Undoing the newest operation, a restore, leaves every older record marked
\* as it was before that restore, as far as the restore had changed it
\* (native_binding_batch.go:737).
MarkersRoundTrip ==
    [][/\ Restoring
       /\ Written.source = history[1].id
       /\ history[1].kind = "rollback"
       => \A i \in DOMAIN commit'.history :
            LET h == commit'.history[i]
            IN  \A m \in base :
                  /\ m[1] = h.id
                  /\ m \notin MarksOf(history)
                  => h.revertedBy = m[2]]_vars

-----------------------------------------------------------------------------
(***************************************************************************)
(* The promise to an operator who restricts credentials: RestrictionLog.   *)
(***************************************************************************)
RestrictionsIn(B) == [s \in Scopes |-> RestrictionOf(CurrentOf(B, s))]

Took(changes) ==
    [s \in ScopesOf(changes) |-> (CHOOSE c \in changes : c.scope = s).before]

OperationsIn(H) ==
    {[id |-> H[i].id, took |-> Took(H[i].changes)] : i \in DOMAIN H}

Log == INSTANCE RestrictionLog WITH
    table <- RestrictionsIn(file.bindings),
    log   <- OperationsIn(file.history),
    live  <- RestrictionsIn(bindings)

\* Edits, batches and restores are atomic steps of that table and log,
\* whatever saves fail and whenever the process restarts: a restore gives each
\* key of an operation what it had before, or none of them anything.
LogSpec == Log!Spec
=============================================================================
