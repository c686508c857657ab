----------------------- MODULE NativeBindingsProofs -----------------------
(***************************************************************************)
(* Theorems of NativeBindings: what is in force is what the state file     *)
(* has, what is applied is what was shown, a restore gives every key       *)
(* exactly what it promises and takes nothing away that the history did    *)
(* not put there, undoing a restore undoes the marks it left, and to an    *)
(* operator all of this is the table and the log of RestrictionLog.        *)
(***************************************************************************)
EXTENDS NativeBindings, SequenceTheorems, TLAPS

(* The inductive invariant.  It speaks of the state file, where a mutation *)
(* arrives first; the store follows when the mutation is published.        *)

\* A table that loads, and in which the commits have set every time.
GoodTable(B) ==
    /\ B \subseteq Binding
    /\ Normal(B)
    /\ \A b \in B : b.created # 0

\* A template is the binding a batch once gave to the key of the change.
Template(t, c) ==
    /\ t.id = c.id
    /\ t.scope = c.scope
    /\ t.id = BatchId(t.scope)
    /\ t.policy = DefaultPolicy

\* The changes of one record: one for each key and each id.
GoodChanges(C) ==
    /\ C \subseteq Change
    /\ \A c, d \in C : c # d => c.scope # d.scope /\ c.id # d.id
    /\ \A c \in C : /\ c.beforeTemplate # None => Template(c.beforeTemplate, c)
                    /\ c.afterTemplate # None => Template(c.afterTemplate, c)

GoodHistory(H) ==
    /\ H \in Seq(Record)
    /\ \A i \in DOMAIN H : GoodChanges(H[i].changes)

\* What a recorded change left of its key, as View shows it.
ViewLeft(c) == IF c.after = None THEN None
               ELSE [restr |-> c.after, id |-> c.id, created |-> c.afterCreated]

\* The change c is the newest one of the scope in the history, at k.
NewestAt(H, s, k, c) ==
    /\ c \in H[k].changes
    /\ c.scope = s
    /\ \A j \in 1 .. k - 1 : s \notin ScopesOf(H[j].changes)

\* What the last batch or restore left of a key is what the newest record
\* about the key says.
LatestLeft(H, lft) ==
    \A s \in Scopes : \A i \in DOMAIN H :
       s \in ScopesOf(H[i].changes) =>
          \E k \in 1 .. i : \E c \in H[k].changes :
             NewestAt(H, s, k, c) /\ lft[s] = <<ViewLeft(c)>>

FileInv ==
    /\ GoodTable(file.bindings)
    /\ GoodHistory(file.history)
    /\ LatestLeft(file.history, left)

\* updateMu: the store lags behind the file by the mutation being committed.
CommitInv ==
    /\ commit = None => file = [bindings |-> bindings, history |-> history]
    /\ commit # None => file = commit

\* A preview shows the plan of its own revision.
PreviewInv ==
    preview # None =>
       preview.changes = PlanFor(preview.revision.snapshot,
                                 preview.revision.action,
                                 preview.revision.catalog).changes

BindingsInv == TypeOK /\ FileInv /\ CommitInv /\ PreviewInv

-----------------------------------------------------------------------------
(* None is none of the things it stands for the absence of.                *)

LEMMA NoneFacts ==
    /\ None \notin Restrictions
    /\ None \notin Binding
    /\ None \notin Tables
    /\ None \notin Shows
  BY NoneAssumption

\* In a table, a key has the binding CurrentOf finds and no other.
LEMMA CurrentFacts ==
    ASSUME NEW B, B \subseteq Binding, Normal(B), NEW s
    PROVE  /\ CurrentOf(B, s) = None => \A b \in B : b.scope # s
           /\ CurrentOf(B, s) # None => /\ CurrentOf(B, s) \in B
                                        /\ CurrentOf(B, s).scope = s
           /\ \A b \in B : b.scope = s => CurrentOf(B, s) = b
           /\ (\A b \in B : b.scope # s) => CurrentOf(B, s) = None
<1>1. CASE \E b \in B : b.scope = s
  <2>1. CurrentOf(B, s) \in B /\ CurrentOf(B, s).scope = s
    BY <1>1 DEF CurrentOf
  <2>2. CurrentOf(B, s) # None
    BY <2>1, NoneFacts
  <2> QED
    BY <1>1, <2>1, <2>2 DEF Normal
<1>2. CASE \A b \in B : b.scope # s
  BY <1>2 DEF CurrentOf
<1> QED
  BY <1>1, <1>2

LEMMA RestrictionFacts ==
    ASSUME NEW b \in Binding \cup {None}
    PROVE  /\ RestrictionOf(b) \in Restrictions \cup {None}
           /\ RestrictionOf(b) = None <=> b = None
  BY NoneFacts DEF RestrictionOf, Binding

LEMMA NowIsATime ==
    ASSUME edits \in Nat, commits \in Nat, edits + commits < MaxOps
    PROVE  Now \in Times /\ Now # 0
  BY BoundAssumption DEF Now, Times

-----------------------------------------------------------------------------
(* Plans.  Both kinds make a plan that can be stamped and recorded.        *)

\* What a plan without conflicts does to the table B.
GoodPlan(B, P) ==
    /\ P.bindings \subseteq Binding
    /\ Normal(P.bindings)
    /\ P.changes \subseteq Change
    /\ \A c, d \in P.changes : c # d => c.scope # d.scope /\ c.id # d.id
    /\ \A b \in B : b.scope \notin ScopesOf(P.changes) => b \in P.bindings
    /\ \A b \in P.bindings : b.scope \notin ScopesOf(P.changes) => b \in B
    /\ \A c \in P.changes :
          LET now  == CurrentOf(B, c.scope)
              then == CurrentOf(P.bindings, c.scope)
          IN  /\ c.after = RestrictionOf(then)
              /\ then # None => then.id = c.id
              /\ now # None /\ then # None => Fingerprint(then) = Fingerprint(now)
              /\ then = None => /\ c.afterTemplate = None
                                /\ now # None
                                /\ now.id = BatchId(now.scope)
                                /\ now.policy = DefaultPolicy
              /\ c.afterTemplate # None => Template(then, c)
              /\ c.beforeTemplate # None => Template(c.beforeTemplate, c)

LEMMA CandidateFacts ==
    ASSUME NEW B, GoodTable(B), NEW s \in Scopes, NEW t \in BatchTargets
    PROVE  /\ BatchCandidate(B, s, t) \in Binding
           /\ BatchCandidate(B, s, t).scope = s
           /\ BatchCandidate(B, s, t).restr = AuthsOnly(t)
           /\ CurrentOf(B, s) = None =>
                 /\ BatchCandidate(B, s, t).id = BatchId(s)
                 /\ BatchCandidate(B, s, t).policy = DefaultPolicy
           /\ CurrentOf(B, s) # None =>
                 Fingerprint(BatchCandidate(B, s, t)) = Fingerprint(CurrentOf(B, s))
<1> DEFINE K == BatchCandidate(B, s, t)
<1>1. AuthsOnly(t) \in Restrictions
  BY DEF Restrictions
<1>2. CASE CurrentOf(B, s) = None
  <2>1. K = [id |-> BatchId(s), scope |-> s, restr |-> AuthsOnly(t),
             policy |-> DefaultPolicy, created |-> 0, updated |-> 0]
    BY <1>2 DEF BatchCandidate
  <2>2. BatchId(s) \in BindingIds /\ 0 \in Times
    BY BoundAssumption DEF BindingIds, Times
  <2>3. K \in Binding
    BY <2>1, <2>2, <1>1, PolicyAssumption DEF Binding
  <2> QED
    BY <1>2, <2>1, <2>3
<1>3. CASE CurrentOf(B, s) # None
  <2>1. CurrentOf(B, s) \in Binding /\ CurrentOf(B, s).scope = s
    BY <1>3, CurrentFacts DEF GoodTable
  <2>2. K = [CurrentOf(B, s) EXCEPT !.restr = AuthsOnly(t)]
    BY <1>3 DEF BatchCandidate
  <2>3. K \in Binding /\ K.scope = s /\ K.restr = AuthsOnly(t)
    BY <2>1, <2>2, <1>1 DEF Binding
  <2>4. Fingerprint(K) = Fingerprint(CurrentOf(B, s))
    BY <2>1, <2>2 DEF Binding, Fingerprint
  <2> QED
    BY <1>3, <2>3, <2>4
<1> QED
  BY <1>2, <1>3

LEMMA BatchChangeFacts ==
    ASSUME NEW B, GoodTable(B), NEW s \in Scopes, NEW t \in BatchTargets
    PROVE  LET c == BatchChange(B, s, t)
               k == BatchCandidate(B, s, t)
           IN  /\ c \in Change
               /\ c.id = k.id
               /\ c.scope = s
               /\ c.after = AuthsOnly(t)
               /\ c.beforeTemplate = None
               /\ c.afterTemplate = IF CurrentOf(B, s) = None THEN k ELSE None
<1> DEFINE c == BatchChange(B, s, t)
           k == BatchCandidate(B, s, t)
           b == CurrentOf(B, s)
<1>1. k \in Binding /\ k.restr = AuthsOnly(t)
  BY CandidateFacts
<1>2. b \in Binding \cup {None}
  BY CurrentFacts DEF GoodTable
<1>3. c = [id |-> k.id, scope |-> s,
           before |-> RestrictionOf(b), after |-> k.restr,
           beforeCreated |-> IF b = None THEN 0 ELSE b.created,
           afterCreated |-> 0, beforeTemplate |-> None,
           afterTemplate |-> IF b = None THEN k ELSE None]
  BY DEF BatchChange
<1>4. /\ k.id \in BindingIds
      /\ k.restr \in Restrictions
      /\ 0 \in Times
      /\ (IF b = None THEN 0 ELSE b.created) \in Times
  BY <1>1, <1>2, BoundAssumption DEF Binding, Times
<1>5. RestrictionOf(b) \in Restrictions \cup {None}
  BY <1>2, RestrictionFacts
<1> HIDE DEF k, b
<1>6. c \in Change
  <2> HIDE DEF c
  <2> QED
    BY <1>1, <1>3, <1>4, <1>5 DEF Change
<1>7. /\ c.id = k.id
      /\ c.scope = s
      /\ c.after = AuthsOnly(t)
      /\ c.beforeTemplate = None
      /\ c.afterTemplate = IF b = None THEN k ELSE None
  BY <1>1, <1>3
<1> QED
  BY <1>6, <1>7 DEF k, b

\* A batch never gives one id to two keys, nor one key two bindings: the id
\* of a new binding is free and belongs to its key alone.
LEMMA BatchPlanIsGood ==
    ASSUME NEW S, GoodTable(S.bindings),
           NEW cat, NEW action,
           action.selected \subseteq Scopes, action.target \in BatchTargets,
           ~PlanNativeBindingBatch(S, action, cat).conflict
    PROVE  LET P == PlanNativeBindingBatch(S, action, cat)
           IN  /\ GoodPlan(S.bindings, P)
               /\ \A c \in P.changes : CurrentOf(P.bindings, c.scope) # None
<1> DEFINE B == S.bindings
           t == action.target
           changed == {s \in action.selected :
                         RestrictionOf(CurrentOf(B, s)) # AuthsOnly(t)}
           K(s) == BatchCandidate(B, s, t)
           C(s) == BatchChange(B, s, t)
           P == PlanNativeBindingBatch(S, action, cat)
<1>1. \A s \in action.selected : ~IdTaken(B, s)
  BY DEF PlanNativeBindingBatch
<1>2. /\ P.bindings = {b \in B : b.scope \notin changed} \cup {K(s) : s \in changed}
      /\ P.changes = {C(s) : s \in changed}
  <2>1. {s \in action.selected : IdTaken(B, s)} = {}
    BY <1>1
  <2>2. {s \in action.selected \ {s \in action.selected : IdTaken(B, s)} :
           RestrictionOf(CurrentOf(B, s)) # AuthsOnly(t)} = changed
    BY <2>1
  <2> QED
    BY <2>2 DEF PlanNativeBindingBatch
<1>3. GoodTable(B) /\ changed \subseteq Scopes /\ t \in BatchTargets
  OBVIOUS
<1>4. \A s \in changed :
         /\ K(s) \in Binding
         /\ K(s).scope = s
         /\ K(s).restr = AuthsOnly(t)
         /\ CurrentOf(B, s) = None => /\ K(s).id = BatchId(s)
                                      /\ K(s).policy = DefaultPolicy
         /\ CurrentOf(B, s) # None =>
               /\ Fingerprint(K(s)) = Fingerprint(CurrentOf(B, s))
               /\ K(s).id = CurrentOf(B, s).id
  BY <1>3, CandidateFacts DEF Fingerprint
<1>5. \A s \in changed :
         /\ C(s) \in Change
         /\ C(s).id = K(s).id
         /\ C(s).scope = s
         /\ C(s).after = AuthsOnly(t)
         /\ C(s).beforeTemplate = None
         /\ C(s).afterTemplate = IF CurrentOf(B, s) = None THEN K(s) ELSE None
  BY <1>3, BatchChangeFacts
<1>6. \A s \in changed : \A b \in B : b.scope # s => b.id # K(s).id
  <2> SUFFICES ASSUME NEW s \in changed, NEW b \in B, b.scope # s
               PROVE  b.id # K(s).id
    OBVIOUS
  <2>1. CASE CurrentOf(B, s) = None
    BY <2>1, <1>1, <1>4 DEF IdTaken
  <2>2. CASE CurrentOf(B, s) # None
    BY <2>2, <1>3, <1>4, CurrentFacts DEF GoodTable, Normal
  <2> QED
    BY <2>1, <2>2
<1>7. \A s, r \in changed : s # r => K(s).id # K(r).id
  <2> SUFFICES ASSUME NEW s \in changed, NEW r \in changed, s # r
               PROVE  K(s).id # K(r).id
    OBVIOUS
  <2>1. CASE CurrentOf(B, r) # None
    BY <2>1, <1>3, <1>4, <1>6, CurrentFacts DEF GoodTable
  <2>2. CASE CurrentOf(B, s) # None
    BY <2>2, <1>3, <1>4, <1>6, CurrentFacts DEF GoodTable
  <2>3. CASE CurrentOf(B, r) = None /\ CurrentOf(B, s) = None
    BY <2>3, <1>4 DEF BatchId
  <2> QED
    BY <2>1, <2>2, <2>3
<1>8. ScopesOf(P.changes) = changed
  BY <1>2, <1>5 DEF ScopesOf
<1> HIDE DEF K, C, P, changed
<1>9. P.bindings \subseteq Binding /\ P.changes \subseteq Change
  BY <1>2, <1>3, <1>4, <1>5 DEF GoodTable
<1>10. Normal(P.bindings)
  <2> SUFFICES ASSUME NEW b \in P.bindings, NEW c \in P.bindings, b # c
               PROVE  b.id # c.id /\ b.scope # c.scope
    BY DEF Normal
  <2>1. CASE b \in B /\ c \in B
    BY <2>1, <1>3 DEF GoodTable, Normal
  <2>2. CASE b \in B /\ b.scope \notin changed /\ \E s \in changed : c = K(s)
    BY <2>2, <1>4, <1>6
  <2>3. CASE c \in B /\ c.scope \notin changed /\ \E s \in changed : b = K(s)
    BY <2>3, <1>4, <1>6
  <2>4. CASE \E s, r \in changed : b = K(s) /\ c = K(r)
    BY <2>4, <1>4, <1>7
  <2> QED
    BY <1>2, <2>1, <2>2, <2>3, <2>4
<1>11. \A c, d \in P.changes : c # d => c.scope # d.scope /\ c.id # d.id
  BY <1>2, <1>5, <1>7
<1>12. ASSUME NEW c \in P.changes
       PROVE  LET now  == CurrentOf(B, c.scope)
                  then == CurrentOf(P.bindings, c.scope)
              IN  /\ c.after = RestrictionOf(then)
                  /\ then # None /\ then.id = c.id
                  /\ now # None => Fingerprint(then) = Fingerprint(now)
                  /\ c.afterTemplate # None => Template(then, c)
                  /\ c.beforeTemplate = None
  <2>1. PICK s \in changed : c = C(s)
    BY <1>2
  <2>2. K(s) \in P.bindings /\ K(s).scope = s /\ c.scope = s
    BY <2>1, <1>2, <1>4, <1>5
  <2>3. CurrentOf(P.bindings, s) = K(s) /\ K(s) # None
    BY <2>2, <1>4, <1>9, <1>10, CurrentFacts, NoneFacts
  <2>4. RestrictionOf(K(s)) = AuthsOnly(t)
    BY <2>3, <1>4 DEF RestrictionOf
  <2>5. c.afterTemplate # None => Template(K(s), c)
    BY <2>1, <2>2, <1>4, <1>5 DEF Template
  <2> QED
    BY <2>1, <2>2, <2>3, <2>4, <2>5, <1>4, <1>5
<1>13. /\ \A b \in B : b.scope \notin ScopesOf(P.changes) => b \in P.bindings
       /\ \A b \in P.bindings : b.scope \notin ScopesOf(P.changes) => b \in B
  <2> HIDE DEF B
  <2>1. \A s \in changed : K(s).scope = s
    BY <1>4
  <2> QED
    BY <2>1, <1>2, <1>8
<1>14. GoodPlan(B, P)
  <2> HIDE DEF B
  <2> SUFFICES ASSUME NEW c \in P.changes
               PROVE  LET now  == CurrentOf(B, c.scope)
                          then == CurrentOf(P.bindings, c.scope)
                      IN  /\ c.after = RestrictionOf(then)
                          /\ then # None => then.id = c.id
                          /\ now # None /\ then # None
                               => Fingerprint(then) = Fingerprint(now)
                          /\ then = None => /\ c.afterTemplate = None
                                            /\ now # None
                                            /\ now.id = BatchId(now.scope)
                                            /\ now.policy = DefaultPolicy
                          /\ c.afterTemplate # None => Template(then, c)
                          /\ c.beforeTemplate # None
                               => Template(c.beforeTemplate, c)
    BY <1>9, <1>10, <1>11, <1>13 DEF GoodPlan
  <2> QED
    BY <1>12
<1> QED
  BY <1>12, <1>14 DEF P

\* What the absence of a conflict says about one key of a restore.
LEMMA NoConflict ==
    ASSUME NEW S, NEW c, NEW cat,
           ~Conflict(S, c, cat), ~AlreadyRestored(S, c)
    PROVE  LET cur == CurrentOf(S.bindings, c.scope)
           IN  /\ cur # None => cur.id = c.id
               /\ RestrictionOf(cur) # c.before
               /\ c.before = None =>
                     /\ c.afterTemplate # None
                     /\ Fingerprint(cur) = Fingerprint(c.afterTemplate)
               /\ c.before # None /\ cur = None =>
                     /\ c.beforeTemplate # None
                     /\ \A b \in S.bindings : b.id # c.id
<1>1. ~OtherInstance(S, c) /\ ~ModifiedSince(S, c) /\ ~CannotRecreate(S, c)
  BY DEF Conflict
<1>2. RestrictionOf(CurrentOf(S.bindings, c.scope)) # c.before
  BY DEF AlreadyRestored
<1>3. CurrentOf(S.bindings, c.scope) # None
        => CurrentOf(S.bindings, c.scope).id = c.id
  BY <1>1 DEF OtherInstance
<1>4. c.before = None =>
         /\ c.afterTemplate # None
         /\ Fingerprint(CurrentOf(S.bindings, c.scope))
              = Fingerprint(c.afterTemplate)
  BY <1>1 DEF ModifiedSince
<1>5. c.before # None /\ CurrentOf(S.bindings, c.scope) = None =>
         /\ c.beforeTemplate # None
         /\ \A b \in S.bindings : b.id # c.id
  BY <1>1 DEF CannotRecreate
<1> QED
  BY <1>2, <1>3, <1>4, <1>5

\* The binding a restore gives to one key: what it keeps, what it creates
\* again and what it removes.
LEMMA RestoreFacts ==
    ASSUME NEW S, GoodTable(S.bindings), NEW C, GoodChanges(C), NEW c \in C,
           NEW cat, ~Conflict(S, c, cat), ~AlreadyRestored(S, c)
    PROVE  LET cur == CurrentOf(S.bindings, c.scope)
               R   == RollbackCandidate(S, c)
           IN  /\ R \in Binding \cup {None}
               /\ R = None <=> c.before = None
               /\ R # None => R.scope = c.scope /\ R.id = c.id /\ R.restr = c.before
               /\ R = None => /\ cur # None
                              /\ cur.id = BatchId(cur.scope)
                              /\ cur.policy = DefaultPolicy
               /\ R # None /\ cur # None => Fingerprint(R) = Fingerprint(cur)
               /\ cur # None => cur.id = c.id
               /\ cur = None => /\ R # None
                                /\ \A b \in S.bindings : b.id # c.id
                                /\ Template(R, c)
<1> DEFINE B   == S.bindings
           cur == CurrentOf(B, c.scope)
           R   == RollbackCandidate(S, c)
<1>1. c \in Change
  BY DEF GoodChanges
<1>2. cur \in Binding \cup {None} /\ (cur # None => cur \in B /\ cur.scope = c.scope)
  BY CurrentFacts DEF GoodTable
<1>3. /\ cur # None => cur.id = c.id
      /\ RestrictionOf(cur) # c.before
      /\ c.before = None =>
            /\ c.afterTemplate # None
            /\ Fingerprint(cur) = Fingerprint(c.afterTemplate)
      /\ c.before # None /\ cur = None =>
            /\ c.beforeTemplate # None
            /\ \A b \in B : b.id # c.id
  BY NoConflict
<1>4. R = IF c.before = None THEN None
          ELSE IF cur = None THEN [c.beforeTemplate EXCEPT !.restr = c.before]
          ELSE [cur EXCEPT !.restr = c.before]
  BY DEF RollbackCandidate
<1>5. /\ c.before \in Restrictions \cup {None}
      /\ c.beforeTemplate \in Binding \cup {None}
      /\ c.afterTemplate \in Binding \cup {None}
      /\ c.beforeTemplate # None => Template(c.beforeTemplate, c)
      /\ c.afterTemplate # None => Template(c.afterTemplate, c)
  BY <1>1 DEF Change, GoodChanges
<1> HIDE DEF R, cur, B
<1>6. CASE c.before = None
  <2>1. R = None
    BY <1>4, <1>6
  <2>2. cur # None
    BY <1>3, <1>6 DEF RestrictionOf
  <2>3. cur.id = BatchId(cur.scope) /\ cur.policy = DefaultPolicy
    BY <1>3, <1>5, <1>6 DEF Fingerprint, Template
  <2>4. cur.id = c.id
    BY <1>3, <2>2
  <2> QED
    BY <1>6, <2>1, <2>2, <2>3, <2>4 DEF R, cur, B
<1>7. CASE c.before # None /\ cur = None
  <2>1. c.beforeTemplate \in Binding /\ Template(c.beforeTemplate, c)
    BY <1>3, <1>5, <1>7
  <2>2. R = [c.beforeTemplate EXCEPT !.restr = c.before]
    BY <1>4, <1>7
  <2>3. /\ R \in Binding
        /\ R.restr = c.before
        /\ R.id = c.beforeTemplate.id
        /\ R.scope = c.beforeTemplate.scope
        /\ R.policy = c.beforeTemplate.policy
    BY <1>5, <1>7, <2>1, <2>2 DEF Binding
  <2>4. Template(R, c) /\ R.scope = c.scope /\ R.id = c.id
    BY <2>1, <2>3 DEF Template
  <2>5. R # None /\ \A b \in B : b.id # c.id
    BY <1>3, <1>7, <2>3, NoneFacts
  <2> QED
    BY <1>7, <2>3, <2>4, <2>5 DEF R, cur, B
<1>8. CASE c.before # None /\ cur # None
  <2>1. cur \in Binding /\ cur.scope = c.scope /\ cur.id = c.id
    BY <1>2, <1>3, <1>8
  <2>2. R = [cur EXCEPT !.restr = c.before]
    BY <1>4, <1>8
  <2>3. /\ R \in Binding
        /\ R.restr = c.before
        /\ R.scope = c.scope
        /\ R.id = c.id
    BY <1>5, <1>8, <2>1, <2>2 DEF Binding
  <2>4. Fingerprint(R) = Fingerprint(cur)
    BY <2>1, <2>2 DEF Binding, Fingerprint
  <2>5. R # None
    BY <2>3, NoneFacts
  <2> QED
    BY <1>8, <2>1, <2>3, <2>4, <2>5 DEF R, cur, B
<1> QED
  BY <1>6, <1>7, <1>8

LEMMA RestoreChangeFacts ==
    ASSUME NEW S, GoodTable(S.bindings), NEW C, GoodChanges(C), NEW c \in C,
           NEW cat, ~Conflict(S, c, cat), ~AlreadyRestored(S, c)
    PROVE  LET cur == CurrentOf(S.bindings, c.scope)
               R   == RollbackCandidate(S, c)
               D   == RollbackChange(S, c)
           IN  /\ D \in Change
               /\ D.id = c.id
               /\ D.scope = c.scope
               /\ D.after = RestrictionOf(R)
               /\ D.beforeTemplate = IF R = None THEN cur ELSE None
               /\ D.afterTemplate = IF cur = None THEN R ELSE None
<1> DEFINE cur == CurrentOf(S.bindings, c.scope)
           R   == RollbackCandidate(S, c)
           D   == RollbackChange(S, c)
<1>1. c.id \in BindingIds /\ c.scope \in Scopes
  BY DEF GoodChanges, Change
<1>2. cur \in Binding \cup {None}
  BY CurrentFacts DEF GoodTable
<1>3. R \in Binding \cup {None}
  BY RestoreFacts
<1>4. D = [id |-> c.id, scope |-> c.scope,
           before |-> RestrictionOf(cur), after |-> RestrictionOf(R),
           beforeCreated |-> IF cur = None THEN 0 ELSE cur.created,
           afterCreated |-> 0,
           beforeTemplate |-> IF R = None THEN cur ELSE None,
           afterTemplate |-> IF cur = None THEN R ELSE None]
  BY DEF RollbackChange
<1>5. 0 \in Times /\ (IF cur = None THEN 0 ELSE cur.created) \in Times
  BY <1>2, BoundAssumption DEF Binding, Times
<1>6. /\ RestrictionOf(cur) \in Restrictions \cup {None}
      /\ RestrictionOf(R) \in Restrictions \cup {None}
  BY <1>2, <1>3, RestrictionFacts
<1> HIDE DEF cur, R, D
<1>7. D \in Change
  BY <1>1, <1>2, <1>3, <1>4, <1>5, <1>6 DEF Change
<1> QED
  BY <1>4, <1>7 DEF cur, R, D

\* A restore without conflicts gives every key of the record exactly the
\* restriction it had before, and the table stays one that loads.
LEMMA RestorePlanIsGood ==
    ASSUME NEW S, GoodTable(S.bindings), NEW cat, NEW action,
           GoodChanges(RecordOf(S.history, action.op).changes),
           ~PlanNativeBindingRollback(S, action, cat).conflict
    PROVE  LET P     == PlanNativeBindingRollback(S, action, cat)
               saved == RecordOf(S.history, action.op).changes
           IN  /\ GoodPlan(S.bindings, P)
               /\ \A c \in saved :
                     RestrictionOf(CurrentOf(P.bindings, c.scope)) = c.before
               /\ \A d \in P.changes : \E c \in saved :
                     /\ d = RollbackChange(S, c)
                     /\ ~Conflict(S, c, cat)
                     /\ ~AlreadyRestored(S, c)
<1> DEFINE B == S.bindings
           P == PlanNativeBindingRollback(S, action, cat)
           saved == RecordOf(S.history, action.op).changes
           changed == {c \in saved : ~AlreadyRestored(S, c)}
           R(c) == RollbackCandidate(S, c)
           D(c) == RollbackChange(S, c)
<1>1. \A c \in saved : ~Conflict(S, c, cat)
  BY DEF PlanNativeBindingRollback
<1>2. /\ P.bindings = {b \in B : b.scope \notin ScopesOf(changed)} \cup
                      ({R(c) : c \in changed} \ {None})
      /\ P.changes = {D(c) : c \in changed}
  <2>1. {c \in saved : Conflict(S, c, cat)} = {}
    BY <1>1
  <2>2. {c \in saved \ {c \in saved : Conflict(S, c, cat)} :
           ~AlreadyRestored(S, c)} = changed
    BY <2>1
  <2> QED
    BY <2>2 DEF PlanNativeBindingRollback
<1>3. GoodTable(B) /\ GoodChanges(saved) /\ changed \subseteq saved
  OBVIOUS
<1>4. \A c \in changed :
         LET cur == CurrentOf(B, c.scope)
         IN  /\ R(c) \in Binding \cup {None}
             /\ R(c) = None <=> c.before = None
             /\ R(c) # None => /\ R(c).scope = c.scope
                               /\ R(c).id = c.id
                               /\ R(c).restr = c.before
             /\ R(c) = None => /\ cur # None
                               /\ cur.id = BatchId(cur.scope)
                               /\ cur.policy = DefaultPolicy
             /\ R(c) # None /\ cur # None => Fingerprint(R(c)) = Fingerprint(cur)
             /\ cur # None => cur.id = c.id
             /\ cur = None => /\ R(c) # None
                              /\ \A b \in B : b.id # c.id
                              /\ Template(R(c), c)
  BY <1>1, RestoreFacts
<1>5. \A c \in changed :
         LET cur == CurrentOf(B, c.scope)
         IN  /\ D(c) \in Change
             /\ D(c).id = c.id
             /\ D(c).scope = c.scope
             /\ D(c).after = RestrictionOf(R(c))
             /\ D(c).beforeTemplate = IF R(c) = None THEN cur ELSE None
             /\ D(c).afterTemplate = IF cur = None THEN R(c) ELSE None
  BY <1>1, RestoreChangeFacts
<1>6. \A c, d \in saved : c # d => c.scope # d.scope /\ c.id # d.id
  BY <1>3 DEF GoodChanges
<1>7. \A b \in B : \A s : b.scope = s => CurrentOf(B, s) = b
  BY <1>3, CurrentFacts DEF GoodTable
<1>8. \A s : CurrentOf(B, s) # None => CurrentOf(B, s) \in B /\ CurrentOf(B, s).scope = s
  BY <1>3, CurrentFacts DEF GoodTable
<1>9. B \subseteq Binding /\ Normal(B)
  BY <1>3 DEF GoodTable
<1>10. \A c \in saved \ changed : RestrictionOf(CurrentOf(B, c.scope)) = c.before
  BY DEF AlreadyRestored
<1>11. ScopesOf(P.changes) = ScopesOf(changed)
  BY <1>2, <1>5 DEF ScopesOf
<1>12. \A s : s \in ScopesOf(changed) <=> \E c \in changed : s = c.scope
  BY DEF ScopesOf
<1> HIDE DEF B, P, saved, R, D
<1>13. \A b \in P.bindings :
          \/ b \in B /\ b.scope \notin ScopesOf(changed)
          \/ \E c \in changed : b = R(c) /\ R(c) # None
  BY <1>2
<1> HIDE DEF changed
<1>14. P.bindings \subseteq Binding /\ P.changes \subseteq Change
  BY <1>2, <1>4, <1>5, <1>9, <1>13
<1>15. \A c \in changed : \A b \in B : b.scope # c.scope => b.id # c.id
  <2> SUFFICES ASSUME NEW c \in changed, NEW b \in B, b.scope # c.scope
               PROVE  b.id # c.id
    OBVIOUS
  <2>1. CASE CurrentOf(B, c.scope) = None
    BY <2>1, <1>4
  <2>2. CASE CurrentOf(B, c.scope) # None
    <3>1. /\ CurrentOf(B, c.scope) \in B
          /\ CurrentOf(B, c.scope).scope = c.scope
          /\ CurrentOf(B, c.scope).id = c.id
      BY <2>2, <1>4, <1>8
    <3> QED
      BY <3>1, <1>9 DEF Normal
  <2> QED
    BY <2>1, <2>2
<1>16. Normal(P.bindings)
  <2> SUFFICES ASSUME NEW a \in P.bindings, NEW b \in P.bindings, a # b
               PROVE  a.id # b.id /\ a.scope # b.scope
    BY DEF Normal
  <2>1. CASE a \in B /\ b \in B
    BY <2>1, <1>9 DEF Normal
  <2>2. CASE /\ a \in B /\ a.scope \notin ScopesOf(changed)
             /\ \E c \in changed : b = R(c) /\ R(c) # None
    BY <2>2, <1>4, <1>12, <1>15
  <2>3. CASE /\ b \in B /\ b.scope \notin ScopesOf(changed)
             /\ \E c \in changed : a = R(c) /\ R(c) # None
    BY <2>3, <1>4, <1>12, <1>15
  <2>4. CASE \E c, d \in changed : /\ a = R(c) /\ R(c) # None
                                   /\ b = R(d) /\ R(d) # None
    BY <2>4, <1>3, <1>4, <1>6
  <2> QED
    BY <1>13, <2>1, <2>2, <2>3, <2>4
<1>17. \A c \in changed : CurrentOf(P.bindings, c.scope) = R(c)
  <2> SUFFICES ASSUME NEW c \in changed
               PROVE  CurrentOf(P.bindings, c.scope) = R(c)
    OBVIOUS
  <2>1. CASE R(c) # None
    <3>1. R(c) \in P.bindings /\ R(c).scope = c.scope
      BY <2>1, <1>2, <1>4
    <3> QED
      BY <3>1, <1>14, <1>16, CurrentFacts
  <2>2. CASE R(c) = None
    <3>1. \A b \in P.bindings : b.scope # c.scope
      BY <2>2, <1>3, <1>4, <1>6, <1>12, <1>13
    <3> QED
      BY <3>1, <2>2, <1>14, <1>16, CurrentFacts
  <2> QED
    BY <2>1, <2>2
<1>18. /\ \A b \in B : b.scope \notin ScopesOf(P.changes) => b \in P.bindings
       /\ \A b \in P.bindings : b.scope \notin ScopesOf(P.changes) => b \in B
  <2>1. \A b \in B : b.scope \notin ScopesOf(P.changes) => b \in P.bindings
    BY <1>2, <1>11
  <2>2. \A c \in changed : R(c) # None => R(c).scope \in ScopesOf(P.changes)
    BY <1>4, <1>11, <1>12
  <2> QED
    BY <2>1, <2>2, <1>11, <1>13
<1>19. \A c, d \in P.changes : c # d => c.scope # d.scope /\ c.id # d.id
  BY <1>2, <1>3, <1>5, <1>6
<1>20. ASSUME NEW d \in P.changes
       PROVE  LET now  == CurrentOf(B, d.scope)
                  then == CurrentOf(P.bindings, d.scope)
              IN  /\ d.after = RestrictionOf(then)
                  /\ then # None => then.id = d.id
                  /\ now # None /\ then # None => Fingerprint(then) = Fingerprint(now)
                  /\ then = None => /\ d.afterTemplate = None
                                    /\ now # None
                                    /\ now.id = BatchId(now.scope)
                                    /\ now.policy = DefaultPolicy
                  /\ d.afterTemplate # None => Template(then, d)
                  /\ d.beforeTemplate # None => Template(d.beforeTemplate, d)
  <2>1. PICK c \in changed : d = D(c)
    BY <1>2
  <2> DEFINE now  == CurrentOf(B, c.scope)
             then == R(c)
  <2>2. d.scope = c.scope /\ d.id = c.id /\ CurrentOf(P.bindings, c.scope) = then
    BY <2>1, <1>5, <1>17
  <2>3. /\ d.after = RestrictionOf(then)
        /\ d.beforeTemplate = IF then = None THEN now ELSE None
        /\ d.afterTemplate = IF now = None THEN then ELSE None
    BY <2>1, <1>5
  <2>4. /\ then # None => then.id = c.id
        /\ now # None /\ then # None => Fingerprint(then) = Fingerprint(now)
        /\ then = None => /\ now # None
                          /\ now.id = BatchId(now.scope)
                          /\ now.policy = DefaultPolicy
        /\ now = None => Template(then, c)
        /\ now # None => now.id = c.id /\ now.scope = c.scope
    BY <1>4, <1>8
  <2> HIDE DEF now, then
  <2>5. d.afterTemplate # None => Template(then, d)
    BY <2>2, <2>3, <2>4 DEF Template
  <2>6. d.beforeTemplate # None => Template(d.beforeTemplate, d)
    BY <2>2, <2>3, <2>4 DEF Template
  <2> QED
    BY <2>2, <2>3, <2>4, <2>5, <2>6 DEF now, then
<1>21. GoodPlan(B, P)
  BY <1>14, <1>16, <1>18, <1>19, <1>20 DEF GoodPlan
<1>22. \A c \in saved : RestrictionOf(CurrentOf(P.bindings, c.scope)) = c.before
  <2> SUFFICES ASSUME NEW c \in saved
               PROVE  RestrictionOf(CurrentOf(P.bindings, c.scope)) = c.before
    OBVIOUS
  <2>1. CASE c \in changed
    BY <2>1, <1>4, <1>17 DEF RestrictionOf
  <2>2. CASE c \notin changed
    <3>1. c.scope \notin ScopesOf(changed)
      BY <2>2, <1>3, <1>6, <1>12
    <3>2. \A b : b.scope = c.scope => (b \in P.bindings <=> b \in B)
      BY <3>1, <1>11, <1>18
    <3>3. CurrentOf(P.bindings, c.scope) = CurrentOf(B, c.scope)
      BY <3>2, <1>9, <1>14, <1>16, CurrentFacts
    <3> QED
      BY <3>3, <2>2, <1>10
  <2> QED
    BY <2>1, <2>2
<1>23. \A d \in P.changes : \E c \in saved :
          /\ d = RollbackChange(S, c)
          /\ ~Conflict(S, c, cat)
          /\ ~AlreadyRestored(S, c)
  BY <1>1, <1>2 DEF D, changed
<1> QED
  BY <1>21, <1>22, <1>23 DEF B, P, saved

-----------------------------------------------------------------------------
(* Commits: the times are set and the record is made.                      *)

LEMMA StampFacts ==
    ASSUME NEW b \in Binding, Now \in Times, Now # 0
    PROVE  /\ Stamped(b) \in Binding
           /\ Stamped(b).id = b.id
           /\ Stamped(b).scope = b.scope
           /\ Stamped(b).restr = b.restr
           /\ Stamped(b).policy = b.policy
           /\ Stamped(b).created # 0
           /\ b.created # 0 => Stamped(b).created = b.created
<1> DEFINE time == IF b.created = 0 THEN Now ELSE b.created
<1>1. time \in Times /\ time # 0 /\ (b.created # 0 => time = b.created)
  BY DEF Binding
<1>2. Stamped(b) = [b EXCEPT !.created = time, !.updated = Now]
  BY DEF Stamped
<1> HIDE DEF time
<1> QED
  BY <1>1, <1>2 DEF Binding

\* What a commit makes of a good plan is a table that loads.
LEMMA StampedTable ==
    ASSUME edits \in Nat, commits \in Nat, edits + commits < MaxOps,
           NEW B, GoodTable(B), NEW P, GoodPlan(B, P)
    PROVE  /\ GoodTable(StampedBindings(P))
           /\ \A s : CurrentOf(StampedBindings(P), s) =
                        IF /\ CurrentOf(P.bindings, s) # None
                           /\ s \in ScopesOf(P.changes)
                        THEN Stamped(CurrentOf(P.bindings, s))
                        ELSE CurrentOf(P.bindings, s)
<1> DEFINE T(b) == IF b.scope \in ScopesOf(P.changes) THEN Stamped(b) ELSE b
           SB == StampedBindings(P)
           PB == P.bindings
<1>1. SB = {T(b) : b \in PB}
  BY DEF StampedBindings
<1>2. /\ PB \subseteq Binding
      /\ Normal(PB)
      /\ \A b \in PB : b.scope \notin ScopesOf(P.changes) => b \in B
      /\ \A b \in B : b.created # 0
  BY DEF GoodPlan, GoodTable
<1>3. Now \in Times /\ Now # 0
  BY NowIsATime
<1>4. \A b \in PB : /\ T(b) \in Binding
                    /\ T(b).id = b.id
                    /\ T(b).scope = b.scope
                    /\ T(b).created # 0
  BY <1>2, <1>3, StampFacts
<1> HIDE DEF SB
<1>5. Normal(SB)
  <2> SUFFICES ASSUME NEW a \in PB, NEW b \in PB, T(a) # T(b)
               PROVE  T(a).id # T(b).id /\ T(a).scope # T(b).scope
    BY <1>1 DEF Normal
  <2> HIDE DEF T, PB
  <2> QED
    BY <1>2, <1>4 DEF Normal
<1>6. SB \subseteq Binding /\ \A b \in SB : b.created # 0
  <2> HIDE DEF T, PB
  <2> QED
    BY <1>1, <1>4
<1>7. ASSUME NEW s
      PROVE  CurrentOf(SB, s) = IF CurrentOf(PB, s) # None THEN T(CurrentOf(PB, s))
                                                           ELSE None
  <2> HIDE DEF T, PB
  <2>1. CASE CurrentOf(PB, s) # None
    <3>1. CurrentOf(PB, s) \in PB /\ CurrentOf(PB, s).scope = s
      BY <2>1, <1>2, CurrentFacts
    <3>2. T(CurrentOf(PB, s)) \in SB /\ T(CurrentOf(PB, s)).scope = s
      BY <3>1, <1>1, <1>4
    <3> QED
      BY <2>1, <3>2, <1>5, <1>6, CurrentFacts
  <2>2. CASE CurrentOf(PB, s) = None
    <3>1. \A b \in PB : b.scope # s
      BY <2>2, <1>2, CurrentFacts
    <3>2. \A b \in SB : b.scope # s
      BY <3>1, <1>1, <1>4
    <3> QED
      BY <2>2, <3>2, <1>5, <1>6, CurrentFacts
  <2> QED
    BY <2>1, <2>2
<1>8. \A s : CurrentOf(PB, s) # None => CurrentOf(PB, s).scope = s
  BY <1>2, CurrentFacts
<1>9. \A s : CurrentOf(SB, s) = IF /\ CurrentOf(PB, s) # None
                                   /\ s \in ScopesOf(P.changes)
                                THEN Stamped(CurrentOf(PB, s))
                                ELSE CurrentOf(PB, s)
  BY <1>7, <1>8
<1> QED
  BY <1>5, <1>6, <1>9 DEF GoodTable, SB

\* What the record keeps of a change agrees with the table that was written.
LEMMA StampedChanges ==
    ASSUME edits \in Nat, commits \in Nat, edits + commits < MaxOps,
           NEW B, GoodTable(B), NEW P, GoodPlan(B, P)
    PROVE  /\ \A c \in P.changes :
                 /\ StampedChange(c, P).scope = c.scope
                 /\ StampedChange(c, P).before = c.before
                 /\ StampedChange(c, P).after = c.after
                 /\ ViewLeft(StampedChange(c, P))
                      = View(CurrentOf(StampedBindings(P), c.scope))
           /\ GoodChanges({StampedChange(c, P) : c \in P.changes})
<1> DEFINE SB == StampedBindings(P)
           Z(c) == StampedChange(c, P)
<1>1. GoodTable(SB) /\ Now \in Times /\ Now # 0
  BY StampedTable, NowIsATime
<1>2. ASSUME NEW c \in P.changes
      PROVE  /\ Z(c) \in Change
             /\ Z(c).id = c.id
             /\ Z(c).scope = c.scope
             /\ Z(c).before = c.before
             /\ Z(c).after = c.after
             /\ Z(c).beforeTemplate = c.beforeTemplate
             /\ Z(c).beforeTemplate # None => Template(Z(c).beforeTemplate, Z(c))
             /\ Z(c).afterTemplate # None => Template(Z(c).afterTemplate, Z(c))
             /\ ViewLeft(Z(c)) = View(CurrentOf(SB, c.scope))
  <2> DEFINE x == CurrentOf(P.bindings, c.scope)
             y == CurrentOf(SB, c.scope)
  <2>1. c \in Change /\ c.scope \in ScopesOf(P.changes)
    BY DEF GoodPlan, ScopesOf
  <2>2. /\ c.after = RestrictionOf(x)
        /\ x # None => x.id = c.id
        /\ x = None => c.afterTemplate = None
        /\ c.afterTemplate # None => Template(x, c)
        /\ c.beforeTemplate # None => Template(c.beforeTemplate, c)
    BY DEF GoodPlan
  <2>3. x # None => x \in Binding
    BY CurrentFacts DEF GoodPlan
  <2>4. y = IF x # None THEN Stamped(x) ELSE None
    BY <2>1, StampedTable
  <2>5. Z(c) = IF y = None THEN c
               ELSE [c EXCEPT !.afterCreated = y.created,
                              !.afterTemplate = IF c.afterTemplate = None
                                                THEN None ELSE y]
    BY DEF StampedChange
  <2> HIDE DEF x, y, Z
  <2>6. CASE x = None
    <3>1. y = None /\ Z(c) = c
      BY <2>4, <2>5, <2>6
    <3>2. c.after = None /\ c.afterTemplate = None
      BY <2>2, <2>6 DEF RestrictionOf
    <3>3. ViewLeft(c) = View(y)
      BY <3>1, <3>2 DEF ViewLeft, View
    <3> QED
      BY <2>1, <2>2, <3>1, <3>2, <3>3 DEF y
  <2>7. CASE x # None
    <3>1. /\ y \in Binding /\ y # None
          /\ y.id = x.id /\ y.scope = x.scope /\ y.restr = x.restr
          /\ y.policy = x.policy
      BY <1>1, <2>3, <2>4, <2>7, StampFacts, NoneFacts
    <3> DEFINE t == IF c.afterTemplate = None THEN None ELSE y
    <3>2. y.created \in Times /\ t \in Binding \cup {None}
      BY <3>1 DEF Binding
    <3>3. Z(c) = [c EXCEPT !.afterCreated = y.created, !.afterTemplate = t]
      BY <2>5, <3>1
    <3>4. t # None => Template(y, c) /\ t = y
      BY <2>2, <3>1 DEF Template
    <3> HIDE DEF t
    <3>5. /\ Z(c) \in Change
          /\ Z(c).id = c.id
          /\ Z(c).scope = c.scope
          /\ Z(c).before = c.before
          /\ Z(c).after = c.after
          /\ Z(c).beforeTemplate = c.beforeTemplate
          /\ Z(c).afterTemplate = t
          /\ Z(c).afterCreated = y.created
      BY <2>1, <3>2, <3>3 DEF Change
    <3>6. /\ Z(c).beforeTemplate # None => Template(Z(c).beforeTemplate, Z(c))
          /\ Z(c).afterTemplate # None => Template(Z(c).afterTemplate, Z(c))
      BY <2>2, <3>4, <3>5 DEF Template
    <3>7. c.after = y.restr /\ c.after # None /\ c.id = y.id
      <4>1. RestrictionOf(x) = x.restr
        BY <2>7 DEF RestrictionOf
      <4>2. x.restr # None
        BY <2>3, <2>7, NoneFacts DEF Binding
      <4> QED
        BY <4>1, <4>2, <2>2, <2>7, <3>1
    <3>8. ViewLeft(Z(c)) = View(y)
      BY <3>1, <3>5, <3>7 DEF ViewLeft, View
    <3> QED
      BY <3>5, <3>6, <3>8 DEF y
  <2> QED
    BY <2>6, <2>7
<1> HIDE DEF Z, SB
<1>3. \A c, d \in P.changes : c # d => c.scope # d.scope /\ c.id # d.id
  BY DEF GoodPlan
<1>4. GoodChanges({Z(c) : c \in P.changes})
  BY <1>2, <1>3 DEF GoodChanges
<1> QED
  BY <1>2, <1>4 DEF Z, SB

LEMMA StampedChangeFacts ==
    ASSUME edits \in Nat, commits \in Nat, edits + commits < MaxOps,
           NEW B, GoodTable(B), NEW P, GoodPlan(B, P), NEW c \in P.changes
    PROVE  /\ StampedChange(c, P).scope = c.scope
           /\ StampedChange(c, P).before = c.before
           /\ StampedChange(c, P).after = c.after
           /\ ViewLeft(StampedChange(c, P))
                = View(CurrentOf(StampedBindings(P), c.scope))
  BY StampedChanges

-----------------------------------------------------------------------------
(* The history: marking it touches neither its records nor their changes.  *)

LEMMA MappedSeq ==
    ASSUME NEW S, NEW H \in Seq(S), NEW F \in [DOMAIN H -> S]
    PROVE  F \in Seq(S) /\ Len(F) = Len(H)
<1>1. DOMAIN H = 1 .. Len(H) /\ Len(H) \in Nat
  OBVIOUS
<1>2. F \in [1 .. Len(H) -> S]
  BY <1>1
<1> QED
  BY <1>1, <1>2

LEMMA RevertedFacts ==
    ASSUME NEW h \in Record, NEW by \in Times, NEW f,
           f = [h EXCEPT !.revertedBy = by]
    PROVE  f \in Record /\ f.id = h.id /\ f.changes = h.changes
  BY DEF Record

\* M is the history H but for its marks.
MarkedLike(M, H) ==
    /\ M \in Seq(Record)
    /\ Len(M) = Len(H)
    /\ \A i \in DOMAIN H : M[i].id = H[i].id /\ M[i].changes = H[i].changes

LEMMA LikeByMarks ==
    ASSUME NEW H \in Seq(Record), NEW F, F = [i \in DOMAIN H |-> F[i]],
           \A i \in DOMAIN H : \/ F[i] = H[i]
                               \/ \E by \in Times :
                                     F[i] = [H[i] EXCEPT !.revertedBy = by]
    PROVE  MarkedLike(F, H)
<1>1. \A i \in DOMAIN H : H[i] \in Record
  OBVIOUS
<1>2. \A i \in DOMAIN H : /\ F[i] \in Record
                          /\ F[i].id = H[i].id
                          /\ F[i].changes = H[i].changes
  <2> SUFFICES ASSUME NEW i \in DOMAIN H
               PROVE  /\ F[i] \in Record
                      /\ F[i].id = H[i].id
                      /\ F[i].changes = H[i].changes
    OBVIOUS
  <2>1. CASE F[i] = H[i]
    BY <1>1, <2>1
  <2>2. CASE \E by \in Times : F[i] = [H[i] EXCEPT !.revertedBy = by]
    <3>1. PICK by \in Times : F[i] = [H[i] EXCEPT !.revertedBy = by]
      BY <2>2
    <3>2. H[i] \in Record
      BY <1>1
    <3> QED
      BY <3>1, <3>2, RevertedFacts
  <2> QED
    BY <2>1, <2>2
<1>3. F \in [DOMAIN H -> Record]
  BY <1>2
<1> QED
  BY <1>2, <1>3, MappedSeq DEF MarkedLike

LEMMA LikeIsTransitive ==
    ASSUME NEW H \in Seq(Record), NEW M, NEW L,
           MarkedLike(M, H), MarkedLike(L, M)
    PROVE  MarkedLike(L, H)
<1>1. DOMAIN H = DOMAIN M
  BY DEF MarkedLike
<1> QED
  BY <1>1 DEF MarkedLike

LEMMA MarkedOperation ==
    ASSUME NEW H \in Seq(Record), NEW op, NEW by
    PROVE  MarkedLike(MarkNativeBindingOperation(H, op, by), H)
<1> DEFINE F == MarkNativeBindingOperation(H, op, by)
           chain == MarkChain(H, op, by)
           mark(i) == CHOOSE m \in chain : m[1] = H[i].id
<1>1. chain \subseteq Times \X Times
  BY DEF MarkChain
<1>2. F = [i \in DOMAIN H |-> IF \E m \in chain : m[1] = H[i].id
                              THEN [H[i] EXCEPT !.revertedBy = mark(i)[2]]
                              ELSE H[i]]
  BY DEF MarkNativeBindingOperation
<1>3. \A i \in DOMAIN H : (\E m \in chain : m[1] = H[i].id) => mark(i) \in chain
  OBVIOUS
<1> HIDE DEF F, chain, mark
<1>4. \A i \in DOMAIN H :
         \/ F[i] = H[i]
         \/ \E b \in Times : F[i] = [H[i] EXCEPT !.revertedBy = b]
  <2> SUFFICES ASSUME NEW i \in DOMAIN H
               PROVE  \/ F[i] = H[i]
                      \/ \E b \in Times : F[i] = [H[i] EXCEPT !.revertedBy = b]
    OBVIOUS
  <2>1. CASE \E m \in chain : m[1] = H[i].id
    <3>1. mark(i)[2] \in Times
      BY <1>1, <1>3, <2>1
    <3>2. F[i] = [H[i] EXCEPT !.revertedBy = mark(i)[2]]
      BY <1>2, <2>1
    <3> QED
      BY <3>1, <3>2
  <2>2. CASE ~\E m \in chain : m[1] = H[i].id
    BY <1>2, <2>2
  <2> QED
    BY <2>1, <2>2
<1>5. F = [i \in DOMAIN H |-> F[i]]
  BY <1>2
<1>6. MarkedLike(F, H)
  BY <1>4, <1>5, LikeByMarks
<1> QED
  BY <1>6 DEF F

LEMMA RestoredMarkers ==
    ASSUME NEW H \in Seq(Record), NEW source \in Record
    PROVE  MarkedLike(RestoreMarkers(H, source), H)
<1> DEFINE F == RestoreMarkers(H, source)
           undone(i) == {m \in source.markers :
                           /\ source.kind = "rollback"
                           /\ m.op = H[i].id
                           /\ m.after = history[i].revertedBy}
           mark(i) == CHOOSE m \in undone(i) : TRUE
<1>1. F = [i \in DOMAIN H |-> IF undone(i) = {} THEN H[i]
                              ELSE [H[i] EXCEPT !.revertedBy = mark(i).before]]
  BY DEF RestoreMarkers
<1>2. source.markers \subseteq Marker
  BY DEF Record
<1>3. \A i \in DOMAIN H : undone(i) # {} => mark(i) \in source.markers
  OBVIOUS
<1> HIDE DEF F, undone, mark
<1>4. \A i \in DOMAIN H :
         \/ F[i] = H[i]
         \/ \E b \in Times : F[i] = [H[i] EXCEPT !.revertedBy = b]
  <2> SUFFICES ASSUME NEW i \in DOMAIN H
               PROVE  \/ F[i] = H[i]
                      \/ \E b \in Times : F[i] = [H[i] EXCEPT !.revertedBy = b]
    OBVIOUS
  <2>1. CASE undone(i) # {}
    <3>1. mark(i).before \in Times
      BY <1>2, <1>3, <2>1 DEF Marker
    <3>2. F[i] = [H[i] EXCEPT !.revertedBy = mark(i).before]
      BY <1>1, <2>1
    <3> QED
      BY <3>1, <3>2
  <2>2. CASE undone(i) = {}
    BY <1>1, <2>2
  <2> QED
    BY <2>1, <2>2
<1>5. F = [i \in DOMAIN H |-> F[i]]
  BY <1>1
<1>6. MarkedLike(F, H)
  BY <1>4, <1>5, LikeByMarks
<1> QED
  BY <1>6 DEF F

LEMMA Superseded ==
    ASSUME NEW H \in Seq(Record), NEW source, NEW by \in Times, NEW scopes
    PROVE  MarkedLike(Supersede(H, source, by, scopes), H)
<1> DEFINE F == Supersede(H, source, by, scopes)
           covered(i) == /\ H[i].id > source
                         /\ H[i].kind = "batch"
                         /\ ScopesOf(H[i].changes) \subseteq scopes
<1>1. F = [i \in DOMAIN H |-> IF covered(i) THEN [H[i] EXCEPT !.revertedBy = by]
                              ELSE H[i]]
  BY DEF Supersede
<1> HIDE DEF F, covered
<1>2. \A i \in DOMAIN H :
         \/ F[i] = H[i]
         \/ \E b \in Times : F[i] = [H[i] EXCEPT !.revertedBy = b]
  BY <1>1
<1>3. F = [i \in DOMAIN H |-> F[i]]
  BY <1>1
<1>4. MarkedLike(F, H)
  BY <1>2, <1>3, LikeByMarks
<1> QED
  BY <1>4 DEF F

LEMMA FoundRecord ==
    ASSUME NEW H \in Seq(Record), NEW op \in IdsOf(H)
    PROVE  \E i \in DOMAIN H : RecordOf(H, op) = H[i] /\ H[i].id = op
  BY DEF RecordOf, IdsOf

\* The history as a batch or a restore leaves its older records.
LEMMA MarkedFacts ==
    ASSUME history \in Seq(Record), NEW action, NEW id \in Times, NEW C,
           action.kind = "rollback" \/ action.kind = "batch",
           action.kind = "rollback" => action.op \in IdsOf(history)
    PROVE  MarkedLike(Marked(action, id, C), history)
<1>1. CASE action.kind = "batch"
  BY <1>1 DEF Marked, MarkedLike
<1>2. CASE action.kind = "rollback"
  <2> DEFINE source == RecordOf(history, action.op)
             H1 == MarkNativeBindingOperation(history, action.op, id)
             H2 == RestoreMarkers(H1, source)
             H3 == Supersede(H2, action.op, id, ScopesOf(C))
  <2>0. Marked(action, id, C) = H3
    BY <1>2 DEF Marked
  <2>1. source \in Record
    BY <1>2, FoundRecord
  <2>2. MarkedLike(H1, history)
    BY MarkedOperation
  <2> HIDE DEF H1, source
  <2>3. MarkedLike(H2, H1)
    BY <2>1, <2>2, RestoredMarkers DEF MarkedLike
  <2> HIDE DEF H2
  <2>4. MarkedLike(H3, H2)
    BY <2>3, Superseded DEF MarkedLike
  <2> HIDE DEF H3
  <2>5. MarkedLike(H3, history)
    BY <2>2, <2>3, <2>4, LikeIsTransitive DEF MarkedLike
  <2> QED
    BY <2>0, <2>5
<1> QED
  BY <1>1, <1>2

LEMMA MarkersTyped ==
    ASSUME history \in Seq(Record), NEW M, MarkedLike(M, history)
    PROVE  MarkersOf(M) \subseteq Marker
<1>1. DOMAIN M = DOMAIN history /\ M \in Seq(Record)
  BY DEF MarkedLike
<1>2. \A i \in DOMAIN M : M[i] \in Record /\ history[i] \in Record
  BY <1>1
<1>3. \A i \in DOMAIN M : /\ M[i].id \in Times
                          /\ history[i].revertedBy \in Times
                          /\ M[i].revertedBy \in Times
  BY <1>2 DEF Record
<1> QED
  BY <1>3 DEF MarkersOf, Marker

\* A record in front of a history that is cut at its end.
LEMMA ShortenedFacts ==
    ASSUME NEW r \in Record, NEW M \in Seq(Record)
    PROVE  LET H == Shortened(<<r>> \o M)
           IN  /\ H \in Seq(Record)
               /\ 1 \in DOMAIN H
               /\ Head(H) = r
               /\ H[1] = r
               /\ \A i \in DOMAIN H :
                     /\ i \in Nat \ {0}
                     /\ 1 .. i \subseteq DOMAIN H
                     /\ i # 1 => i - 1 \in DOMAIN M /\ H[i] = M[i - 1]
<1> DEFINE G == <<r>> \o M
           n == IF Len(G) < HistoryLimit THEN Len(G) ELSE HistoryLimit
           H == SubSeq(G, 1, n)
<1>1. /\ G \in Seq(Record)
      /\ Len(M) \in Nat
      /\ Len(G) = Len(M) + 1
      /\ G[1] = r
      /\ \A i \in 2 .. Len(G) : G[i] = M[i - 1]
  <2>1. <<r>> \in Seq(Record) /\ Len(<<r>>) = 1 /\ <<r>>[1] = r
    OBVIOUS
  <2>2. /\ G \in Seq(Record)
        /\ Len(G) = Len(<<r>>) + Len(M)
        /\ \A i \in 1 .. Len(<<r>>) + Len(M) :
              G[i] = IF i <= Len(<<r>>) THEN <<r>>[i] ELSE M[i - Len(<<r>>)]
    BY <2>1, ConcatProperties
  <2>3. Len(M) \in Nat
    OBVIOUS
  <2> HIDE DEF G
  <2> QED
    BY <2>1, <2>2, <2>3
<1>2. n \in 1 .. Len(G)
  <2> HIDE DEF G
  <2> QED
    BY <1>1, LimitAssumption
<1> HIDE DEF G, n
<1>3. /\ H \in Seq(Record)
      /\ Len(H) = n
      /\ \A i \in 1 .. n : H[i] = G[i]
  BY <1>1, <1>2, SubSeqProperties
<1>4. DOMAIN H = 1 .. n /\ DOMAIN M = 1 .. Len(M)
  BY <1>3
<1>5. H = Shortened(<<r>> \o M)
  BY DEF Shortened, G, n
<1> HIDE DEF H
<1>6. H[1] = r /\ 1 \in DOMAIN H /\ Head(H) = r
  <2>1. H[1] = r /\ 1 \in DOMAIN H
    BY <1>1, <1>2, <1>3, <1>4
  <2>2. Head(H) = H[1]
    BY <1>3
  <2> QED
    BY <2>1, <2>2
<1>7. ASSUME NEW i \in DOMAIN H
      PROVE  /\ i \in Nat \ {0}
             /\ 1 .. i \subseteq DOMAIN H
             /\ i # 1 => i - 1 \in DOMAIN M /\ H[i] = M[i - 1]
  BY <1>1, <1>2, <1>3, <1>4
<1> QED
  BY <1>3, <1>5, <1>6, <1>7

LEMMA LatestLeftGrows ==
    ASSUME history \in Seq(Record), LatestLeft(history, left),
           NEW r \in Record, GoodChanges(r.changes),
           NEW M, MarkedLike(M, history), NEW lft,
           \A s \in Scopes :
              /\ \A c \in r.changes : c.scope = s => lft[s] = <<ViewLeft(c)>>
              /\ s \notin ScopesOf(r.changes) => lft[s] = left[s]
    PROVE  LatestLeft(Shortened(<<r>> \o M), lft)
<1> DEFINE H == Shortened(<<r>> \o M)
<1>1. M \in Seq(Record) /\ DOMAIN M = DOMAIN history
  BY DEF MarkedLike
<1>2. /\ 1 \in DOMAIN H
      /\ H[1] = r
      /\ \A i \in DOMAIN H : /\ i \in Nat \ {0}
                             /\ 1 .. i \subseteq DOMAIN H
                             /\ i # 1 => i - 1 \in DOMAIN M /\ H[i] = M[i - 1]
  BY <1>1, ShortenedFacts
<1>3. \A i \in DOMAIN H : i # 1 => /\ i - 1 \in DOMAIN history
                                   /\ H[i].changes = history[i - 1].changes
  BY <1>1, <1>2 DEF MarkedLike
<1> HIDE DEF H
<1> SUFFICES ASSUME NEW s \in Scopes, NEW i \in DOMAIN H,
                    s \in ScopesOf(H[i].changes)
             PROVE  \E k \in 1 .. i : \E c \in H[k].changes :
                       NewestAt(H, s, k, c) /\ lft[s] = <<ViewLeft(c)>>
  BY DEF LatestLeft, H
<1>4. CASE s \in ScopesOf(r.changes)
  <2>1. PICK c \in r.changes : c.scope = s
    BY <1>4 DEF ScopesOf
  <2>2. NewestAt(H, s, 1, c) /\ lft[s] = <<ViewLeft(c)>>
    BY <2>1, <1>2 DEF NewestAt
  <2>3. 1 \in 1 .. i /\ c \in H[1].changes
    BY <1>2
  <2> QED
    BY <2>2, <2>3
<1>5. CASE s \notin ScopesOf(r.changes)
  <2>1. i # 1
    BY <1>2, <1>5
  <2>2. i - 1 \in DOMAIN history /\ s \in ScopesOf(history[i - 1].changes)
    BY <2>1, <1>3
  <2>3. PICK k \in 1 .. i - 1 : \E c \in history[k].changes :
           NewestAt(history, s, k, c) /\ left[s] = <<ViewLeft(c)>>
    BY <2>2 DEF LatestLeft
  <2>4. PICK c \in history[k].changes :
           NewestAt(history, s, k, c) /\ left[s] = <<ViewLeft(c)>>
    BY <2>3
  <2>5. /\ i \in Nat /\ k \in Nat /\ k >= 1
        /\ k + 1 \in 1 .. i
        /\ k + 1 # 1
        /\ (k + 1) - 1 = k
    BY <1>2, <2>3
  <2>6. k + 1 \in DOMAIN H /\ H[k + 1].changes = history[k].changes
    BY <1>2, <1>3, <2>5
  <2>7. ASSUME NEW j \in 1 .. (k + 1) - 1
        PROVE  s \notin ScopesOf(H[j].changes)
    <3>1. CASE j = 1
      BY <3>1, <1>2, <1>5
    <3>2. CASE j # 1
      <4>1. j \in 1 .. k + 1 /\ j - 1 \in 1 .. k - 1
        BY <3>2, <2>5, <2>7
      <4>2. j \in DOMAIN H
        BY <1>2, <2>6, <4>1
      <4>3. H[j].changes = history[j - 1].changes
        BY <1>3, <3>2, <4>2
      <4> QED
        BY <2>4, <4>1, <4>3 DEF NewestAt
    <3> QED
      BY <3>1, <3>2
  <2>8. NewestAt(H, s, k + 1, c) /\ lft[s] = <<ViewLeft(c)>>
    BY <1>5, <2>4, <2>6, <2>7 DEF NewestAt
  <2> QED
    BY <2>5, <2>6, <2>8
<1> QED
  BY <1>4, <1>5

-----------------------------------------------------------------------------
(* The invariant is inductive.                                             *)

LEMMA PlanIsGood ==
    ASSUME NEW S, GoodTable(S.bindings), GoodHistory(S.history),
           NEW cat, NEW action \in Action,
           action.kind = "rollback" => action.op \in IdsOf(S.history),
           ~PlanFor(S, action, cat).conflict
    PROVE  GoodPlan(S.bindings, PlanFor(S, action, cat))
<1>1. CASE action.kind = "batch"
  <2>1. action.selected \subseteq Scopes /\ action.target \in BatchTargets
    BY <1>1 DEF Action
  <2>2. PlanFor(S, action, cat) = PlanNativeBindingBatch(S, action, cat)
    BY <1>1 DEF PlanFor
  <2> QED
    BY <2>1, <2>2, BatchPlanIsGood
<1>2. CASE action.kind # "batch"
  <2>1. action.kind = "rollback"
    BY <1>2 DEF Action
  <2>2. PICK i \in DOMAIN S.history : RecordOf(S.history, action.op) = S.history[i]
    BY <2>1, FoundRecord DEF GoodHistory
  <2>3. GoodChanges(RecordOf(S.history, action.op).changes)
    BY <2>2 DEF GoodHistory
  <2>4. PlanFor(S, action, cat) = PlanNativeBindingRollback(S, action, cat)
    BY <1>2 DEF PlanFor
  <2> QED
    BY <2>3, <2>4, RestorePlanIsGood
<1> QED
  BY <1>1, <1>2

LEMMA IdsAreTimes ==
    ASSUME NEW H \in Seq(Record)
    PROVE  IdsOf(H) \subseteq Times
<1>1. \A i \in DOMAIN H : H[i] \in Record
  OBVIOUS
<1>2. \A i \in DOMAIN H : H[i].id \in Times
  BY <1>1 DEF Record
<1> QED
  BY <1>2 DEF IdsOf

\* When nobody holds updateMu, the store is the file.
LEMMA AtRest ==
    ASSUME BindingsInv, commit = None
    PROVE  /\ GoodTable(bindings)
           /\ GoodHistory(history)
           /\ LatestLeft(history, left)
           /\ GoodTable(Snapshot.bindings)
           /\ GoodHistory(Snapshot.history)
           /\ Snapshot.bindings = bindings
           /\ Snapshot.history = history
  BY DEF BindingsInv, CommitInv, FileInv, Snapshot

LEMMA InvInit == Init => BindingsInv
<1> SUFFICES ASSUME Init PROVE BindingsInv
  OBVIOUS
<1>1. 1 \in Times
  BY BoundAssumption DEF Times
<1>2. bindings \subseteq Binding /\ Normal(bindings) /\ \A b \in bindings : b.created # 0
  BY <1>1 DEF Init, Binding, BindingIds, Normal
<1>3. <<>> \in Seq(Record)
  OBVIOUS
<1>4. TypeOK
  BY <1>2, <1>3 DEF Init, TypeOK, Tables
<1>5. GoodHistory(<<>>) /\ LatestLeft(<<>>, left)
  BY DEF GoodHistory, LatestLeft
<1>6. FileInv
  BY <1>2, <1>5 DEF Init, FileInv, GoodTable
<1>7. CommitInv /\ PreviewInv
  BY DEF Init, CommitInv, PreviewInv
<1> QED
  BY <1>4, <1>6, <1>7 DEF BindingsInv

\* A saved mutation is in the file and waits to be published.
LEMMA SaveKeeps ==
    ASSUME BindingsInv, commit = None,
           NEW B, GoodTable(B), NEW H, GoodHistory(H), Save(B, H),
           UNCHANGED <<bindings, history>>
    PROVE  /\ file' \in Tables
           /\ commit' \in Tables \cup {None}
           /\ CommitInv'
           /\ failures' \in Nat
           /\ \/ commit' = None /\ file' = file
              \/ /\ commit' # None
                 /\ commit'.bindings = B /\ commit'.history = H
                 /\ file'.bindings = B /\ file'.history = H
<1> DEFINE T == [bindings |-> B, history |-> H]
<1>1. T \in Tables
  BY DEF Tables, GoodTable, GoodHistory
<1>2. T # None
  BY <1>1, NoneFacts
<1>3. CASE file' = T /\ commit' = T /\ UNCHANGED failures
  BY <1>1, <1>2, <1>3 DEF CommitInv, BindingsInv, TypeOK
<1>4. CASE failures' = failures + 1 /\ UNCHANGED <<file, commit>>
  BY <1>4 DEF CommitInv, BindingsInv, TypeOK
<1> QED
  BY <1>3, <1>4 DEF Save

LEMMA EditKeeps ==
    ASSUME BindingsInv, NEW B, GoodTable(B), Edit(B)
    PROVE  BindingsInv'
<1>1. /\ commit = None
      /\ Save(B, history)
      /\ edits' = edits + 1
      /\ UNCHANGED <<bindings, history, groups, preview, commits, left, base>>
  BY DEF Edit
<1>2. GoodHistory(history) /\ LatestLeft(history, left)
  BY <1>1, AtRest
<1>3. /\ file' \in Tables
      /\ commit' \in Tables \cup {None}
      /\ CommitInv'
      /\ failures' \in Nat
      /\ \/ commit' = None /\ file' = file
         \/ file'.bindings = B /\ file'.history = history
  BY <1>1, <1>2, SaveKeeps
<1>4. TypeOK'
  BY <1>1, <1>3 DEF BindingsInv, TypeOK
<1>5. FileInv'
  BY <1>1, <1>2, <1>3 DEF BindingsInv, FileInv
<1>6. PreviewInv'
  BY <1>1 DEF BindingsInv, PreviewInv
<1> QED
  BY <1>3, <1>4, <1>5, <1>6 DEF BindingsInv

LEMMA CreateKeeps ==
    ASSUME BindingsInv, CreateNativeKeyBinding
    PROVE  BindingsInv'
<1>1. PICK id \in BindingIds, s \in Scopes, r \in Restrictions, p \in Policies :
         Edit(bindings \cup {[id |-> id, scope |-> s, restr |-> r, policy |-> p,
                              created |-> Now, updated |-> Now]})
  BY DEF CreateNativeKeyBinding
<1> DEFINE b == [id |-> id, scope |-> s, restr |-> r, policy |-> p,
                 created |-> Now, updated |-> Now]
           B == bindings \cup {b}
<1>2. GoodTable(bindings) /\ Now \in Times /\ Now # 0 /\ Normal(B)
  BY <1>1, AtRest, NowIsATime DEF Edit, BindingsInv, TypeOK
<1>3. b \in Binding /\ b.created # 0
  BY <1>2 DEF Binding
<1> HIDE DEF b
<1>4. GoodTable(B)
  BY <1>2, <1>3 DEF GoodTable
<1> QED
  BY <1>1, <1>4, EditKeeps DEF b

LEMMA UpdateKeeps ==
    ASSUME BindingsInv, UpdateNativeKeyBinding
    PROVE  BindingsInv'
<1>1. PICK b \in bindings :
      \E c \in {[b EXCEPT !.restr = r] : r \in Restrictions} \cup
               {[b EXCEPT !.policy = p] : p \in Policies} \cup
               {[b EXCEPT !.scope = s] : s \in Scopes} :
         Edit((bindings \ {b}) \cup {[c EXCEPT !.updated = Now]})
  BY DEF UpdateNativeKeyBinding
<1>2. PICK c \in {[b EXCEPT !.restr = r] : r \in Restrictions} \cup
                 {[b EXCEPT !.policy = p] : p \in Policies} \cup
                 {[b EXCEPT !.scope = s] : s \in Scopes} :
         Edit((bindings \ {b}) \cup {[c EXCEPT !.updated = Now]})
  BY <1>1
<1> DEFINE d == [c EXCEPT !.updated = Now]
           B == (bindings \ {b}) \cup {d}
<1>3. GoodTable(bindings) /\ Now \in Times /\ Normal(B)
  BY <1>2, AtRest, NowIsATime DEF Edit, BindingsInv, TypeOK
<1>4. b \in Binding /\ b.created # 0
  BY <1>3 DEF GoodTable
<1>5. c \in Binding /\ c.created = b.created
  <2>1. CASE \E r \in Restrictions : c = [b EXCEPT !.restr = r]
    BY <2>1, <1>4 DEF Binding
  <2>2. CASE \E p \in Policies : c = [b EXCEPT !.policy = p]
    BY <2>2, <1>4 DEF Binding
  <2>3. CASE \E s \in Scopes : c = [b EXCEPT !.scope = s]
    BY <2>3, <1>4 DEF Binding
  <2> QED
    BY <2>1, <2>2, <2>3
<1>6. d \in Binding /\ d.created # 0
  BY <1>3, <1>4, <1>5 DEF Binding
<1> HIDE DEF d
<1>7. GoodTable(B)
  BY <1>3, <1>6 DEF GoodTable
<1> QED
  BY <1>2, <1>7, EditKeeps DEF d

LEMMA DeleteKeeps ==
    ASSUME BindingsInv, DeleteNativeKeyBinding
    PROVE  BindingsInv'
<1>1. PICK b \in bindings : Edit(bindings \ {b})
  BY DEF DeleteNativeKeyBinding
<1>2. GoodTable(bindings)
  BY <1>1, AtRest DEF Edit
<1>3. GoodTable(bindings \ {b})
  BY <1>2 DEF GoodTable, Normal
<1> QED
  BY <1>1, <1>3, EditKeeps

\* What a client may be asked to apply is a plan of the store as it is.
LEMMA PreviewedPlan ==
    ASSUME BindingsInv, commit = None, NEW cat \in Catalogs,
           NEW action \in Actions(cat),
           ~PlanFor(Snapshot, action, cat).conflict
    PROVE  /\ action \in Action
           /\ GoodPlan(bindings, PlanFor(Snapshot, action, cat))
<1>1. history \in Seq(Record) /\ IdsOf(history) \subseteq Times
  BY IdsAreTimes DEF BindingsInv, TypeOK
<1>2. cat.scopes \subseteq Scopes
  BY CatalogAssumption
<1>3. /\ action \in Action
      /\ action.kind = "rollback" => action.op \in IdsOf(history)
  <2>1. CASE action \in BatchActions(cat)
    BY <2>1, <1>2 DEF BatchActions, Action
  <2>2. CASE action \in RollbackActions
    BY <2>2, <1>1 DEF RollbackActions, Action
  <2> QED
    BY <2>1, <2>2 DEF Actions
<1>4. GoodPlan(Snapshot.bindings, PlanFor(Snapshot, action, cat))
  BY <1>3, AtRest, PlanIsGood
<1> QED
  BY <1>3, <1>4, AtRest

LEMMA PreviewKeeps ==
    ASSUME BindingsInv, Preview
    PROVE  BindingsInv'
<1>0. PICK cat \in Catalogs : \E action \in Actions(cat) :
         LET plan == PlanFor(Snapshot, action, cat)
         IN  /\ ~plan.conflict
             /\ plan.changes # {}
             /\ preview' = [revision |-> Revision(action, cat),
                            changes  |-> plan.changes]
  BY DEF Preview
<1>1. PICK action \in Actions(cat) :
         LET plan == PlanFor(Snapshot, action, cat)
         IN  /\ ~plan.conflict
             /\ plan.changes # {}
             /\ preview' = [revision |-> Revision(action, cat),
                            changes  |-> plan.changes]
  BY <1>0
<1>2. /\ commit = None
      /\ UNCHANGED <<bindings, history, file, commit, groups, edits, commits,
                     failures, left, base>>
  BY DEF Preview
<1> DEFINE P == PlanFor(Snapshot, action, cat)
<1>3. action \in Action /\ P.changes \subseteq Change
  BY <1>1, <1>2, PreviewedPlan DEF GoodPlan
<1>4. preview' = [revision |-> [snapshot |-> Snapshot, catalog |-> cat,
                                action |-> action],
                  changes  |-> P.changes]
  BY <1>1 DEF Revision
<1>5. Snapshot \in [bindings : SUBSET Binding, history : Seq(Record),
                    groups : SUBSET Groups]
  BY DEF Snapshot, BindingsInv, TypeOK
<1> HIDE DEF P
<1>6. preview' \in Shows
  BY <1>3, <1>4, <1>5 DEF Shows
<1>7. TypeOK'
  BY <1>2, <1>6 DEF BindingsInv, TypeOK
<1>8. PreviewInv'
  BY <1>4 DEF PreviewInv, P
<1>9. FileInv' /\ CommitInv'
  BY <1>2 DEF BindingsInv, FileInv, CommitInv
<1> QED
  BY <1>7, <1>8, <1>9 DEF BindingsInv

\* What an operation that is applied writes: its plan was without conflicts
\* and is the plan that was shown.
LEMMA AppliedFacts ==
    ASSUME BindingsInv, Apply,
           NEW action, action = preview.revision.action,
           NEW cat, cat = preview.revision.catalog,
           NEW plan, plan = PlanFor(Snapshot, action, cat),
           NEW H, H = NewHistory(action, plan)
    PROVE  /\ action \in Action
           /\ action.kind = "rollback" => action.op \in IdsOf(history)
           /\ ~plan.conflict
           /\ preview.changes = plan.changes
           /\ GoodPlan(bindings, plan)
           /\ MarkedLike(Marked(action, Now, plan.changes), history)
           /\ NewRecord(action, plan, Marked(action, Now, plan.changes)) \in Record
           /\ Head(H).kind = action.kind
           /\ action.kind = "rollback" => Head(H).source = action.op
           /\ Head(H).changes = {StampedChange(c, plan) : c \in plan.changes}
           /\ GoodHistory(H)
           /\ GoodTable(StampedBindings(plan))
           /\ \A lft :
                 (\A s \in Scopes :
                    lft[s] = IF s \in ScopesOf(plan.changes)
                             THEN <<View(CurrentOf(StampedBindings(plan), s))>>
                             ELSE left[s])
                 => LatestLeft(H, lft)
<1>1. /\ commit = None
      /\ edits + commits < MaxOps
      /\ preview # None
      /\ Matches(action, cat)
      /\ ~plan.conflict
  BY DEF Apply
<1>2. /\ preview \in Shows
      /\ edits \in Nat /\ commits \in Nat
      /\ history \in Seq(Record)
  BY <1>1 DEF BindingsInv, TypeOK
<1>3. /\ GoodTable(bindings)
      /\ GoodHistory(history)
      /\ LatestLeft(history, left)
      /\ GoodTable(Snapshot.bindings)
      /\ GoodHistory(Snapshot.history)
      /\ Snapshot.bindings = bindings
      /\ Snapshot.history = history
  BY <1>1, AtRest
<1>4. /\ action \in Action
      /\ action.kind = "rollback" => action.op \in IdsOf(history)
  <2>1. preview.revision.action \in Action
    BY <1>2 DEF Shows
  <2> QED
    BY <1>1, <2>1 DEF Matches
<1>5. preview.changes = plan.changes
  <2>1. preview.revision = [snapshot |-> Snapshot, catalog |-> cat,
                            action |-> action]
    BY <1>1 DEF Matches, Revision
  <2>2. preview.revision.snapshot = Snapshot
    BY <2>1
  <2> QED
    BY <1>1, <2>2 DEF BindingsInv, PreviewInv
<1>6. GoodPlan(bindings, plan)
  BY <1>1, <1>3, <1>4, PlanIsGood
<1>7. Now \in Times /\ Now # 0 /\ 0 \in Times
  BY <1>1, <1>2, NowIsATime, BoundAssumption DEF Times
<1> DEFINE M == Marked(action, Now, plan.changes)
           C == {StampedChange(c, plan) : c \in plan.changes}
           r == NewRecord(action, plan, M)
<1>8. action.kind = "batch" \/ action.kind = "rollback"
  BY <1>4 DEF Action
<1>9. MarkedLike(M, history)
  BY <1>2, <1>4, <1>7, <1>8, MarkedFacts
<1>10. GoodChanges(C) /\ GoodTable(StampedBindings(plan))
  BY <1>1, <1>2, <1>3, <1>6, StampedChanges, StampedTable
<1>11. \A c \in plan.changes :
          /\ StampedChange(c, plan).scope = c.scope
          /\ ViewLeft(StampedChange(c, plan))
               = View(CurrentOf(StampedBindings(plan), c.scope))
  BY <1>1, <1>2, <1>3, <1>6, StampedChangeFacts
<1>12. r = [id |-> Now, kind |-> action.kind,
            source |-> IF action.kind = "batch" THEN 0 ELSE action.op,
            revertedBy |-> 0, changes |-> C, markers |-> MarkersOf(M)]
  BY DEF NewRecord
<1>13. /\ MarkersOf(M) \subseteq Marker
       /\ (IF action.kind = "batch" THEN 0 ELSE action.op) \in Times
  BY <1>2, <1>4, <1>7, <1>8, <1>9, MarkersTyped, IdsAreTimes
<1>14. H = Shortened(<<r>> \o M)
  BY DEF NewHistory
<1> HIDE DEF M, C, r
<1>15. r \in Record
  BY <1>7, <1>8, <1>10, <1>12, <1>13 DEF Record, GoodChanges
<1>16. M \in Seq(Record) /\ DOMAIN M = DOMAIN history
  BY <1>2, <1>9 DEF MarkedLike
<1>17. /\ H \in Seq(Record)
       /\ Head(H) = r
       /\ H[1] = r
       /\ \A i \in DOMAIN H :
             i # 1 => i - 1 \in DOMAIN M /\ H[i] = M[i - 1]
  BY <1>14, <1>15, <1>16, ShortenedFacts
<1>18. GoodHistory(H)
  <2> SUFFICES ASSUME NEW i \in DOMAIN H PROVE GoodChanges(H[i].changes)
    BY <1>17 DEF GoodHistory
  <2>1. CASE i = 1
    BY <2>1, <1>10, <1>12, <1>17
  <2>2. CASE i # 1
    <3>1. i - 1 \in DOMAIN history /\ H[i].changes = history[i - 1].changes
      BY <2>2, <1>9, <1>16, <1>17 DEF MarkedLike
    <3> QED
      BY <3>1, <1>3 DEF GoodHistory
  <2> QED
    BY <2>1, <2>2
<1>19. ASSUME NEW lft,
              \A s \in Scopes :
                 lft[s] = IF s \in ScopesOf(plan.changes)
                          THEN <<View(CurrentOf(StampedBindings(plan), s))>>
                          ELSE left[s]
       PROVE  LatestLeft(H, lft)
  <2>1. r.changes = C
    BY <1>12
  <2>2. ScopesOf(C) = ScopesOf(plan.changes)
    BY <1>11 DEF C, ScopesOf
  <2>3. ASSUME NEW s \in Scopes, NEW c \in C, c.scope = s
        PROVE  lft[s] = <<ViewLeft(c)>>
    <3>1. PICK d \in plan.changes : c = StampedChange(d, plan)
      BY DEF C
    <3>2. d.scope = s /\ s \in ScopesOf(plan.changes)
      BY <3>1, <2>3, <1>11 DEF ScopesOf
    <3>3. ViewLeft(c) = View(CurrentOf(StampedBindings(plan), s))
      BY <3>1, <3>2, <1>11
    <3> QED
      BY <3>2, <3>3, <1>19
  <2>4. \A s \in Scopes :
           /\ \A c \in r.changes : c.scope = s => lft[s] = <<ViewLeft(c)>>
           /\ s \notin ScopesOf(r.changes) => lft[s] = left[s]
    BY <2>1, <2>2, <2>3, <1>19
  <2>5. GoodChanges(r.changes)
    BY <2>1, <1>10
  <2> QED
    BY <2>4, <2>5, <1>2, <1>3, <1>9, <1>14, <1>15, LatestLeftGrows
<1>20. /\ Head(H).kind = action.kind
       /\ action.kind = "rollback" => Head(H).source = action.op
       /\ Head(H).changes = C
  BY <1>12, <1>17
<1> QED
  BY <1>1, <1>4, <1>5, <1>6, <1>9, <1>10, <1>15, <1>18, <1>19, <1>20 DEF C, M, r

LEMMA ApplyKeeps ==
    ASSUME BindingsInv, Apply
    PROVE  BindingsInv'
<1> DEFINE action == preview.revision.action
           cat    == preview.revision.catalog
           plan   == PlanFor(Snapshot, action, cat)
           B      == StampedBindings(plan)
           H      == NewHistory(action, plan)
           lft    == [s \in Scopes |-> IF s \in ScopesOf(plan.changes)
                                       THEN <<View(CurrentOf(B, s))>>
                                       ELSE left[s]]
<1>1. /\ commit = None
      /\ Save(B, H)
      /\ IF commit' = None THEN UNCHANGED <<preview, left, base>>
         ELSE preview' = None /\ left' = lft
      /\ commits' = commits + 1
      /\ UNCHANGED <<bindings, history, groups, edits>>
  BY DEF Apply
<1>2. GoodTable(B) /\ GoodHistory(H)
  BY AppliedFacts
<1>3. \A l : (\A s \in Scopes : l[s] = IF s \in ScopesOf(plan.changes)
                                       THEN <<View(CurrentOf(B, s))>>
                                       ELSE left[s])
             => LatestLeft(H, l)
  BY AppliedFacts
<1>4. LatestLeft(H, lft)
  <2>1. \A s \in Scopes : lft[s] = IF s \in ScopesOf(plan.changes)
                                   THEN <<View(CurrentOf(B, s))>>
                                   ELSE left[s]
    OBVIOUS
  <2> HIDE DEF lft, B, H, plan
  <2> QED
    BY <1>3, <2>1
<1> HIDE DEF B, H, lft
<1>5. /\ file' \in Tables
      /\ commit' \in Tables \cup {None}
      /\ CommitInv'
      /\ failures' \in Nat
      /\ \/ commit' = None /\ file' = file
         \/ /\ commit' # None
            /\ file'.bindings = B /\ file'.history = H
  BY <1>1, <1>2, SaveKeeps
<1>6. preview' \in Shows \cup {None} /\ PreviewInv'
  BY <1>1 DEF BindingsInv, TypeOK, PreviewInv
<1>7. TypeOK'
  BY <1>1, <1>5, <1>6 DEF BindingsInv, TypeOK
<1>8. FileInv'
  BY <1>1, <1>2, <1>4, <1>5 DEF BindingsInv, FileInv
<1> QED
  BY <1>5, <1>6, <1>7, <1>8 DEF BindingsInv

LEMMA PublishKeeps ==
    ASSUME BindingsInv, Publish
    PROVE  BindingsInv'
<1>1. /\ commit # None
      /\ bindings' = commit.bindings
      /\ history' = commit.history
      /\ commit' = None
      /\ UNCHANGED <<file, groups, preview, edits, commits, failures, left, base>>
  BY DEF Publish
<1>2. commit \in Tables /\ file = commit
  BY <1>1 DEF BindingsInv, TypeOK, CommitInv
<1>3. /\ file = [bindings |-> bindings', history |-> history']
      /\ bindings' \subseteq Binding
      /\ history' \in Seq(Record)
  BY <1>1, <1>2 DEF Tables
<1>4. TypeOK' /\ FileInv' /\ PreviewInv'
  BY <1>1, <1>3 DEF BindingsInv, TypeOK, FileInv, PreviewInv
<1>5. CommitInv'
  BY <1>1, <1>3 DEF CommitInv
<1> QED
  BY <1>4, <1>5 DEF BindingsInv

LEMMA RestartKeeps ==
    ASSUME BindingsInv, Restart
    PROVE  BindingsInv'
<1>1. /\ failures' = failures + 1
      /\ bindings' = file.bindings
      /\ history' = file.history
      /\ commit' = None
      /\ UNCHANGED <<file, groups, preview, edits, commits, left, base>>
  BY DEF Restart
<1>2. file \in Tables /\ failures \in Nat
  BY DEF BindingsInv, TypeOK
<1>3. /\ file = [bindings |-> bindings', history |-> history']
      /\ bindings' \subseteq Binding
      /\ history' \in Seq(Record)
  BY <1>1, <1>2 DEF Tables
<1>4. TypeOK' /\ FileInv' /\ PreviewInv'
  BY <1>1, <1>2, <1>3 DEF BindingsInv, TypeOK, FileInv, PreviewInv
<1>5. CommitInv'
  BY <1>1, <1>3 DEF CommitInv
<1> QED
  BY <1>4, <1>5 DEF BindingsInv

LEMMA ChangeRulesKeeps ==
    ASSUME BindingsInv, ChangeRules
    PROVE  BindingsInv'
<1>1. /\ edits' = edits + 1
      /\ groups' \subseteq Groups
      /\ UNCHANGED <<bindings, history, file, commit, preview, commits, failures,
                     left, base>>
  BY DEF ChangeRules, BindingsInv, TypeOK
<1>2. TypeOK' /\ FileInv' /\ PreviewInv' /\ CommitInv'
  BY <1>1 DEF BindingsInv, TypeOK, FileInv, PreviewInv, CommitInv
<1> QED
  BY <1>2 DEF BindingsInv

LEMMA InvNext == BindingsInv /\ [Next]_vars => BindingsInv'
<1> SUFFICES ASSUME BindingsInv, [Next]_vars PROVE BindingsInv'
  OBVIOUS
<1>1. CASE UNCHANGED vars
  BY <1>1 DEF vars, BindingsInv, TypeOK, FileInv, CommitInv, PreviewInv
<1> QED
  BY <1>1, CreateKeeps, UpdateKeeps, DeleteKeeps, ChangeRulesKeeps,
     PreviewKeeps, ApplyKeeps, PublishKeeps, RestartKeeps DEF Next

-----------------------------------------------------------------------------
(* Theorems                                                                *)

LEMMA SpecKeepsInv == Spec => []BindingsInv
  BY InvInit, InvNext, PTL DEF Spec

\* Bindings, history, the file, the mutation being committed and the preview
\* in a client's hands have their types for every set of keys, credentials,
\* groups and policies.
THEOREM BindingsTyped == Spec => []TypeOK
<1>1. BindingsInv => TypeOK
  BY DEF BindingsInv
<1> QED
  BY <1>1, SpecKeepsInv, PTL

\* No restriction, and no absence of one, is in force that the state file
\* does not have, after any mutations, failed saves and restarts.
THEOREM NothingLiveIsUnsaved == Spec => []LiveIsDurable
<1>1. BindingsInv => LiveIsDurable
  BY DEF BindingsInv, CommitInv, LiveIsDurable
<1> QED
  BY <1>1, SpecKeepsInv, PTL

\* A preview is the only step that gives a client a new one.
LEMMA OnlyPreviewShows ==
    ASSUME [Next]_vars, preview' \notin {preview, None}
    PROVE  Preview
<1>1. ~UNCHANGED vars
  BY DEF vars
<1>2. ~CreateNativeKeyBinding
  BY DEF CreateNativeKeyBinding, Edit
<1>3. ~UpdateNativeKeyBinding
  BY DEF UpdateNativeKeyBinding, Edit
<1>4. ~DeleteNativeKeyBinding
  BY DEF DeleteNativeKeyBinding, Edit
<1>5. ~Apply
  BY DEF Apply
<1>6. ~ChangeRules /\ ~Publish /\ ~Restart
  BY DEF ChangeRules, Publish, Restart
<1> QED
  BY <1>1, <1>2, <1>3, <1>4, <1>5, <1>6 DEF Next

\* A batch or a restore is the only step that counts as one.
LEMMA OnlyApplyCommits ==
    ASSUME [Next]_vars, commits' # commits
    PROVE  Apply
<1>1. ~UNCHANGED vars
  BY DEF vars
<1>2. ~CreateNativeKeyBinding
  BY DEF CreateNativeKeyBinding, Edit
<1>3. ~UpdateNativeKeyBinding
  BY DEF UpdateNativeKeyBinding, Edit
<1>4. ~DeleteNativeKeyBinding
  BY DEF DeleteNativeKeyBinding, Edit
<1>5. ~ChangeRules /\ ~Preview /\ ~Publish /\ ~Restart
  BY DEF ChangeRules, Preview, Publish, Restart
<1> QED
  BY <1>1, <1>2, <1>3, <1>4, <1>5 DEF Next

\* What a step that commits writes.
LEMMA CommittedFacts ==
    ASSUME BindingsInv, [Next]_vars, Committing,
           NEW action, action = preview.revision.action,
           NEW cat, cat = preview.revision.catalog,
           NEW plan, plan = PlanFor(Snapshot, action, cat)
    PROVE  /\ commit'.bindings = StampedBindings(plan)
           /\ commit'.history = NewHistory(action, plan)
           /\ commit = None
           /\ edits \in Nat /\ commits \in Nat /\ edits + commits < MaxOps
           /\ action \in Action
           /\ action.kind = "rollback" => action.op \in IdsOf(history)
           /\ ~plan.conflict
           /\ preview.changes = plan.changes
           /\ GoodTable(bindings)
           /\ GoodPlan(bindings, plan)
           /\ Written.kind = action.kind
           /\ action.kind = "rollback" => Written.source = action.op
           /\ Written.changes = {StampedChange(c, plan) : c \in plan.changes}
           /\ ScopesOf(Written.changes) = ScopesOf(plan.changes)
<1>1. Apply
  BY OnlyApplyCommits DEF Committing
<1>2. /\ commit = None
      /\ edits + commits < MaxOps
      /\ Save(StampedBindings(plan), NewHistory(action, plan))
  BY <1>1 DEF Apply
<1>3. commit' = [bindings |-> StampedBindings(plan),
                 history  |-> NewHistory(action, plan)]
  BY <1>2 DEF Save, Committing
<1>4. commit'.bindings = StampedBindings(plan)
      /\ commit'.history = NewHistory(action, plan)
  BY <1>3
<1> DEFINE H == NewHistory(action, plan)
<1>5. /\ action \in Action
      /\ action.kind = "rollback" => action.op \in IdsOf(history)
      /\ ~plan.conflict
      /\ preview.changes = plan.changes
      /\ GoodPlan(bindings, plan)
      /\ Head(H).kind = action.kind
      /\ action.kind = "rollback" => Head(H).source = action.op
      /\ Head(H).changes = {StampedChange(c, plan) : c \in plan.changes}
  <2> HIDE DEF H
  <2> QED
    BY <1>1, AppliedFacts DEF H
<1>6. Written = Head(H)
  BY <1>4 DEF Written
<1>7. GoodTable(bindings) /\ edits \in Nat /\ commits \in Nat
  BY <1>2, AtRest DEF BindingsInv, TypeOK
<1>8. \A c \in plan.changes : StampedChange(c, plan).scope = c.scope
  BY <1>2, <1>5, <1>7, StampedChangeFacts
<1> HIDE DEF H
<1>9. ScopesOf(Written.changes) = ScopesOf(plan.changes)
  BY <1>5, <1>6, <1>8 DEF ScopesOf
<1> QED
  BY <1>2, <1>4, <1>5, <1>6, <1>7, <1>9

\* No sequence of edits, batches and restores leads to a plan without
\* conflicts that gives one id or one key to two bindings.
THEOREM PlansAlwaysValid == Spec => PlansAreValid
<1>1. ASSUME BindingsInv, [Next]_vars, preview' \notin {preview, None}
      PROVE  Normal(StampedBindings(PlanFor(Snapshot, preview'.revision.action,
                                            preview'.revision.catalog)))
  <2>1. Preview
    BY <1>1, OnlyPreviewShows
  <2>2. commit = None /\ edits + commits < MaxOps
    BY <2>1 DEF Preview
  <2>3. PICK cat \in Catalogs : \E action \in Actions(cat) :
           LET plan == PlanFor(Snapshot, action, cat)
           IN  /\ ~plan.conflict
               /\ preview' = [revision |-> Revision(action, cat),
                              changes  |-> plan.changes]
    BY <2>1 DEF Preview
  <2>4. PICK action \in Actions(cat) :
           LET plan == PlanFor(Snapshot, action, cat)
           IN  /\ ~plan.conflict
               /\ preview' = [revision |-> Revision(action, cat),
                              changes  |-> plan.changes]
    BY <2>3
  <2>5. preview'.revision.action = action /\ preview'.revision.catalog = cat
    BY <2>4 DEF Revision
  <2>6. GoodPlan(bindings, PlanFor(Snapshot, action, cat))
    BY <1>1, <2>2, <2>4, PreviewedPlan
  <2>7. GoodTable(bindings) /\ edits \in Nat /\ commits \in Nat
    BY <1>1, <2>2, AtRest DEF BindingsInv, TypeOK
  <2>8. GoodTable(StampedBindings(PlanFor(Snapshot, action, cat)))
    BY <2>2, <2>6, <2>7, StampedTable
  <2> QED
    BY <2>5, <2>8 DEF GoodTable
<1> QED
  BY <1>1, SpecKeepsInv, PTL DEF Spec, PlansAreValid

\* What is applied is what the client was shown, whatever happened between
\* the preview and its application.
THEOREM AppliedAsShown == Spec => PreviewIsExact
<1>1. ASSUME BindingsInv, [Next]_vars, Committing
      PROVE  Shown(Written.changes) = Shown(preview.changes)
  <2> DEFINE plan == PlanFor(Snapshot, preview.revision.action,
                             preview.revision.catalog)
  <2>1. /\ edits \in Nat /\ commits \in Nat /\ edits + commits < MaxOps
        /\ preview.changes = plan.changes
        /\ GoodTable(bindings)
        /\ GoodPlan(bindings, plan)
        /\ Written.changes = {StampedChange(c, plan) : c \in plan.changes}
    BY <1>1, CommittedFacts
  <2> HIDE DEF plan
  <2>2. \A c \in plan.changes : /\ StampedChange(c, plan).scope = c.scope
                                /\ StampedChange(c, plan).before = c.before
                                /\ StampedChange(c, plan).after = c.after
    BY <2>1, StampedChangeFacts
  <2> QED
    BY <2>1, <2>2 DEF Shown
<1> QED
  BY <1>1, SpecKeepsInv, PTL DEF Spec, PreviewIsExact

\* A restore that is committed reads its record from a good history.
LEMMA RestoringFacts ==
    ASSUME BindingsInv, [Next]_vars, Restoring,
           NEW op, op = preview.revision.action.op,
           NEW cat, cat = preview.revision.catalog,
           NEW plan, plan = PlanFor(Snapshot, preview.revision.action, cat),
           NEW saved, saved = RecordOf(history, op).changes
    PROVE  /\ Written.source = op
           /\ op \in IdsOf(history)
           /\ GoodChanges(saved)
           /\ \A c \in saved :
                 RestrictionOf(CurrentOf(plan.bindings, c.scope)) = c.before
           /\ \A d \in plan.changes : \E c \in saved :
                 /\ d = RollbackChange(Snapshot, c)
                 /\ ~Conflict(Snapshot, c, cat)
                 /\ ~AlreadyRestored(Snapshot, c)
<1> DEFINE action == preview.revision.action
<1>1. Committing /\ Written.kind = "rollback"
  BY DEF Restoring
<1>2. /\ commit = None
      /\ action.kind = "rollback"
      /\ op \in IdsOf(history)
      /\ Written.source = op
      /\ ~plan.conflict
  BY <1>1, CommittedFacts
<1>3. /\ GoodHistory(history)
      /\ GoodTable(Snapshot.bindings)
      /\ Snapshot.history = history
  BY <1>2, AtRest
<1>4. GoodChanges(saved)
  <2>1. PICK i \in DOMAIN history : RecordOf(history, op) = history[i]
    BY <1>2, <1>3, FoundRecord DEF GoodHistory
  <2> QED
    BY <2>1, <1>3 DEF GoodHistory
<1> HIDE DEF action
<1>5. plan = PlanNativeBindingRollback(Snapshot, action, cat)
  BY <1>2 DEF PlanFor, action
<1>6. saved = RecordOf(Snapshot.history, action.op).changes
  BY <1>3 DEF action
<1>7. /\ \A c \in saved :
            RestrictionOf(CurrentOf(plan.bindings, c.scope)) = c.before
      /\ \A d \in plan.changes : \E c \in saved :
            /\ d = RollbackChange(Snapshot, c)
            /\ ~Conflict(Snapshot, c, cat)
            /\ ~AlreadyRestored(Snapshot, c)
  BY <1>2, <1>3, <1>4, <1>5, <1>6, RestorePlanIsGood
<1> QED
  BY <1>2, <1>4, <1>7

\* A restore leaves every key of its record the restriction it gives back.
LEMMA RestoredTable ==
    ASSUME BindingsInv, [Next]_vars, Restoring,
           NEW c \in RecordOf(history, Written.source).changes
    PROVE  RestrictionOf(CurrentOf(commit'.bindings, c.scope)) = c.before
<1> DEFINE op    == preview.revision.action.op
           cat   == preview.revision.catalog
           plan  == PlanFor(Snapshot, preview.revision.action, cat)
           saved == RecordOf(history, op).changes
           x     == CurrentOf(plan.bindings, c.scope)
<1>1. /\ commit'.bindings = StampedBindings(plan)
      /\ edits \in Nat /\ commits \in Nat /\ edits + commits < MaxOps
      /\ GoodTable(bindings)
      /\ GoodPlan(bindings, plan)
  BY CommittedFacts DEF Restoring
<1>2. Written.source = op /\ \A d \in saved :
         RestrictionOf(CurrentOf(plan.bindings, d.scope)) = d.before
  BY RestoringFacts
<1>3. RestrictionOf(x) = c.before
  BY <1>2
<1> HIDE DEF plan
<1>4. x # None => x \in Binding
  BY <1>1, CurrentFacts DEF GoodPlan
<1>5. CurrentOf(commit'.bindings, c.scope)
        = IF x # None /\ c.scope \in ScopesOf(plan.changes)
          THEN Stamped(x) ELSE x
  BY <1>1, StampedTable
<1>6. x # None => Stamped(x) \in Binding /\ Stamped(x).restr = x.restr
  BY <1>1, <1>4, NowIsATime, StampFacts
<1> HIDE DEF x
<1> QED
  BY <1>3, <1>4, <1>5, <1>6, NoneFacts DEF RestrictionOf

\* A restore puts back, for every key of the operation it reverts, exactly
\* the restriction the key had before that operation, or does nothing.
THEOREM RestoresAreComplete == Spec => RestoreReturnsTargets
<1>1. ASSUME BindingsInv, [Next]_vars
      PROVE  Restoring =>
                \A c \in RecordOf(history, Written.source).changes :
                   RestrictionOf(CurrentOf(commit'.bindings, c.scope)) = c.before
  BY <1>1, RestoredTable
<1> QED
  BY <1>1, SpecKeepsInv, PTL DEF Spec, RestoreReturnsTargets

\* A key that an operation does not list keeps its binding.
LEMMA UnlistedStay ==
    ASSUME edits \in Nat, commits \in Nat, edits + commits < MaxOps,
           NEW B, GoodTable(B), NEW P, GoodPlan(B, P),
           NEW s, s \notin ScopesOf(P.changes)
    PROVE  CurrentOf(StampedBindings(P), s) = CurrentOf(B, s)
<1>1. CurrentOf(StampedBindings(P), s) = CurrentOf(P.bindings, s)
  BY StampedTable
<1>2. /\ P.bindings \subseteq Binding /\ Normal(P.bindings)
      /\ B \subseteq Binding /\ Normal(B)
  BY DEF GoodPlan, GoodTable
<1>3. \A b : b.scope = s => (b \in P.bindings <=> b \in B)
  BY DEF GoodPlan
<1>4. CurrentOf(P.bindings, s) = CurrentOf(B, s)
  BY <1>2, <1>3, CurrentFacts
<1> QED
  BY <1>1, <1>4

\* The newest recorded change of a key is what the history left there.
LEMMA LatestIsLeft ==
    ASSUME GoodHistory(history), LatestLeft(history, left),
           NEW s \in Scopes, LatestChange(history, s) # None
    PROVE  left[s] = <<ViewLeft(LatestChange(history, s))>>
<1> DEFINE H == history
           isNewest(i) == /\ s \in ScopesOf(H[i].changes)
                          /\ \A j \in 1 .. i - 1 : s \notin ScopesOf(H[j].changes)
           newest == CHOOSE i \in DOMAIN H : isNewest(i)
<1>1. /\ \E i \in DOMAIN H : s \in ScopesOf(H[i].changes)
      /\ LatestChange(H, s) = CHOOSE c \in H[newest].changes : c.scope = s
  BY DEF LatestChange
<1>2. PICK i \in DOMAIN H : s \in ScopesOf(H[i].changes)
  BY <1>1
<1>3. PICK k \in 1 .. i : \E c \in H[k].changes :
         NewestAt(H, s, k, c) /\ left[s] = <<ViewLeft(c)>>
  BY <1>2 DEF LatestLeft
<1>4. PICK c \in H[k].changes : NewestAt(H, s, k, c) /\ left[s] = <<ViewLeft(c)>>
  BY <1>3
<1>5. DOMAIN H = 1 .. Len(H) /\ Len(H) \in Nat
  BY DEF GoodHistory
<1>6. k \in DOMAIN H /\ isNewest(k)
  BY <1>2, <1>4, <1>5 DEF NewestAt, ScopesOf
<1>7. newest \in DOMAIN H /\ isNewest(newest)
  BY <1>6
<1>8. newest = k
  <2> HIDE DEF newest
  <2> QED
    BY <1>5, <1>6, <1>7
<1>9. GoodChanges(H[k].changes)
  BY <1>6 DEF GoodHistory
<1>10. \A d \in H[k].changes : d.scope = s => d = c
  BY <1>4, <1>9 DEF GoodChanges, NewestAt
<1>11. c.scope = s
  BY <1>4 DEF NewestAt
<1> HIDE DEF newest, isNewest
<1>12. LatestChange(H, s) = c
  BY <1>1, <1>8, <1>10, <1>11
<1> QED
  BY <1>4, <1>12

\* Where no conflict is found and something is to restore, the key is still
\* what the newest record about it left.
LEMMA RestoredWasLeft ==
    ASSUME GoodTable(bindings), GoodHistory(history), LatestLeft(history, left),
           NEW c, c.scope \in Scopes, NEW cat,
           ~Conflict(Snapshot, c, cat), ~AlreadyRestored(Snapshot, c)
    PROVE  left[c.scope] = <<View(CurrentOf(bindings, c.scope))>>
<1> DEFINE cur    == CurrentOf(bindings, c.scope)
           latest == LatestChange(history, c.scope)
<1>1. ~ChangedByHand(Snapshot, c)
  BY DEF Conflict
<1>2. Snapshot.bindings = bindings /\ Snapshot.history = history
  BY DEF Snapshot
<1>3. /\ latest # None
      /\ RestrictionOf(cur) = latest.after
      /\ cur # None => latest.id = cur.id /\ latest.afterCreated = cur.created
  BY <1>1, <1>2 DEF ChangedByHand
<1>4. left[c.scope] = <<ViewLeft(latest)>>
  BY <1>3, LatestIsLeft
<1>5. cur \in Binding \cup {None}
  BY CurrentFacts DEF GoodTable
<1> HIDE DEF cur, latest
<1>6. ViewLeft(latest) = View(cur)
  <2>1. RestrictionOf(cur) = None <=> cur = None
    BY <1>5, RestrictionFacts
  <2>2. cur # None => RestrictionOf(cur) = cur.restr
    BY DEF RestrictionOf
  <2> QED
    BY <1>3, <2>1, <2>2 DEF ViewLeft, View
<1> QED
  BY <1>4, <1>6 DEF cur

\* A restore replaces only what the last batch or restore left: nothing that
\* was edited, rotated, deleted or created again since.
THEOREM OnlyRecordedIsReplaced == Spec => OverridesOnlyRecorded
<1>1. ASSUME BindingsInv, [Next]_vars, Restoring, NEW s \in Scopes,
             View(CurrentOf(commit'.bindings, s)) # View(CurrentOf(bindings, s))
      PROVE  left[s] = <<View(CurrentOf(bindings, s))>>
  <2> DEFINE op    == preview.revision.action.op
             cat   == preview.revision.catalog
             plan  == PlanFor(Snapshot, preview.revision.action, cat)
             saved == RecordOf(history, op).changes
  <2>1. /\ commit'.bindings = StampedBindings(plan)
        /\ commit = None
        /\ edits \in Nat /\ commits \in Nat /\ edits + commits < MaxOps
        /\ GoodTable(bindings)
        /\ GoodPlan(bindings, plan)
    BY <1>1, CommittedFacts DEF Restoring
  <2>2. /\ GoodChanges(saved)
        /\ \A d \in plan.changes : \E c \in saved :
              /\ d = RollbackChange(Snapshot, c)
              /\ ~Conflict(Snapshot, c, cat)
              /\ ~AlreadyRestored(Snapshot, c)
    BY <1>1, RestoringFacts
  <2>3. GoodHistory(history) /\ LatestLeft(history, left)
    BY <1>1, <2>1, AtRest
  <2> HIDE DEF plan, saved
  <2>4. s \in ScopesOf(plan.changes)
    BY <1>1, <2>1, UnlistedStay
  <2>5. PICK d \in plan.changes : d.scope = s
    BY <2>4 DEF ScopesOf
  <2>6. PICK c \in saved : /\ d = RollbackChange(Snapshot, c)
                           /\ ~Conflict(Snapshot, c, cat)
                           /\ ~AlreadyRestored(Snapshot, c)
    BY <2>2
  <2>7. c.scope = s
    BY <2>5, <2>6 DEF RollbackChange
  <2> QED
    BY <2>1, <2>3, <2>6, <2>7, RestoredWasLeft
<1>2. ASSUME BindingsInv, [Next]_vars
      PROVE  Restoring =>
                \A s \in Scopes :
                   View(CurrentOf(commit'.bindings, s)) # View(CurrentOf(bindings, s))
                     => left[s] = <<View(CurrentOf(bindings, s))>>
  BY <1>1, <1>2
<1> QED
  BY <1>2, SpecKeepsInv, PTL DEF Spec, OverridesOnlyRecorded

\* A batch or a restore leaves alone every binding whose key it does not
\* list, and everything but the restriction of those it keeps; a restore
\* removes only what a batch created and nobody has edited since.
THEOREM PoliciesSurvive == Spec => PolicyPreserved
<1>1. ASSUME BindingsInv, [Next]_vars, Committing, NEW b \in bindings
      PROVE  LET after == CurrentOf(commit'.bindings, b.scope)
             IN  \/ after = b
                 \/ /\ after # None
                    /\ b.scope \in ScopesOf(Written.changes)
                    /\ Fingerprint(after) = Fingerprint(b)
                 \/ /\ after = None
                    /\ Restoring
                    /\ b.id = BatchId(b.scope)
                    /\ b.policy = DefaultPolicy
  <2> DEFINE action == preview.revision.action
             cat    == preview.revision.catalog
             plan   == PlanFor(Snapshot, action, cat)
             x      == CurrentOf(plan.bindings, b.scope)
             after  == CurrentOf(commit'.bindings, b.scope)
  <2>1. /\ commit'.bindings = StampedBindings(plan)
        /\ commit = None
        /\ edits \in Nat /\ commits \in Nat /\ edits + commits < MaxOps
        /\ action \in Action
        /\ ~plan.conflict
        /\ GoodTable(bindings)
        /\ GoodPlan(bindings, plan)
        /\ Written.kind = action.kind
        /\ ScopesOf(Written.changes) = ScopesOf(plan.changes)
    BY <1>1, CommittedFacts
  <2>2. CurrentOf(bindings, b.scope) = b /\ b \in Binding /\ b.created # 0 /\ b # None
    BY <2>1, CurrentFacts, NoneFacts DEF GoodTable
  <2>3. Snapshot.bindings = bindings
    BY DEF Snapshot
  <2>4. action.kind # "rollback" =>
           \A c \in plan.changes : CurrentOf(plan.bindings, c.scope) # None
    <3> SUFFICES ASSUME action.kind # "rollback"
                 PROVE  \A c \in plan.changes : CurrentOf(plan.bindings, c.scope) # None
      OBVIOUS
    <3>1. /\ action.kind = "batch"
          /\ action.selected \subseteq Scopes
          /\ action.target \in BatchTargets
      BY <2>1 DEF Action
    <3> HIDE DEF action
    <3>2. plan = PlanNativeBindingBatch(Snapshot, action, cat)
      BY <3>1 DEF PlanFor
    <3> QED
      BY <2>1, <2>3, <3>1, <3>2, BatchPlanIsGood
  <2> HIDE DEF plan, action
  <2>5. CASE b.scope \notin ScopesOf(plan.changes)
    BY <2>1, <2>2, <2>5, UnlistedStay
  <2>6. CASE b.scope \in ScopesOf(plan.changes)
    <3>1. PICK c \in plan.changes : c.scope = b.scope
      BY <2>6 DEF ScopesOf
    <3>2. /\ x # None => Fingerprint(x) = Fingerprint(b) /\ x \in Binding
          /\ x = None => /\ b.id = BatchId(b.scope)
                         /\ b.policy = DefaultPolicy
      <4>1. /\ x # None => Fingerprint(x) = Fingerprint(CurrentOf(bindings, c.scope))
            /\ x = None => /\ CurrentOf(bindings, c.scope).id
                                = BatchId(CurrentOf(bindings, c.scope).scope)
                           /\ CurrentOf(bindings, c.scope).policy = DefaultPolicy
        BY <2>1, <2>2, <3>1 DEF GoodPlan
      <4>2. x # None => x \in Binding
        BY <2>1, CurrentFacts DEF GoodPlan
      <4> QED
        BY <2>2, <3>1, <4>1, <4>2
    <3>3. after = IF x # None THEN Stamped(x) ELSE None
      BY <2>1, <2>6, StampedTable
    <3>4. CASE x # None
      <4>1. /\ Stamped(x) \in Binding
            /\ Stamped(x).id = x.id /\ Stamped(x).scope = x.scope
            /\ Stamped(x).policy = x.policy
            /\ x.created # 0 => Stamped(x).created = x.created
        BY <2>1, <3>2, <3>4, NowIsATime, StampFacts
      <4>2. x.created = b.created
        BY <3>2, <3>4 DEF Fingerprint
      <4>3. Fingerprint(Stamped(x)) = Fingerprint(b)
        <5>1. Fingerprint(Stamped(x)) = Fingerprint(x)
          BY <2>2, <4>1, <4>2 DEF Fingerprint
        <5> QED
          BY <5>1, <3>2, <3>4
      <4>4. after # None /\ Fingerprint(after) = Fingerprint(b)
        BY <3>3, <3>4, <4>1, <4>3, NoneFacts
      <4> QED
        BY <2>1, <2>6, <4>4
    <3>5. CASE x = None
      <4>1. action.kind = "rollback"
        BY <2>4, <3>1, <3>5
      <4>2. after = None
        BY <3>3, <3>5
      <4> QED
        BY <1>1, <2>1, <3>2, <3>5, <4>1, <4>2 DEF Restoring
    <3> QED
      BY <3>4, <3>5
  <2> QED
    BY <2>5, <2>6
<1>2. ASSUME BindingsInv, [Next]_vars
      PROVE  Committing =>
                \A b \in bindings :
                   LET after == CurrentOf(commit'.bindings, b.scope)
                   IN  \/ after = b
                       \/ /\ after # None
                          /\ b.scope \in ScopesOf(Written.changes)
                          /\ Fingerprint(after) = Fingerprint(b)
                       \/ /\ after = None
                          /\ Restoring
                          /\ b.id = BatchId(b.scope)
                          /\ b.policy = DefaultPolicy
  BY <1>1, <1>2
<1> QED
  BY <1>2, SpecKeepsInv, PTL DEF Spec, PolicyPreserved

-----------------------------------------------------------------------------
(* Markers: what the newest record says of the marks that it changed.      *)

\* Records are numbered as they come, the newest in front.
Numbered(H) ==
    /\ \A i \in DOMAIN H : H[i].id < Now
    /\ \A i, j \in DOMAIN H : i < j => H[j].id < H[i].id

\* The marks before the newest record: one for a record, none for the newest.
OneMarkEach(H, marks) ==
    /\ marks \subseteq Times \X Times
    /\ \A m, n \in marks : m[1] = n[1] => m = n
    /\ 1 \in DOMAIN H => \A m \in marks : m[1] < H[1].id

\* The markers of the newest record are the differences between the marks
\* before it and the marks there are now.
MarkersComplete(H, marks) ==
    1 \in DOMAIN H =>
       /\ \A x \in H[1].markers : <<x.op, x.before>> \in marks
       /\ \A i \in DOMAIN H \ {1} : \A m \in marks :
             m[1] = H[i].id /\ m[2] # H[i].revertedBy
               => [op |-> m[1], before |-> m[2], after |-> H[i].revertedBy]
                    \in H[1].markers

MarksInv ==
    /\ Numbered(file.history)
    /\ OneMarkEach(file.history, base)
    /\ MarkersComplete(file.history, base)

LEMMA MarksOfTyped ==
    ASSUME NEW H \in Seq(Record)
    PROVE  MarksOf(H) \subseteq Times \X Times
<1>1. \A i \in DOMAIN H : H[i] \in Record
  OBVIOUS
<1>2. \A i \in DOMAIN H : H[i].id \in Times /\ H[i].revertedBy \in Times
  BY <1>1 DEF Record
<1> QED
  BY <1>2 DEF MarksOf

LEMMA MarksInit == Init => MarksInv
<1> SUFFICES ASSUME Init PROVE MarksInv
  OBVIOUS
<1>1. file.history = <<>> /\ base = {}
  BY DEF Init
<1>2. DOMAIN file.history = {}
  BY <1>1
<1> QED
  BY <1>1, <1>2 DEF MarksInv, Numbered, OneMarkEach, MarkersComplete

\* Where neither the history on file nor the marks before it change, it only
\* matters that the numbers of records go up.
LEMMA MarksStand ==
    ASSUME BindingsInv, MarksInv, file'.history = file.history, base' = base,
           Now' >= Now, Now' \in Int
    PROVE  MarksInv'
<1> DEFINE H == file.history
<1>1. H \in Seq(Record)
  BY DEF BindingsInv, TypeOK, Tables
<1>2. \A i \in DOMAIN H : H[i] \in Record
  BY <1>1
<1>3. \A i \in DOMAIN H : H[i].id \in Int
  BY <1>2, BoundAssumption DEF Record, Times
<1>4. Now \in Int
  BY DEF Now, BindingsInv, TypeOK
<1>5. Numbered(H) /\ OneMarkEach(H, base) /\ MarkersComplete(H, base)
  BY DEF MarksInv
<1> HIDE DEF H
<1>6. \A i \in DOMAIN H : H[i].id < Now'
  BY <1>3, <1>4, <1>5 DEF Numbered
<1>7. file'.history = H
  BY DEF H
<1>8. Numbered(H)'
  <2>1. H' = H
    BY <1>7 DEF H
  <2> QED
    BY <1>5, <1>6, <2>1 DEF Numbered
<1>9. OneMarkEach(H, base)' /\ MarkersComplete(H, base)'
  <2>1. H' = H
    BY <1>7 DEF H
  <2> QED
    BY <1>5, <2>1 DEF OneMarkEach, MarkersComplete
<1> QED
  BY <1>8, <1>9 DEF MarksInv, H

\* A batch or a restore writes down every mark that it changes.
LEMMA MarksGrow ==
    ASSUME history \in Seq(Record), Numbered(history), Now \in Int,
           NEW M, MarkedLike(M, history),
           NEW r \in Record, r.id = Now, r.markers = MarkersOf(M),
           NEW H, H = Shortened(<<r>> \o M)
    PROVE  /\ \A i \in DOMAIN H : H[i].id <= Now
           /\ \A i, j \in DOMAIN H : i < j => H[j].id < H[i].id
           /\ OneMarkEach(H, MarksOf(history))
           /\ MarkersComplete(H, MarksOf(history))
<1> DEFINE G == history
<1>1. /\ M \in Seq(Record) /\ DOMAIN M = DOMAIN G
      /\ \A i \in DOMAIN G : M[i].id = G[i].id
  BY DEF MarkedLike
<1>2. /\ 1 \in DOMAIN H
      /\ H[1] = r
      /\ \A i \in DOMAIN H :
            /\ i \in Nat \ {0}
            /\ i # 1 => i - 1 \in DOMAIN M /\ H[i] = M[i - 1]
  BY <1>1, ShortenedFacts
<1>3. \A i \in DOMAIN G : G[i] \in Record
  OBVIOUS
<1>4. \A i \in DOMAIN G : G[i].id \in Int /\ G[i].id < Now
  BY <1>3, BoundAssumption DEF Numbered, Record, Times
<1>5. \A i \in DOMAIN H \ {1} : i - 1 \in DOMAIN G /\ H[i].id = G[i - 1].id
  BY <1>1, <1>2
<1>6. \A i, j \in DOMAIN G : i < j => G[j].id < G[i].id
  BY DEF Numbered
<1>7. \A i, j \in DOMAIN G : G[i].id = G[j].id => i = j
  <2>1. \A i \in DOMAIN G : i \in Int
    OBVIOUS
  <2> QED
    BY <1>4, <1>6, <2>1
<1>8. MarksOf(G) \subseteq Times \X Times
  BY MarksOfTyped
<1>9. \A m \in MarksOf(G) : \E i \in DOMAIN G :
         m = <<G[i].id, G[i].revertedBy>> /\ m[1] = G[i].id
                                          /\ m[2] = G[i].revertedBy
  BY DEF MarksOf
<1>10. H[1].id = Now /\ H[1].markers = MarkersOf(M)
  BY <1>2
<1> HIDE DEF G
<1>11. \A i \in DOMAIN H : H[i].id <= Now
  BY <1>4, <1>5, <1>10
<1>12. ASSUME NEW i \in DOMAIN H, NEW j \in DOMAIN H, i < j
       PROVE  H[j].id < H[i].id
  <2>1. j # 1 /\ j - 1 \in DOMAIN G /\ H[j].id = G[j - 1].id
    BY <1>2, <1>5, <1>12
  <2>2. CASE i = 1
    BY <1>4, <1>10, <2>1, <2>2
  <2>3. CASE i # 1
    <3>1. i - 1 \in DOMAIN G /\ H[i].id = G[i - 1].id
      BY <1>5, <2>3
    <3>2. i - 1 < j - 1
      BY <1>2, <1>12
    <3> QED
      BY <1>6, <2>1, <3>1, <3>2
  <2> QED
    BY <2>2, <2>3
<1>13. OneMarkEach(H, MarksOf(G))
  <2>1. \A m, n \in MarksOf(G) : m[1] = n[1] => m = n
    <3> SUFFICES ASSUME NEW m \in MarksOf(G), NEW n \in MarksOf(G), m[1] = n[1]
                 PROVE  m = n
      OBVIOUS
    <3>1. PICK i \in DOMAIN G : m = <<G[i].id, G[i].revertedBy>> /\ m[1] = G[i].id
      BY <1>9
    <3>2. PICK j \in DOMAIN G : n = <<G[j].id, G[j].revertedBy>> /\ n[1] = G[j].id
      BY <1>9
    <3>3. i = j
      BY <1>7, <3>1, <3>2
    <3> QED
      BY <3>1, <3>2, <3>3
  <2>2. \A m \in MarksOf(G) : m[1] < H[1].id
    BY <1>4, <1>9, <1>10
  <2> QED
    BY <1>8, <2>1, <2>2 DEF OneMarkEach
<1>14. \A x \in MarkersOf(M) : <<x.op, x.before>> \in MarksOf(G)
  <2> SUFFICES ASSUME NEW x \in MarkersOf(M)
               PROVE  <<x.op, x.before>> \in MarksOf(G)
    OBVIOUS
  <2>1. PICK i \in DOMAIN M :
           x = [op |-> M[i].id, before |-> history[i].revertedBy,
                after |-> M[i].revertedBy]
    BY DEF MarkersOf
  <2>2. x.op = G[i].id /\ x.before = G[i].revertedBy /\ i \in DOMAIN G
    BY <1>1, <2>1 DEF G
  <2> QED
    BY <2>2 DEF MarksOf
<1>15. ASSUME NEW i \in DOMAIN H \ {1}, NEW m \in MarksOf(G),
              m[1] = H[i].id, m[2] # H[i].revertedBy
       PROVE  [op |-> m[1], before |-> m[2], after |-> H[i].revertedBy]
                 \in MarkersOf(M)
  <2>1. PICK j \in DOMAIN G : m[1] = G[j].id /\ m[2] = G[j].revertedBy
    BY <1>9
  <2>2. j = i - 1
    BY <1>5, <1>7, <1>15, <2>1
  <2>3. H[i] = M[j] /\ j \in DOMAIN M
    BY <1>1, <1>2, <2>1, <2>2
  <2>4. m[1] = M[j].id /\ m[2] = history[j].revertedBy
        /\ M[j].revertedBy # history[j].revertedBy
    BY <1>15, <1>1, <2>1, <2>3 DEF G
  <2> QED
    BY <2>3, <2>4 DEF MarkersOf
<1>16. MarkersComplete(H, MarksOf(G))
  BY <1>10, <1>14, <1>15 DEF MarkersComplete
<1> QED
  BY <1>11, <1>12, <1>13, <1>16 DEF G

\* A mutation that is no batch and no restore leaves history and marks alone.
LEMMA EditKeepsMarks ==
    ASSUME BindingsInv, MarksInv, NEW B, Edit(B)
    PROVE  MarksInv'
<1>1. /\ commit = None /\ edits' = edits + 1 /\ Save(B, history)
      /\ base' = base /\ commits' = commits
  BY DEF Edit
<1>2. file.history = history
  BY <1>1 DEF BindingsInv, CommitInv
<1>3. file'.history = file.history
  BY <1>1, <1>2 DEF Save
<1>4. Now' >= Now /\ Now' \in Int
  BY <1>1 DEF Now, BindingsInv, TypeOK
<1> QED
  BY <1>1, <1>3, <1>4, MarksStand

LEMMA ApplyKeepsMarks ==
    ASSUME BindingsInv, MarksInv, Apply
    PROVE  MarksInv'
<1> DEFINE action == preview.revision.action
           cat    == preview.revision.catalog
           plan   == PlanFor(Snapshot, action, cat)
           M      == Marked(action, Now, plan.changes)
           r      == NewRecord(action, plan, M)
           H      == NewHistory(action, plan)
<1>1. /\ commit = None
      /\ Save(StampedBindings(plan), H)
      /\ IF commit' = None THEN UNCHANGED <<preview, left, base>>
         ELSE base' = MarksOf(history)
      /\ commits' = commits + 1
      /\ edits' = edits
  BY DEF Apply
<1>2. Now \in Int /\ Now' = Now + 1
  BY <1>1 DEF Now, BindingsInv, TypeOK
<1>3. history \in Seq(Record) /\ file.history = history
  BY <1>1 DEF BindingsInv, TypeOK, CommitInv
<1>4. MarkedLike(M, history) /\ r \in Record
  BY AppliedFacts
<1>5. r.id = Now /\ r.markers = MarkersOf(M)
  BY DEF NewRecord
<1>6. H = Shortened(<<r>> \o M)
  BY DEF NewHistory
<1>7. Numbered(history)
  BY <1>3 DEF MarksInv
<1> HIDE DEF M, r, H, plan, action
<1>8. /\ \A i \in DOMAIN H : H[i].id <= Now
      /\ \A i, j \in DOMAIN H : i < j => H[j].id < H[i].id
      /\ OneMarkEach(H, MarksOf(history))
      /\ MarkersComplete(H, MarksOf(history))
  BY <1>2, <1>3, <1>4, <1>5, <1>6, <1>7, MarksGrow
<1>9. CASE commit' = None
  <2>1. file' = file
    <3>1. [bindings |-> StampedBindings(plan), history |-> H] # None
      <4>1. GoodTable(StampedBindings(plan)) /\ GoodHistory(H)
        BY AppliedFacts DEF H, plan, action
      <4>2. [bindings |-> StampedBindings(plan), history |-> H] \in Tables
        BY <4>1 DEF GoodTable, GoodHistory, Tables
      <4> QED
        BY <4>2, NoneFacts
    <3> QED
      BY <1>1, <1>9, <3>1 DEF Save
  <2>2. Now' >= Now /\ Now' \in Int
    BY <1>2
  <2> QED
    BY <1>1, <1>9, <2>1, <2>2, MarksStand
<1>10. CASE commit' # None
  <2>1. base' = MarksOf(history) /\ file'.history = H
    BY <1>1, <1>10 DEF Save
  <2>2. GoodHistory(H)
    BY AppliedFacts DEF H, plan, action
  <2>3. \A i \in DOMAIN H : H[i] \in Record
    BY <2>2 DEF GoodHistory
  <2>4. \A i \in DOMAIN H : H[i].id \in Int
    BY <2>3, BoundAssumption DEF Record, Times
  <2>5. \A i \in DOMAIN H : H[i].id < Now'
    BY <1>2, <1>8, <2>4
  <2>6. Numbered(file.history)'
    BY <1>8, <2>1, <2>5 DEF Numbered
  <2>7. OneMarkEach(file.history, base)' /\ MarkersComplete(file.history, base)'
    BY <1>8, <2>1 DEF OneMarkEach, MarkersComplete
  <2> QED
    BY <2>6, <2>7 DEF MarksInv
<1> QED
  BY <1>9, <1>10

LEMMA MarksNext == BindingsInv /\ MarksInv /\ [Next]_vars => MarksInv'
<1> SUFFICES ASSUME BindingsInv, MarksInv, [Next]_vars PROVE MarksInv'
  OBVIOUS
<1>1. edits \in Nat /\ commits \in Nat
  BY DEF BindingsInv, TypeOK
<1>2. CASE UNCHANGED vars \/ Preview \/ Publish \/ Restart
  <2>1. file' = file /\ base' = base /\ edits' = edits /\ commits' = commits
    BY <1>2 DEF vars, Preview, Publish, Restart
  <2>2. Now' >= Now /\ Now' \in Int
    BY <1>1, <2>1 DEF Now
  <2> QED
    BY <2>1, <2>2, MarksStand
<1>3. CASE ChangeRules
  <2>1. file' = file /\ base' = base /\ edits' = edits + 1 /\ commits' = commits
    BY <1>3 DEF ChangeRules
  <2>2. Now' >= Now /\ Now' \in Int
    BY <1>1, <2>1 DEF Now
  <2> QED
    BY <2>1, <2>2, MarksStand
<1>4. CASE CreateNativeKeyBinding
  BY <1>4, EditKeepsMarks DEF CreateNativeKeyBinding
<1>5. CASE UpdateNativeKeyBinding
  BY <1>5, EditKeepsMarks DEF UpdateNativeKeyBinding
<1>6. CASE DeleteNativeKeyBinding
  BY <1>6, EditKeepsMarks DEF DeleteNativeKeyBinding
<1>7. CASE Apply
  BY <1>7, ApplyKeepsMarks
<1> QED
  BY <1>2, <1>3, <1>4, <1>5, <1>6, <1>7 DEF Next

LEMMA SpecKeepsMarks == Spec => []MarksInv
  BY MarksInit, MarksNext, SpecKeepsInv, PTL DEF Spec

\* A restore that undoes the newest record, itself a restore, changes the mark
\* of an older record as the markers of the newest one say, where they do.
LEMMA UndoneMark ==
    ASSUME history \in Seq(Record), Numbered(history), 1 \in DOMAIN history,
           NEW action, action.kind = "rollback", action.op = history[1].id,
           history[1].kind = "rollback", NEW by \in Times, NEW C,
           NEW M, M = Marked(action, by, C),
           NEW j \in DOMAIN history, NEW x \in history[1].markers,
           x.op = history[j].id, x.after = history[j].revertedBy
    PROVE  \E y \in history[1].markers :
              y.op = history[j].id /\ M[j].revertedBy = y.before
<1> DEFINE source == RecordOf(history, action.op)
           H1 == MarkNativeBindingOperation(history, action.op, by)
           H2 == RestoreMarkers(H1, source)
           H3 == Supersede(H2, action.op, by, ScopesOf(C))
           undone == {y \in source.markers : /\ source.kind = "rollback"
                                             /\ y.op = H1[j].id
                                             /\ y.after = history[j].revertedBy}
           chosen == CHOOSE y \in undone : TRUE
<1>1. M = H3
  BY DEF Marked
<1>2. \A i \in DOMAIN history : history[i] \in Record
  OBVIOUS
<1>3. \A i \in DOMAIN history : history[i].id \in Int
  BY <1>2, BoundAssumption DEF Record, Times
<1>4. \A i \in DOMAIN history : i # 1 => history[i].id < history[1].id
  <2>1. \A i \in DOMAIN history : i \in Nat \ {0}
    OBVIOUS
  <2> QED
    BY <2>1 DEF Numbered
<1>5. source = history[1]
  <2>1. history[1].id \in IdsOf(history)
    BY DEF IdsOf
  <2>2. PICK i \in DOMAIN history :
           RecordOf(history, history[1].id) = history[i]
           /\ history[i].id = history[1].id
    BY <2>1, FoundRecord
  <2>3. i = 1
    BY <1>3, <1>4, <2>2
  <2> QED
    BY <2>2, <2>3
<1>6. MarkedLike(H1, history)
  BY MarkedOperation
<1> HIDE DEF H1
<1>7. H1 \in Seq(Record) /\ DOMAIN H1 = DOMAIN history /\ H1[j].id = history[j].id
  BY <1>6 DEF MarkedLike
<1>8. MarkedLike(H2, H1)
  BY <1>2, <1>5, <1>7, RestoredMarkers
<1>9. H2[j] = IF undone = {} THEN H1[j]
              ELSE [H1[j] EXCEPT !.revertedBy = chosen.before]
  BY <1>7 DEF RestoreMarkers
<1>10. x \in undone
  BY <1>5, <1>7
<1>11. chosen \in undone
  BY <1>10
<1>12. chosen \in history[1].markers /\ chosen.op = history[j].id
  BY <1>5, <1>7, <1>11
<1> HIDE DEF undone, chosen
<1>13. H1[j] \in Record
  BY <1>7
<1>14. H2[j].revertedBy = chosen.before
  BY <1>9, <1>10, <1>13 DEF Record
<1> HIDE DEF H2
<1>15. DOMAIN H2 = DOMAIN H1 /\ H2[j].id = H1[j].id
  BY <1>7, <1>8 DEF MarkedLike
<1>16. ~(H2[j].id > action.op)
  BY <1>3, <1>4, <1>7, <1>15
<1>17. H3[j] = H2[j]
  BY <1>7, <1>15, <1>16 DEF Supersede
<1> QED
  BY <1>1, <1>12, <1>14, <1>17

\* Undoing the newest operation, a restore, leaves every older record marked
\* as it was before that restore, as far as the restore had changed it.
THEOREM UndoneRestoresLeaveNoMark == Spec => MarkersRoundTrip
<1>1. ASSUME BindingsInv, MarksInv, [Next]_vars, Restoring,
             Written.source = history[1].id,
             history[1].kind = "rollback",
             NEW i \in DOMAIN commit'.history, NEW m \in base,
             m[1] = commit'.history[i].id, m \notin MarksOf(history)
      PROVE  commit'.history[i].revertedBy = m[2]
  <2> DEFINE action == preview.revision.action
             cat    == preview.revision.catalog
             plan   == PlanFor(Snapshot, action, cat)
             M      == Marked(action, Now, plan.changes)
             r      == NewRecord(action, plan, M)
             H      == commit'.history
             j      == i - 1
  <2>1. /\ H = NewHistory(action, plan)
        /\ commit = None
        /\ edits \in Nat /\ commits \in Nat /\ edits + commits < MaxOps
        /\ action.kind = "rollback" => action.op \in IdsOf(history)
        /\ Written.kind = action.kind
        /\ action.kind = "rollback" => Written.source = action.op
    BY <1>1, CommittedFacts DEF Restoring
  <2>2. action.kind = "rollback" /\ action.op = history[1].id
    BY <1>1, <2>1 DEF Restoring
  <2>3. Apply
    BY <1>1, OnlyApplyCommits DEF Restoring, Committing
  <2>4. MarkedLike(M, history) /\ r \in Record
    BY <1>1, <2>3, AppliedFacts
  <2>5. r.id = Now /\ H = Shortened(<<r>> \o M)
    BY <2>1 DEF NewRecord, NewHistory
  <2>6. /\ history \in Seq(Record)
        /\ file.history = history
    BY <1>1, <2>1 DEF BindingsInv, TypeOK, CommitInv
  <2>7. /\ Numbered(history)
        /\ OneMarkEach(history, base)
        /\ MarkersComplete(history, base)
    BY <1>1, <2>6 DEF MarksInv
  <2>8. 1 \in DOMAIN history
    <3>1. \E k \in DOMAIN history : TRUE
      BY <2>1, <2>2 DEF IdsOf
    <3>2. DOMAIN history = 1 .. Len(history) /\ Len(history) \in Nat
      BY <2>6
    <3> QED
      BY <3>1, <3>2
  <2>9. Now \in Times /\ Now \in Int
    BY <2>1, NowIsATime DEF Now
  <2> HIDE DEF H, r, plan, action
  <2>10. M \in Seq(Record) /\ DOMAIN M = DOMAIN history
    BY <2>4, <2>6 DEF MarkedLike
  <2>11. /\ H[1] = r
         /\ i # 1 => j \in DOMAIN M /\ H[i] = M[j]
    BY <1>1, <2>4, <2>5, <2>10, ShortenedFacts DEF H
  <2>12. \A k \in DOMAIN history : history[k].id \in Int /\ history[k].id < Now
    <3>1. \A k \in DOMAIN history : history[k] \in Record
      BY <2>6
    <3> QED
      BY <3>1, <2>7, BoundAssumption DEF Record, Times, Numbered
  <2>13. m[1] < history[1].id /\ m[1] \in Int /\ m = <<m[1], m[2]>>
    BY <2>7, <2>8, <1>1, BoundAssumption DEF OneMarkEach, Times
  <2>14. m[1] = H[i].id
    BY <1>1 DEF H
  <2>15. i # 1
    BY <2>5, <2>8, <2>9, <2>11, <2>12, <2>13, <2>14
  <2>16. j \in DOMAIN history /\ H[i] = M[j] /\ m[1] = history[j].id
    BY <2>4, <2>10, <2>11, <2>14, <2>15 DEF MarkedLike
  <2> HIDE DEF j, M
  <2>17. m[2] # history[j].revertedBy
    BY <1>1, <2>13, <2>16 DEF MarksOf
  <2>18. j # 1
    BY <2>12, <2>13, <2>16
  <2> DEFINE x == [op |-> m[1], before |-> m[2],
                   after |-> history[j].revertedBy]
  <2>19. x \in history[1].markers
    BY <1>1, <2>7, <2>8, <2>16, <2>17, <2>18 DEF MarkersComplete
  <2>20. x.op = history[j].id /\ x.after = history[j].revertedBy
    BY <2>16
  <2>21. \A y \in history[1].markers : y.op = history[j].id => y.before = m[2]
    <3> SUFFICES ASSUME NEW y \in history[1].markers, y.op = history[j].id
                 PROVE  y.before = m[2]
      OBVIOUS
    <3>1. <<y.op, y.before>> \in base
      BY <2>7, <2>8 DEF MarkersComplete
    <3>2. <<y.op, y.before>> = m
      BY <1>1, <2>7, <2>16, <3>1 DEF OneMarkEach
    <3> QED
      BY <3>2
  <2>22. PICK y \in history[1].markers :
            y.op = history[j].id /\ M[j].revertedBy = y.before
    <3> DEFINE id == Now
               C  == plan.changes
    <3>1. M = Marked(action, id, C) /\ id \in Times
      BY <2>9 DEF M
    <3> HIDE DEF id, C, x
    <3> QED
      BY <1>1, <2>2, <2>6, <2>7, <2>8, <2>16, <2>19, <2>20, <3>1, UndoneMark
  <2> QED
    BY <2>16, <2>21, <2>22 DEF H
<1>2. ASSUME BindingsInv, MarksInv, [Next]_vars
      PROVE  /\ Restoring
             /\ Written.source = history[1].id
             /\ history[1].kind = "rollback"
             => \A i \in DOMAIN commit'.history :
                  LET h == commit'.history[i]
                  IN  \A m \in base :
                        /\ m[1] = h.id
                        /\ m \notin MarksOf(history)
                        => h.revertedBy = m[2]
  BY <1>1, <1>2
<1> QED
  BY <1>2, SpecKeepsInv, SpecKeepsMarks, PTL DEF Spec, MarkersRoundTrip

-----------------------------------------------------------------------------
(* The bindings keep the promise of RestrictionLog.                        *)

\* The restriction of a key, in the table that RestrictionLog sees.
LEMMA TableFacts ==
    ASSUME NEW B, GoodTable(B)
    PROVE  /\ RestrictionsIn(B) \in [Scopes -> Restrictions \cup {None}]
           /\ \A s \in Scopes :
                 RestrictionsIn(B)[s] = RestrictionOf(CurrentOf(B, s))
<1>1. \A s : CurrentOf(B, s) \in Binding \cup {None}
  BY CurrentFacts DEF GoodTable
<1>2. \A s \in Scopes :
         RestrictionOf(CurrentOf(B, s)) \in Restrictions \cup {None}
  BY <1>1, RestrictionFacts
<1> QED
  BY <1>2 DEF RestrictionsIn

\* A key keeps its restriction when no binding of it comes or goes.
LEMMA SameRestriction ==
    ASSUME NEW A, GoodTable(A), NEW B, GoodTable(B), NEW s \in Scopes,
           \A b : b.scope = s => (b \in A <=> b \in B)
    PROVE  RestrictionsIn(A)[s] = RestrictionsIn(B)[s]
<1>1. CurrentOf(A, s) = CurrentOf(B, s)
  BY CurrentFacts DEF GoodTable
<1> QED
  BY <1>1, TableFacts

\* A change says what restriction its key had in the table it was planned on.
LEMMA PlannedFromTable ==
    ASSUME NEW S, NEW action, NEW cat,
           NEW c \in PlanFor(S, action, cat).changes
    PROVE  c.before = RestrictionOf(CurrentOf(S.bindings, c.scope))
<1>1. CASE action.kind = "batch"
  <2>1. PICK s : c = BatchChange(S.bindings, s, action.target)
    BY <1>1 DEF PlanFor, PlanNativeBindingBatch
  <2> QED
    BY <2>1 DEF BatchChange
<1>2. CASE action.kind # "batch"
  <2>1. PICK d : c = RollbackChange(S, d)
    BY <1>2 DEF PlanFor, PlanNativeBindingRollback
  <2> QED
    BY <2>1 DEF RollbackChange
<1> QED
  BY <1>1, <1>2

\* What a batch lists: the keys it is about that were restricted otherwise.
LEMMA BatchLists ==
    ASSUME NEW S, NEW action, NEW cat,
           ~PlanNativeBindingBatch(S, action, cat).conflict
    PROVE  \A s : s \in ScopesOf(PlanNativeBindingBatch(S, action, cat).changes) <=>
              /\ s \in action.selected
              /\ RestrictionOf(CurrentOf(S.bindings, s)) # AuthsOnly(action.target)
<1> DEFINE P == PlanNativeBindingBatch(S, action, cat)
           taken == {s \in action.selected : IdTaken(S.bindings, s)}
           changed == {s \in action.selected :
                         RestrictionOf(CurrentOf(S.bindings, s))
                           # AuthsOnly(action.target)}
<1>1. taken = {}
  BY DEF PlanNativeBindingBatch
<1>2. P.changes = {BatchChange(S.bindings, s, action.target) : s \in changed}
  <2>1. {s \in action.selected \ taken :
           RestrictionOf(CurrentOf(S.bindings, s)) # AuthsOnly(action.target)}
          = changed
    BY <1>1
  <2> QED
    BY <2>1 DEF PlanNativeBindingBatch
<1>3. \A s : BatchChange(S.bindings, s, action.target).scope = s
  BY DEF BatchChange
<1> HIDE DEF changed, P
<1>4. ScopesOf(P.changes) = changed
  BY <1>2, <1>3 DEF ScopesOf
<1> QED
  BY <1>4 DEF changed, P

\* What a restore lists: the keys of its record that do not have what it
\* gives back already.
LEMMA RestoreLists ==
    ASSUME NEW S, NEW action, NEW cat,
           ~PlanNativeBindingRollback(S, action, cat).conflict
    PROVE  ScopesOf(PlanNativeBindingRollback(S, action, cat).changes)
             = ScopesOf({c \in RecordOf(S.history, action.op).changes :
                           ~AlreadyRestored(S, c)})
<1> DEFINE P == PlanNativeBindingRollback(S, action, cat)
           saved == RecordOf(S.history, action.op).changes
           changed == {c \in saved : ~AlreadyRestored(S, c)}
<1>1. {c \in saved : Conflict(S, c, cat)} = {}
  BY DEF PlanNativeBindingRollback
<1>2. P.changes = {RollbackChange(S, c) : c \in changed}
  <2>1. {c \in saved \ {c \in saved : Conflict(S, c, cat)} :
           ~AlreadyRestored(S, c)} = changed
    BY <1>1
  <2> QED
    BY <2>1 DEF PlanNativeBindingRollback
<1>3. \A c : RollbackChange(S, c).scope = c.scope
  BY DEF RollbackChange
<1> HIDE DEF changed, P
<1>4. ScopesOf(P.changes) = ScopesOf(changed)
  BY <1>2, <1>3 DEF ScopesOf
<1> QED
  BY <1>4 DEF changed, P

\* A mutation of one or two keys is an edit of the table, or fails.
LEMMA EditIsEdit ==
    ASSUME BindingsInv, BindingsInv', NEW B, Edit(B),
           NEW s \in Scopes, NEW t \in Scopes,
           \A b : b.scope # s /\ b.scope # t => (b \in B <=> b \in bindings)
    PROVE  [Log!Next]_(Log!vars)
<1>1. /\ commit = None
      /\ Save(B, history)
      /\ bindings' = bindings
  BY DEF Edit
<1>2. GoodTable(bindings) /\ file = [bindings |-> bindings, history |-> history]
  BY <1>1, AtRest DEF BindingsInv, CommitInv
<1>3. CASE file' = file
  BY <1>1, <1>3 DEF Log!vars
<1>4. CASE file' = [bindings |-> B, history |-> history]
  <2>1. GoodTable(B)
    <3>1. GoodTable(file'.bindings)
      BY DEF BindingsInv, FileInv
    <3> QED
      BY <3>1, <1>4
  <2>2. /\ RestrictionsIn(B) \in [Scopes -> Restrictions \cup {None}]
        /\ \A r \in Scopes \ {s, t} :
              RestrictionsIn(B)[r] = RestrictionsIn(bindings)[r]
    BY <1>2, <2>1, TableFacts, SameRestriction
  <2>3. Log!Edit
    BY <1>1, <1>2, <1>4, <2>2 DEF Log!Edit, Log!Tables
  <2> QED
    BY <2>3 DEF Log!Next
<1> QED
  BY <1>1, <1>3, <1>4 DEF Save

\* The operations that a history remembers.
LEMMA OperationFacts ==
    ASSUME NEW H \in Seq(Record)
    PROVE  \A o : o \in OperationsIn(H) <=>
              \E i \in DOMAIN H : o = [id |-> H[i].id, took |-> Took(H[i].changes)]
  BY DEF OperationsIn

\* A batch or a restore that is committed is one operation of the log on the
\* table, about the keys in the domain of target.
LEMMA CommitIsOperation ==
    ASSUME BindingsInv, BindingsInv', MarksInv, [Next]_vars, Committing,
           NEW action, action = preview.revision.action,
           NEW cat, cat = preview.revision.catalog,
           NEW plan, plan = PlanFor(Snapshot, action, cat),
           NEW target, DOMAIN target \subseteq Scopes,
           \A s \in DOMAIN target :
              RestrictionsIn(StampedBindings(plan))[s] = target[s],
           ScopesOf(plan.changes)
             = {s \in DOMAIN target : RestrictionsIn(bindings)[s] # target[s]}
    PROVE  Log!Operation(target)
<1> DEFINE SB == StampedBindings(plan)
           M  == Marked(action, Now, plan.changes)
           r  == NewRecord(action, plan, M)
           H  == NewHistory(action, plan)
           table == RestrictionsIn(bindings)
           listed == ScopesOf(plan.changes)
           new == [id |-> Now, took |-> Took(r.changes)]
<1>1. /\ commit'.bindings = SB
      /\ commit'.history = H
      /\ commit = None
      /\ edits \in Nat /\ commits \in Nat /\ edits + commits < MaxOps
      /\ GoodTable(bindings)
      /\ GoodPlan(bindings, plan)
  BY CommittedFacts
<1>2. Apply
  BY OnlyApplyCommits DEF Committing
<1>3. /\ MarkedLike(M, history)
      /\ r \in Record
      /\ GoodTable(SB)
  BY <1>2, AppliedFacts
<1>4. /\ history \in Seq(Record)
      /\ file = [bindings |-> bindings, history |-> history]
      /\ Numbered(history)
  BY <1>1 DEF BindingsInv, TypeOK, CommitInv, MarksInv
<1>5. file'.bindings = SB /\ file'.history = H /\ bindings' = bindings
  <2>1. commit' # None /\ file' = commit'
    BY DEF BindingsInv, CommitInv, Committing
  <2> QED
    BY <1>1, <1>2, <2>1 DEF Apply
<1>6. /\ table \in [Scopes -> Restrictions \cup {None}]
      /\ RestrictionsIn(SB) \in [Scopes -> Restrictions \cup {None}]
  BY <1>1, <1>3, TableFacts
<1>7. ASSUME NEW s \in Scopes \ DOMAIN target
      PROVE  RestrictionsIn(SB)[s] = table[s]
  <2>1. s \notin listed
    OBVIOUS
  <2>2. CurrentOf(SB, s) = CurrentOf(bindings, s)
    BY <1>1, <2>1, UnlistedStay
  <2> QED
    BY <1>1, <1>3, <2>2, TableFacts
<1>8. RestrictionsIn(SB) = [s \in Scopes |-> IF s \in DOMAIN target
                                             THEN target[s] ELSE table[s]]
  <2> HIDE DEF SB, table
  <2> QED
    BY <1>6, <1>7 DEF SB
<1>9. ASSUME NEW s \in listed
      PROVE  /\ s \in ScopesOf(r.changes)
             /\ \A c \in r.changes : c.scope = s => c.before = table[s]
  <2>1. r.changes = {StampedChange(c, plan) : c \in plan.changes}
    BY DEF NewRecord
  <2>2. \A c \in plan.changes : /\ StampedChange(c, plan).scope = c.scope
                                /\ StampedChange(c, plan).before = c.before
    BY <1>1, StampedChangeFacts
  <2>3. \A c \in plan.changes : c.before = RestrictionOf(CurrentOf(bindings, c.scope))
    BY PlannedFromTable DEF Snapshot
  <2>4. s \in Scopes
    OBVIOUS
  <2>5. table[s] = RestrictionOf(CurrentOf(bindings, s))
    BY <1>1, <2>4, TableFacts
  <2>6. \E c \in plan.changes : c.scope = s
    BY DEF ScopesOf
  <2> HIDE DEF r, table, listed
  <2> QED
    BY <2>1, <2>2, <2>3, <2>5, <2>6 DEF ScopesOf
<1>10. ScopesOf(r.changes) = listed
  <2>1. Written.changes = {StampedChange(c, plan) : c \in plan.changes}
        /\ ScopesOf(Written.changes) = listed
    BY CommittedFacts
  <2> QED
    BY <2>1 DEF NewRecord
<1>11. Took(r.changes) = [s \in listed |-> table[s]]
  <2> HIDE DEF r, table, listed
  <2>1. \A s \in listed : (CHOOSE c \in r.changes : c.scope = s).before = table[s]
    BY <1>9 DEF ScopesOf
  <2> QED
    BY <1>10, <2>1 DEF Took
<1>12. /\ H \in Seq(Record)
       /\ 1 \in DOMAIN H
       /\ H[1] = r
       /\ \A i \in DOMAIN H :
             i # 1 => i - 1 \in DOMAIN M /\ H[i] = M[i - 1]
  <2>1. H = Shortened(<<r>> \o M)
    BY DEF NewHistory
  <2>2. M \in Seq(Record)
    BY <1>3 DEF MarkedLike
  <2> HIDE DEF H, r, M
  <2> QED
    BY <1>3, <2>1, <2>2, ShortenedFacts
<1>13. r.id = Now
  BY DEF NewRecord
<1> HIDE DEF H, r, M, SB
<1>14. new \in OperationsIn(H)
  BY <1>12, <1>13 DEF OperationsIn
<1>15. ASSUME NEW o \in OperationsIn(H), o # new
       PROVE  o \in OperationsIn(history)
  <2>1. PICK i \in DOMAIN H : o = [id |-> H[i].id, took |-> Took(H[i].changes)]
    BY DEF OperationsIn
  <2>2. i # 1
    BY <1>12, <1>13, <1>15, <2>1
  <2>3. /\ i - 1 \in DOMAIN history
        /\ H[i].id = history[i - 1].id
        /\ H[i].changes = history[i - 1].changes
    BY <1>3, <1>4, <1>12, <2>2 DEF MarkedLike
  <2> QED
    BY <2>1, <2>3 DEF OperationsIn
<1>16. ASSUME NEW o \in OperationsIn(history)
       PROVE  o.id # Now
  <2>1. PICK i \in DOMAIN history : o.id = history[i].id
    BY DEF OperationsIn
  <2>2. history[i].id < Now
    BY <1>4 DEF Numbered
  <2>3. history[i] \in Record
    BY <1>4
  <2>4. history[i].id \in Int /\ Now \in Int
    BY <1>1, <2>3, BoundAssumption DEF Record, Times, Now
  <2> QED
    BY <2>1, <2>2, <2>4
<1>17. \E n \in OperationsIn(H) :
          /\ OperationsIn(H) \ {n} \subseteq OperationsIn(history)
          /\ \A o \in OperationsIn(history) : o.id # n.id
          /\ n.took = [s \in listed |-> table[s]]
  <2>1. new.id = Now /\ new.took = Took(r.changes)
    OBVIOUS
  <2> HIDE DEF new
  <2> QED
    BY <1>11, <1>14, <1>15, <1>16, <2>1
<1>18. listed = {s \in DOMAIN target : table[s] # target[s]}
  OBVIOUS
<1> HIDE DEF listed
<1> QED
  BY <1>4, <1>5, <1>8, <1>17, <1>18 DEF Log!Operation, table

\* A batch gives one restriction to the keys it selects.
LEMMA BatchIsBatch ==
    ASSUME BindingsInv, BindingsInv', MarksInv, [Next]_vars, Committing,
           preview.revision.action.kind = "batch"
    PROVE  Log!Batch
<1> DEFINE action == preview.revision.action
           cat    == preview.revision.catalog
           plan   == PlanFor(Snapshot, action, cat)
           SB     == StampedBindings(plan)
           keys   == action.selected
           r      == AuthsOnly(action.target)
           target == [s \in keys |-> r]
<1>1. /\ commit = None
      /\ edits \in Nat /\ commits \in Nat /\ edits + commits < MaxOps
      /\ action \in Action
      /\ ~plan.conflict
      /\ GoodTable(bindings)
      /\ GoodPlan(bindings, plan)
  BY CommittedFacts
<1>2. keys \subseteq Scopes /\ action.target \in BatchTargets
  BY <1>1 DEF Action
<1>3. r \in Restrictions
  BY <1>2 DEF Restrictions
<1>4. GoodTable(SB)
  BY <1>1, StampedTable
<1>5. plan = PlanNativeBindingBatch(Snapshot, action, cat)
  BY DEF PlanFor
<1>6. Snapshot.bindings = bindings
  BY DEF Snapshot
<1>7. \A s : s \in ScopesOf(plan.changes) <=>
              s \in keys /\ RestrictionOf(CurrentOf(bindings, s)) # r
  <2> HIDE DEF action, cat, plan
  <2> QED
    BY <1>1, <1>5, <1>6, BatchLists
<1>8. ScopesOf(plan.changes)
        = {s \in DOMAIN target : RestrictionsIn(bindings)[s] # target[s]}
  <2>1. \A s \in keys : RestrictionsIn(bindings)[s]
                          = RestrictionOf(CurrentOf(bindings, s))
    BY <1>1, <1>2, TableFacts
  <2> HIDE DEF plan, keys, r
  <2> QED
    BY <1>7, <2>1
<1>9. ASSUME NEW s \in keys PROVE RestrictionsIn(SB)[s] = r
  <2> DEFINE x == CurrentOf(SB, s)
  <2>1. s \in Scopes /\ RestrictionsIn(SB)[s] = RestrictionOf(x)
    BY <1>2, <1>4, TableFacts
  <2>2. CASE s \in ScopesOf(plan.changes)
    <3>1. PICK c \in plan.changes : c.scope = s
      BY <2>2 DEF ScopesOf
    <3>2. c.after = r
      <4>1. PICK z : c = BatchChange(bindings, z, action.target)
        BY <1>5, <1>6 DEF PlanNativeBindingBatch
      <4>2. c.after = BatchCandidate(bindings, z, action.target).restr
        BY <4>1 DEF BatchChange
      <4>3. z = s
        BY <3>1, <4>1 DEF BatchChange
      <4> QED
        BY <1>1, <1>2, <2>1, <4>2, <4>3, CandidateFacts
    <3> DEFINE y == CurrentOf(plan.bindings, s)
    <3>3. RestrictionOf(y) = r /\ (y # None => y \in Binding)
      <4>1. c.after = RestrictionOf(y)
        BY <1>1, <3>1 DEF GoodPlan
      <4>2. y # None => y \in Binding
        BY <1>1, CurrentFacts DEF GoodPlan
      <4> QED
        BY <3>2, <4>1, <4>2
    <3>4. y # None /\ y.restr = r
      BY <1>3, <3>3, NoneFacts DEF RestrictionOf
    <3>5. x = Stamped(y)
      BY <1>1, <2>2, <3>4, StampedTable
    <3>6. x \in Binding /\ x.restr = y.restr
      BY <1>1, <3>3, <3>4, <3>5, NowIsATime, StampFacts
    <3> QED
      BY <2>1, <3>4, <3>6, NoneFacts DEF RestrictionOf
  <2>3. CASE s \notin ScopesOf(plan.changes)
    <3>1. x = CurrentOf(bindings, s)
      BY <1>1, <2>3, UnlistedStay
    <3> QED
      BY <1>7, <2>1, <2>3, <3>1
  <2> QED
    BY <2>2, <2>3
<1>10. Log!Operation(target)
  <2>1. DOMAIN target \subseteq Scopes
    BY <1>2
  <2>2. \A s \in DOMAIN target :
           RestrictionsIn(StampedBindings(plan))[s] = target[s]
    BY <1>9
  <2> HIDE DEF action, cat, target
  <2> QED
    BY <1>8, <2>1, <2>2, CommitIsOperation DEF action, cat
<1> QED
  BY <1>2, <1>3, <1>10 DEF Log!Batch

\* A restore gives back what its record took.
LEMMA RestoreIsRestore ==
    ASSUME BindingsInv, BindingsInv', MarksInv, [Next]_vars, Restoring
    PROVE  Log!Restore
<1> DEFINE action == preview.revision.action
           cat    == preview.revision.catalog
           plan   == PlanFor(Snapshot, action, cat)
           SB     == StampedBindings(plan)
           saved  == RecordOf(history, action.op).changes
           target == Took(saved)
           table  == RestrictionsIn(bindings)
<1>1. /\ commit = None
      /\ edits \in Nat /\ commits \in Nat /\ edits + commits < MaxOps
      /\ action.kind = "rollback"
      /\ ~plan.conflict
      /\ commit'.bindings = SB
      /\ GoodTable(bindings)
      /\ GoodPlan(bindings, plan)
  BY CommittedFacts DEF Restoring
<1>2. GoodTable(SB)
  BY <1>1, StampedTable
<1>3. /\ action.op \in IdsOf(history)
      /\ GoodChanges(saved)
      /\ Written.source = action.op
  BY RestoringFacts
<1>4. plan = PlanNativeBindingRollback(Snapshot, action, cat)
  BY <1>1 DEF PlanFor
<1>5. Snapshot.bindings = bindings /\ Snapshot.history = history
  BY DEF Snapshot
<1>6. ScopesOf(plan.changes)
        = ScopesOf({c \in saved : ~AlreadyRestored(Snapshot, c)})
  <2> HIDE DEF action, cat
  <2> QED
    BY <1>1, <1>4, <1>5, RestoreLists
<1>7. \A c \in saved : c.scope \in Scopes
  BY <1>3 DEF GoodChanges, Change
<1>8. \A c \in saved : table[c.scope] = RestrictionOf(CurrentOf(bindings, c.scope))
  BY <1>1, <1>7, TableFacts
<1>9. \A c \in saved : AlreadyRestored(Snapshot, c) <=> table[c.scope] = c.before
  BY <1>5, <1>8 DEF AlreadyRestored
<1>10. DOMAIN target = ScopesOf(saved)
  BY DEF Took
<1>11. \A c \in saved : target[c.scope] = c.before
  <2> SUFFICES ASSUME NEW c \in saved PROVE target[c.scope] = c.before
    OBVIOUS
  <2> HIDE DEF saved
  <2>1. (CHOOSE d \in saved : d.scope = c.scope) = c
    BY <1>3 DEF GoodChanges
  <2> QED
    BY <2>1 DEF Took, ScopesOf
<1>12. \A c \in saved : RestrictionsIn(SB)[c.scope] = c.before
  <2>1. \A c \in saved : RestrictionOf(CurrentOf(SB, c.scope)) = c.before
    BY <1>1, <1>3, RestoredTable
  <2> QED
    BY <1>2, <1>7, <2>1, TableFacts
<1> HIDE DEF target, table, saved, plan, SB
<1>13. ScopesOf(plan.changes) = {s \in DOMAIN target : table[s] # target[s]}
  BY <1>6, <1>9, <1>10, <1>11 DEF ScopesOf
<1>14. DOMAIN target \subseteq Scopes
       /\ \A s \in DOMAIN target : RestrictionsIn(SB)[s] = target[s]
  BY <1>7, <1>10, <1>11, <1>12 DEF ScopesOf
<1>15. Log!Operation(target)
  <2> HIDE DEF action, cat
  <2> QED
    BY <1>13, <1>14, CommitIsOperation DEF plan, SB, table, action, cat, Restoring
<1>16. \E o \in OperationsIn(file.history) : o.took = target
  <2>1. history \in Seq(Record) /\ file.history = history
    BY <1>1 DEF BindingsInv, TypeOK, CommitInv
  <2>2. PICK i \in DOMAIN history : RecordOf(history, action.op) = history[i]
    BY <1>3, <2>1, FoundRecord
  <2> DEFINE o == [id |-> history[i].id, took |-> Took(history[i].changes)]
  <2>3. o \in OperationsIn(history) /\ o.took = target
    BY <2>2 DEF OperationsIn, target, saved
  <2> QED
    BY <2>1, <2>3
<1> QED
  BY <1>15, <1>16 DEF Log!Restore

\* An operation whose save fails changes nothing.
LEMMA FailedApply ==
    ASSUME BindingsInv, Apply, commit' = None
    PROVE  file' = file /\ bindings' = bindings
<1> DEFINE plan == PlanFor(Snapshot, preview.revision.action,
                           preview.revision.catalog)
           B == StampedBindings(plan)
           H == NewHistory(preview.revision.action, plan)
<1>1. Save(B, H) /\ bindings' = bindings
  BY DEF Apply
<1>2. GoodTable(B) /\ GoodHistory(H)
  BY AppliedFacts
<1>3. [bindings |-> B, history |-> H] # None
  <2>1. [bindings |-> B, history |-> H] \in Tables
    BY <1>2 DEF GoodTable, GoodHistory, Tables
  <2> QED
    BY <2>1, NoneFacts
<1> QED
  BY <1>1, <1>3 DEF Save

LEMMA StepRefines ==
    ASSUME BindingsInv, BindingsInv', MarksInv, [Next]_vars
    PROVE  [Log!Next]_(Log!vars)
<1> SUFFICES ASSUME ~(UNCHANGED Log!vars) PROVE Log!Next
  OBVIOUS
<1>s. ~(file' = file /\ bindings' = bindings)
  BY DEF Log!vars
<1>1. CASE UNCHANGED vars
  BY <1>1, <1>s DEF vars
<1>2. CASE CreateNativeKeyBinding
  <2>1. PICK id \in BindingIds, s \in Scopes, r \in Restrictions, p \in Policies :
           Edit(bindings \cup {[id |-> id, scope |-> s, restr |-> r, policy |-> p,
                                created |-> Now, updated |-> Now]})
    BY <1>2 DEF CreateNativeKeyBinding
  <2> DEFINE b == [id |-> id, scope |-> s, restr |-> r, policy |-> p,
                   created |-> Now, updated |-> Now]
             B == bindings \cup {b}
  <2>2. b.scope = s /\ Edit(B)
    BY <2>1
  <2> HIDE DEF b
  <2>3. \A d : d.scope # s /\ d.scope # s => (d \in B <=> d \in bindings)
    BY <2>2
  <2> HIDE DEF B
  <2> QED
    BY <2>2, <2>3, EditIsEdit
<1>3. CASE UpdateNativeKeyBinding
  <2>1. PICK b \in bindings :
        \E c \in {[b EXCEPT !.restr = r] : r \in Restrictions} \cup
                 {[b EXCEPT !.policy = p] : p \in Policies} \cup
                 {[b EXCEPT !.scope = s] : s \in Scopes} :
           Edit((bindings \ {b}) \cup {[c EXCEPT !.updated = Now]})
    BY <1>3 DEF UpdateNativeKeyBinding
  <2>2. PICK c \in {[b EXCEPT !.restr = r] : r \in Restrictions} \cup
                   {[b EXCEPT !.policy = p] : p \in Policies} \cup
                   {[b EXCEPT !.scope = s] : s \in Scopes} :
           Edit((bindings \ {b}) \cup {[c EXCEPT !.updated = Now]})
    BY <2>1
  <2> DEFINE d == [c EXCEPT !.updated = Now]
             B == (bindings \ {b}) \cup {d}
  <2>3. b \in Binding /\ b.scope \in Scopes
    BY DEF BindingsInv, TypeOK, Binding
  <2>4. c \in Binding
    <3>1. CASE \E r \in Restrictions : c = [b EXCEPT !.restr = r]
      BY <3>1, <2>3 DEF Binding
    <3>2. CASE \E p \in Policies : c = [b EXCEPT !.policy = p]
      BY <3>2, <2>3 DEF Binding
    <3>3. CASE \E s \in Scopes : c = [b EXCEPT !.scope = s]
      BY <3>3, <2>3 DEF Binding
    <3> QED
      BY <3>1, <3>2, <3>3
  <2>5. d.scope \in Scopes
    BY <2>4 DEF Binding
  <2> HIDE DEF d
  <2>6. \A x : x.scope # b.scope /\ x.scope # d.scope
                 => (x \in B <=> x \in bindings)
    OBVIOUS
  <2>7. Edit(B)
    BY <2>2 DEF d
  <2> HIDE DEF B
  <2> QED
    BY <2>3, <2>5, <2>6, <2>7, EditIsEdit
<1>4. CASE DeleteNativeKeyBinding
  <2>1. PICK b \in bindings : Edit(bindings \ {b})
    BY <1>4 DEF DeleteNativeKeyBinding
  <2>2. b.scope \in Scopes
    BY DEF BindingsInv, TypeOK, Binding
  <2>3. \A x : x.scope # b.scope /\ x.scope # b.scope
                 => (x \in bindings \ {b} <=> x \in bindings)
    OBVIOUS
  <2> QED
    BY <2>1, <2>2, <2>3, EditIsEdit
<1>5. CASE ChangeRules
  BY <1>5, <1>s DEF ChangeRules
<1>6. CASE Preview
  BY <1>6, <1>s DEF Preview
<1>7. CASE Apply
  <2>1. commit = None /\ commits' = commits + 1 /\ commits \in Nat
    BY <1>7 DEF Apply, BindingsInv, TypeOK
  <2>2. commit' # None
    BY <1>7, <1>s, FailedApply
  <2>3. Committing
    BY <2>1, <2>2 DEF Committing
  <2>4. /\ preview.revision.action \in Action
        /\ Written.kind = preview.revision.action.kind
    BY <2>3, CommittedFacts
  <2>5. CASE preview.revision.action.kind = "batch"
    BY <2>3, <2>5, BatchIsBatch DEF Log!Next
  <2>6. CASE preview.revision.action.kind = "rollback"
    BY <2>3, <2>4, <2>6, RestoreIsRestore DEF Log!Next, Restoring
  <2> QED
    BY <2>4, <2>5, <2>6 DEF Action
<1>8. CASE Publish
  <2>1. bindings' = file.bindings /\ file' = file
    BY <1>8 DEF Publish, BindingsInv, CommitInv
  <2> QED
    BY <2>1 DEF Log!Next, Log!Publish
<1>9. CASE Restart
  <2>1. bindings' = file.bindings /\ file' = file
    BY <1>9 DEF Restart
  <2> QED
    BY <2>1 DEF Log!Next, Log!Publish
<1> QED
  BY <1>1, <1>2, <1>3, <1>4, <1>5, <1>6, <1>7, <1>8, <1>9 DEF Next

LEMMA InitRefines == Init => Log!Init
<1> SUFFICES ASSUME Init PROVE Log!Init
  OBVIOUS
<1>1. file = [bindings |-> bindings, history |-> <<>>]
  BY DEF Init
<1>2. GoodTable(bindings)
  BY InvInit, AtRest DEF Init
<1>3. RestrictionsIn(bindings) \in [Scopes -> Restrictions \cup {None}]
  BY <1>2, TableFacts
<1>4. OperationsIn(<<>>) = {}
  BY DEF OperationsIn
<1> QED
  BY <1>1, <1>3, <1>4 DEF Log!Init, Log!Tables

\* Edits, batches and restores are atomic steps of a table and a log, whatever
\* saves fail and whenever the process restarts.
THEOREM BindingsKeepTheLog == Spec => LogSpec
<1>1. BindingsInv /\ BindingsInv' /\ MarksInv /\ [Next]_vars
        => [Log!Next]_(Log!vars)
  BY StepRefines
<1> QED
  BY <1>1, InitRefines, SpecKeepsInv, SpecKeepsMarks, PTL
  DEF Spec, LogSpec, Log!Spec
=============================================================================
