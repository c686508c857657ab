--------------------------- MODULE PricingProofs ---------------------------
(***************************************************************************)
(* Proofs about Pricing, for every set of model ids and aliases, every     *)
(* answer of the two sources and any number of edits and failed writes.    *)
(***************************************************************************)
EXTENDS Pricing, TLAPS

RowTables == [Ids -> RowRecords \cup {NoRow}]
AliasTables == [Aliases -> PricingRecords \cup {NoAlias}]
Items == [alias : Aliases, rec : PricingRecords]

\* The shape of the tables, the files and of what is under way.
PricingType ==
    /\ aliases \in AliasTables /\ stateFile \in AliasTables
    /\ rows \in RowTables /\ deleted \in SUBSET Ids
    /\ file.rows \in RowTables /\ file.deleted \in SUBSET Ids
    /\ op # Idle => \/ op \in [step : {"saving", "writing"}, alias : Aliases]
                    \/ op = [step |-> "stamping"]
    /\ pass \in [Passes -> [step : {"idle", "snap"}]
                           \cup [step : {"stamping"}, todo : SUBSET Items]]
    /\ decided \in [Ids -> RowRecords \cup {NoRow, Open}]
    /\ wish \in [Aliases -> PricingRecords \cup {NoAlias, Open}]
    /\ exposed \in SUBSET Aliases
    /\ known \in [Ids -> Values]

-----------------------------------------------------------------------------
\* The row an alias seeds is a row.
LEMMA SeedType ==
    ASSUME NEW rec \in PricingRecords
    PROVE  /\ SeedRow(rec) \in RowRecords
           /\ SeedRow(rec).status = "priced"
           /\ SeedRow(rec).source = IF rec.manual THEN "alias" ELSE "legacy"
           /\ SeedRow(rec).price = rec.price
  BY DEF SeedRow, Row, RowRecords, PricingRecords, Sources

\* Reconciling the rows with an alias yields rows.
LEMMA ReconciledType ==
    ASSUME rows \in RowTables, NEW al \in AliasTables, NEW a \in Aliases
    PROVE  Reconciled(al, a) \in RowTables
<1> DEFINE kept == Unorphaned(al, rows)
<1>1. kept \in RowTables
  BY DEF Unorphaned, RowTables
<1> HIDE DEF kept
<1>2. CASE ~TokenPriced(al[a])
  BY <1>1, <1>2 DEF Reconciled, kept
<1>3. CASE TokenPriced(al[a])
  <2>1. al[a] \in PricingRecords
    BY <1>3 DEF TokenPriced, AliasTables
  <2>2. SeedRow(al[a]) \in RowRecords
    BY <2>1, SeedType
  <2>3. Claimed(kept, a, al[a]) \in RowTables
    BY <1>1, <2>2 DEF Claimed, RowTables
  <2>4. Offered(kept, a, al[a]) \in RowTables
    BY <1>1, <2>2 DEF Offered, RowTables
  <2>5. QED
    BY <1>3, <2>3, <2>4 DEF Reconciled, kept
<1>4. QED
  BY <1>2, <1>3

\* What a source says about an id it lists is a value, and makes a row.
LEMMA CandidateType ==
    ASSUME NEW lite \in LiteAnswers, NEW dev \in DevAnswers, NEW id \in Ids
    PROVE  /\ lite # Down => lite[id] \in Values
           /\ dev # Down => dev[id] \in Values
           /\ Effective(lite, dev, id) \in RowRecords \cup {NoRow}
<1>1. (lite # Down => lite[id] \in Values) /\ (dev # Down => dev[id] \in Values)
  BY AnswerAssumption DEF Values
<1>2. ASSUME NEW source \in Sources, NEW value \in Values
      PROVE  Candidate(source, value) \in RowRecords
  BY <1>2 DEF Candidate, Row, RowRecords
<1>3. QED
  BY <1>1, <1>2 DEF Effective, Sources

\* Ageing changes the status of a row at most.
LEMMA AgedType ==
    ASSUME NEW row \in RowRecords \cup {NoRow}, NEW lite, NEW dev, NEW id
    PROVE  /\ Aged(row, lite, dev, id) \in RowRecords \cup {NoRow}
           /\ Aged(row, lite, dev, id) = NoRow <=> row = NoRow
           /\ row # NoRow => /\ Aged(row, lite, dev, id).source = row.source
                             /\ Aged(row, lite, dev, id).price = row.price
           /\ row # NoRow /\ row.source \notin Sources
                  => Aged(row, lite, dev, id) = row
<1>1. CASE row = NoRow
  BY <1>1 DEF Aged
<1>2. CASE row # NoRow
  <2>1. row \in RowRecords
    BY <1>2
  <2> DEFINE stale == [row EXCEPT !.status = "stale"]
  <2>2. stale \in RowRecords /\ stale.source = row.source /\ stale.price = row.price
    BY <2>1 DEF RowRecords
  <2>3. stale # NoRow
    BY <2>2, SentinelAssumption
  <2>4. Aged(row, lite, dev, id) \in {row, stale}
    BY DEF Aged
  <2>5. row.source \notin Sources => Aged(row, lite, dev, id) = row
    BY DEF Aged, Sources
  <2> HIDE DEF stale
  <2>6. QED
    BY <1>2, <2>1, <2>2, <2>3, <2>4, <2>5
<1>3. QED
  BY <1>1, <1>2

\* A merge yields rows.
LEMMA MergedType ==
    ASSUME rows \in RowTables, NEW lite \in LiteAnswers, NEW dev \in DevAnswers
    PROVE  Refreshed(lite, dev) \in RowTables /\ Merged(lite, dev) \in RowTables
<1>1. ASSUME NEW id \in Ids
      PROVE  /\ Aged(rows[id], lite, dev, id) \in RowRecords \cup {NoRow}
             /\ Effective(lite, dev, id) \in RowRecords \cup {NoRow}
  BY AgedType, CandidateType DEF RowTables
<1>2. Refreshed(lite, dev) \in RowTables
  BY <1>1 DEF Refreshed, RowTables
<1>3. Merged(lite, dev) \in RowTables
  BY <1>2 DEF Merged, Unshadowed, RowTables
<1>4. QED
  BY <1>2, <1>3

\* An alias is stamped with a value.
LEMMA EntryType ==
    ASSUME rows \in RowTables, NEW a \in Aliases
    PROVE  EntryFor(Entries, a) \in Values
<1>1. ASSUME NEW id \in Ids PROVE Entry(rows[id]) \in Values
  BY DEF Entry, RowTables, RowRecords, Values
<1>2. a \in Ids /\ TargetOf[a] \in Ids
  BY AliasAssumption
<1>3. QED
  BY <1>1, <1>2 DEF EntryFor, Entries

\* A copy is the alias but for its price.
LEMMA CopyType ==
    ASSUME NEW rec \in PricingRecords, NEW price \in Values
    PROVE  /\ [rec EXCEPT !.price = price] \in PricingRecords
           /\ [rec EXCEPT !.price = price] # NoAlias
           /\ [rec EXCEPT !.price = price].manual = rec.manual
           /\ [[rec EXCEPT !.price = price] EXCEPT !.price = Zero]
                  = [rec EXCEPT !.price = Zero]
<1>1. [rec EXCEPT !.price = price] \in PricingRecords
  BY DEF PricingRecords
<1>2. /\ [rec EXCEPT !.price = price].manual = rec.manual
      /\ [[rec EXCEPT !.price = price] EXCEPT !.price = Zero] = [rec EXCEPT !.price = Zero]
  BY DEF PricingRecords
<1>3. QED
  BY <1>1, <1>2, SentinelAssumption

-----------------------------------------------------------------------------
\* What operators decide about rows.

Decided(id) == decided[id] \notin {Open, NoRow}

\* A row an operator decided on is an operator's row and has no tombstone.
DecidedRows ==
    \A id \in Ids : Decided(id) =>
        /\ decided[id].source \in {"manual", "alias"}
        /\ decided[id].status = "priced"
        /\ id \notin deleted /\ id \notin file.deleted

\* While an alias is saved, no decision stands that its rows would overrule;
\* when they are written, they are in place.
DecisionsYield ==
    op # Idle =>
        /\ op.step = "saving" =>
               \A id \in NamesOf(op.alias) :
                   /\ Decided(id) => decided[id].source = "manual"
                   /\ TokenPriced(aliases[op.alias]) /\ aliases[op.alias].manual
                          => decided[id] = Open
        /\ op.step = "writing" /\ TokenPriced(aliases[op.alias])
               /\ aliases[op.alias].manual =>
               \A id \in NamesOf(op.alias) :
                   rows[id] = SeedRow(aliases[op.alias]) /\ id \notin deleted

DecisionInv == DecisionsStand /\ DecidedRows /\ DecisionsYield

-----------------------------------------------------------------------------
\* What operators decide about aliases.

\* The copies that passes will write back.
Todo(p) == IF pass[p].step = "stamping" THEN pass[p].todo ELSE {}

\* No copy of an alias that is not exposed goes against what was decided, or
\* is about to be.
CopiesAgree ==
    \A p \in Passes : \A item \in Todo(p) : item.alias \notin exposed =>
        /\ Agrees(wish[item.alias], item.rec)
        /\ op # Idle /\ op.step \in {"saving", "writing"} /\ op.alias = item.alias
               => Agrees(aliases[item.alias], item.rec)

\* An edit under way has decided nothing yet, and saves before it writes.
EditsSaved ==
    op # Idle =>
        /\ op.step \in {"saving", "writing"} => wish[op.alias] = Open
        /\ op.step = "writing" => stateFile[op.alias] = aliases[op.alias]

AliasInv == AliasesStand /\ CopiesAgree /\ EditsSaved

-----------------------------------------------------------------------------
\* What is known of the sources.

\* No row stands beside a tombstone.
Tombstones == \A id \in deleted : rows[id] = NoRow

\* An id without a LiteLLM row is one that LiteLLM left out, or lost its row.
GapsKnown(rs) ==
    \A id \in Ids :
        rs[id] = NoRow \/ rs[id].source # "litellm" =>
            known[id] = Absent \/ lost[id] # "no"

\* The rows of LiteLLM are its last answer, or stale.
StatusTrue(rs, condition) ==
    \A id \in Ids :
        rs[id] # NoRow /\ rs[id].source = "litellm" =>
            IF rs[id].status = "stale"
            THEN condition = "failed" \/ known[id] = Absent
            ELSE rs[id].price = known[id] /\ condition = "ok"

SourceInv ==
    /\ Tombstones
    /\ GapsKnown(rows) /\ GapsKnown(file.rows)
    /\ StatusTrue(rows, health) /\ StatusTrue(file.rows, file.health)

-----------------------------------------------------------------------------
\* The tables after each kind of step.

\* Every edit of a row keeps the shape of the tables.
LEMMA EditRowType ==
    ASSUME PricingType, NEW id \in Ids, NEW rs \in RowTables, NEW del \in SUBSET Ids,
           NEW decision \in RowRecords \cup {NoRow, Open},
           EditRow(id, rs, del, decision)
    PROVE  PricingType'
<1>1. /\ rows' = rs /\ deleted' = del /\ file'.rows = rs /\ file'.deleted = del
      /\ decided' = [decided EXCEPT ![id] = decision]
      /\ UNCHANGED <<aliases, stateFile, op, pass, wish, exposed, known>>
  BY DEF EditRow, WriteAndPublish
<1>2. decided' \in [Ids -> RowRecords \cup {NoRow, Open}]
  BY <1>1 DEF PricingType
<1>3. QED
  BY <1>1, <1>2 DEF PricingType

\* Three edits change one row each.
LEMMA RowEdits ==
    ASSUME PricingType, RowStep
    PROVE  \E id \in Ids, row \in RowRecords \cup {NoRow},
              decision \in RowRecords \cup {NoRow, Open} :
               /\ decision \in {row, Open}
               /\ row # NoRow => row.source = "manual" /\ row.status = "priced"
               /\ \E del \in {deleted \ {id}, deleted \cup {id}} :
                      /\ row # NoRow => del = deleted \ {id}
                      /\ row = NoRow /\ decision = NoRow => del = deleted \cup {id}
                      /\ EditRow(id, [rows EXCEPT ![id] = row], del, decision)
<1>1. PICK id \in Ids :
          \/ \E price \in Prices \cup {Zero} : UpsertModelPrice(id, price)
          \/ DeleteModelPrice(id)
          \/ RestoreModelPriceAutomatic(id)
  BY DEF RowStep
<1>2. ASSUME NEW price \in Prices \cup {Zero}
      PROVE  /\ Row("manual", "priced", price) \in RowRecords
             /\ Row("manual", "priced", price).source = "manual"
             /\ Row("manual", "priced", price).status = "priced"
  BY DEF Row, RowRecords, Values
<1>3. Open # NoRow
  BY SentinelAssumption
<1>4. CASE \E price \in Prices \cup {Zero} : UpsertModelPrice(id, price)
  <2>1. PICK price \in Prices \cup {Zero} : UpsertModelPrice(id, price)
    BY <1>4
  <2> DEFINE row == Row("manual", "priced", price)
  <2>2. EditRow(id, [rows EXCEPT ![id] = row], deleted \ {id}, row)
    BY <2>1 DEF UpsertModelPrice
  <2>3. row \in RowRecords /\ row.source = "manual" /\ row.status = "priced" /\ row # NoRow
    BY <1>2, SentinelAssumption
  <2> HIDE DEF row
  <2>4. QED
    BY <2>2, <2>3
<1>5. CASE DeleteModelPrice(id)
  BY <1>5 DEF DeleteModelPrice
<1>6. CASE RestoreModelPriceAutomatic(id)
  BY <1>3, <1>6 DEF RestoreModelPriceAutomatic
<1>7. QED
  BY <1>1, <1>4, <1>5, <1>6

\* What the files make of the tables.
LEMMA LoadType ==
    ASSUME PricingType, LoadFiles
    PROVE  /\ aliases' \in AliasTables /\ rows' \in RowTables
           /\ deleted' \in SUBSET Ids
           /\ aliases' = stateFile /\ deleted' = file.deleted /\ health' = file.health
           /\ \A id \in Ids : rows'[id] =
                  IF id \in file.deleted \/ ~Loads(file.rows[id]) THEN NoRow
                  ELSE file.rows[id]
  BY DEF PricingType, LoadFiles, Loaded, RowTables

\* The tables, the files and the work under way always have their shape.
THEOREM PricingTyped == Spec => []PricingType
<1>1. Init => PricingType
  <2> SUFFICES ASSUME Init PROVE PricingType
    OBVIOUS
  <2>1. \A rec \in FirstAliases : rec \in PricingRecords \cup {NoAlias}
    BY FirstAssumption DEF PricingRecords, Values
  <2>2. aliases \in AliasTables /\ stateFile = aliases
    BY <2>1 DEF Init, AliasTables
  <2>3. PICK last \in [Ids -> Aliases] :
            /\ \A id \in Ids :
                (\E a \in Aliases : id \in NamesOf(a) /\ TokenPriced(aliases[a])) =>
                    id \in NamesOf(last[id]) /\ TokenPriced(aliases[last[id]])
            /\ rows = Seeds(aliases, last)
    BY DEF Init
  <2>4. rows \in RowTables
    <3>1. ASSUME NEW id \in Ids, TokenPriced(aliases[last[id]])
          PROVE  SeedRow(aliases[last[id]]) \in RowRecords
      <4>1. aliases[last[id]] \in PricingRecords
        BY <2>2, <3>1 DEF AliasTables, TokenPriced
      <4>2. QED
        BY <4>1, SeedType
    <3>2. QED
      BY <2>3, <3>1 DEF Seeds, RowTables
  <2>5. /\ deleted = {} /\ file.rows = rows /\ file.deleted = deleted
        /\ op = Idle /\ exposed = {}
        /\ pass \in [Passes -> [step : {"idle", "snap"}]]
        /\ decided \in [Ids -> {Open}] /\ wish \in [Aliases -> {Open}]
        /\ known \in [Ids -> {Absent}]
    BY DEF Init, AtRest
  <2>6. pass \in [Passes -> [step : {"idle", "snap"}]
                            \cup [step : {"stamping"}, todo : SUBSET Items]]
    BY <2>5
  <2>7. /\ decided \in [Ids -> RowRecords \cup {NoRow, Open}]
        /\ wish \in [Aliases -> PricingRecords \cup {NoAlias, Open}]
        /\ known \in [Ids -> Values]
    BY <2>5 DEF Values
  <2>8. QED
    BY <2>2, <2>4, <2>5, <2>6, <2>7 DEF PricingType
<1>2. PricingType /\ [Next]_vars => PricingType'
  <2> SUFFICES ASSUME PricingType, [Next]_vars PROVE PricingType'
    OBVIOUS
  <2>1. CASE RowStep
    <3>1. PICK id \in Ids, row \in RowRecords \cup {NoRow},
               decision \in RowRecords \cup {NoRow, Open}, del \in SUBSET Ids :
                   EditRow(id, [rows EXCEPT ![id] = row], del, decision)
      <4>1. \A id \in Ids : {deleted \ {id}, deleted \cup {id}} \subseteq SUBSET Ids
        BY DEF PricingType
      <4>2. QED
        BY <2>1, <4>1, RowEdits
    <3>2. [rows EXCEPT ![id] = row] \in RowTables
      BY DEF PricingType, RowTables
    <3>3. QED
      BY <3>1, <3>2, EditRowType
  <2>2. ASSUME NEW a \in Aliases, NEW rec \in PricingRecords \cup {NoAlias},
               EditAlias(a, rec)
        PROVE  PricingType'
    <3>1. /\ aliases' = [aliases EXCEPT ![a] = rec]
          /\ op' = [step |-> "saving", alias |-> a]
          /\ wish' = [wish EXCEPT ![a] = Open]
          /\ exposed' \in {exposed \cup {a}, exposed \ {a}}
          /\ UNCHANGED <<rows, deleted, stateFile, file, pass, known>>
      BY <2>2 DEF EditAlias, files
    <3>2. decided' \in [Ids -> RowRecords \cup {NoRow, Open}]
      BY <2>2 DEF EditAlias, PricingType
    <3>3. QED
      BY <3>1, <3>2 DEF PricingType, AliasTables
  <2>3. CASE SaveAlias
    <3>1. /\ op \in [step : {"saving", "writing"}, alias : Aliases]
          /\ op.step = "saving"
      BY <2>3 DEF SaveAlias, PricingType
    <3>2. /\ stateFile' = aliases
          /\ rows' = Reconciled(aliases, op.alias)
          /\ deleted' = Lifted(op.alias)
          /\ op' = [op EXCEPT !.step = "writing"]
          /\ UNCHANGED <<aliases, file, pass, wish, exposed, known>>
      BY <2>3 DEF SaveAlias
    <3>3. rows' \in RowTables
      BY <3>1, <3>2, ReconciledType DEF PricingType
    <3>4. deleted' \in SUBSET Ids
      BY <3>2 DEF Lifted, PricingType
    <3>5. op' \in [step : {"saving", "writing"}, alias : Aliases]
      BY <3>1, <3>2
    <3>6. decided' \in [Ids -> RowRecords \cup {NoRow, Open}]
      BY <2>3 DEF SaveAlias, PricingType
    <3>7. QED
      BY <3>2, <3>3, <3>4, <3>5, <3>6 DEF PricingType
  <2>4. CASE WriteAliasPrices
    <3>1. /\ op \in [step : {"saving", "writing"}, alias : Aliases]
          /\ op.alias \in Aliases
      BY <2>4 DEF WriteAliasPrices, PricingType
    <3>2. /\ file'.rows = rows /\ file'.deleted = deleted
          /\ wish' = [wish EXCEPT ![op.alias] = aliases[op.alias]]
          /\ op' = Idle
          /\ UNCHANGED <<aliases, rows, deleted, stateFile, pass, exposed, known>>
      BY <2>4 DEF WriteAliasPrices, tables
    <3>3. TokenPriced(aliases[op.alias]) => SeedRow(aliases[op.alias]) \in RowRecords
      <4>1. TokenPriced(aliases[op.alias]) => aliases[op.alias] \in PricingRecords
        BY <3>1 DEF PricingType, AliasTables, TokenPriced
      <4>2. QED
        BY <4>1, SeedType
    <3>4. decided' \in [Ids -> RowRecords \cup {NoRow, Open}]
      BY <2>4, <3>3 DEF WriteAliasPrices, PricingType
    <3>5. wish' \in [Aliases -> PricingRecords \cup {NoAlias, Open}]
      BY <3>1, <3>2 DEF PricingType, AliasTables
    <3>6. QED
      BY <3>2, <3>4, <3>5 DEF PricingType
  <2>5. CASE WriteFails
    BY <2>5 DEF WriteFails, PricingType, tables, files
  <2>6. ASSUME NEW lite \in LiteAnswers, NEW dev \in DevAnswers, Apply(lite, dev)
        PROVE  PricingType'
    <3>1. /\ rows' = Merged(lite, dev) /\ file'.rows = rows'
          /\ deleted' = deleted /\ file'.deleted = deleted
          /\ UNCHANGED <<aliases, stateFile, op, decided, wish, exposed>>
      BY <2>6 DEF Apply, WriteAndPublish
    <3>2. rows' \in RowTables
      BY <3>1, MergedType DEF PricingType
    <3>3. pass' \in {pass, [pass EXCEPT !["run"] = [step |-> "snap"]]}
      BY <2>6 DEF Apply
    <3>4. pass' \in [Passes -> [step : {"idle", "snap"}]
                               \cup [step : {"stamping"}, todo : SUBSET Items]]
      BY <3>3 DEF PricingType
    <3>5. known' \in [Ids -> Values]
      <4>1. lite # Down => lite \in [Ids -> Values]
        BY AnswerAssumption DEF Values
      <4>2. QED
        BY <2>6, <4>1 DEF Apply, PricingType
    <3>6. QED
      BY <3>1, <3>2, <3>4, <3>5 DEF PricingType
  <2>7. ASSUME NEW p \in Passes, Snap(p) PROVE PricingType'
    <3> DEFINE copy(a) == [aliases[a] EXCEPT !.price = EntryFor(Entries, a)]
               todo == {[alias |-> a, rec |-> copy(a)] : a \in Stampable(Entries)}
    <3>1. \A a \in Stampable(Entries) : a \in Aliases /\ copy(a) \in PricingRecords
      <4>1. \A a \in Stampable(Entries) : a \in Aliases /\ aliases[a] \in PricingRecords
        BY DEF Stampable, Automatic, PricingType, AliasTables
      <4>2. \A a \in Aliases : EntryFor(Entries, a) \in Values
        BY EntryType DEF PricingType
      <4>3. QED
        BY <4>1, <4>2, CopyType
    <3>2. /\ pass' = [pass EXCEPT ![p] = IF todo = {} THEN AtRest
                                         ELSE [step |-> "stamping", todo |-> todo]]
          /\ UNCHANGED <<aliases, rows, deleted, stateFile, file, op, decided, wish,
                         exposed, known>>
      BY <2>7 DEF Snap, tables, files, history
    <3> HIDE DEF copy
    <3>3. todo \in SUBSET Items
      BY <3>1 DEF Items
    <3> HIDE DEF todo
    <3>4. pass' \in [Passes -> [step : {"idle", "snap"}]
                               \cup [step : {"stamping"}, todo : SUBSET Items]]
      BY <3>2, <3>3 DEF PricingType, AtRest
    <3>5. QED
      BY <3>2, <3>4 DEF PricingType
  <2>8. ASSUME NEW p \in Passes, pass[p].step = "stamping", NEW item \in pass[p].todo,
               Stamp(p, item)
        PROVE  PricingType'
    <3>1. pass[p].todo \in SUBSET Items
      BY <2>8 DEF PricingType
    <3>2. item.alias \in Aliases /\ item.rec \in PricingRecords
      BY <2>8, <3>1 DEF Items
    <3>3. /\ aliases' = [aliases EXCEPT ![item.alias] = item.rec]
          /\ pass' = [pass EXCEPT ![p] =
                         IF pass[p].todo = {item} THEN AtRest
                         ELSE [step |-> "stamping", todo |-> pass[p].todo \ {item}]]
          /\ op' = [step |-> "stamping"]
          /\ UNCHANGED <<rows, deleted, stateFile, file, decided, wish, exposed, known>>
      BY <2>8 DEF Stamp, files, history
    <3>4. aliases' \in AliasTables
      BY <3>2, <3>3 DEF PricingType, AliasTables
    <3>5. pass' \in [Passes -> [step : {"idle", "snap"}]
                               \cup [step : {"stamping"}, todo : SUBSET Items]]
      BY <3>1, <3>3 DEF PricingType, AtRest
    <3>6. QED
      BY <3>3, <3>4, <3>5 DEF PricingType
  <2>9. CASE SaveStamp
    BY <2>9 DEF SaveStamp, PricingType, tables, history
  <2>10. CASE Reconfigure
    <3>1. /\ UNCHANGED <<stateFile, file, op, decided, wish, exposed, known>>
          /\ pass' \in {pass, [pass EXCEPT !["configure"] = [step |-> "snap"]]}
          /\ LoadFiles
      BY <2>10 DEF Reconfigure, files
    <3>2. pass' \in [Passes -> [step : {"idle", "snap"}]
                               \cup [step : {"stamping"}, todo : SUBSET Items]]
      BY <3>1 DEF PricingType
    <3>3. QED
      BY <3>1, <3>2, LoadType DEF PricingType
  <2>11. CASE Restart
    <3>1. /\ UNCHANGED <<stateFile, file, decided, wish, exposed, known>>
          /\ op' = Idle
          /\ pass' = [p \in Passes |-> AtRest]
          /\ LoadFiles
      BY <2>11 DEF Restart, files
    <3>2. pass' \in [Passes -> [step : {"idle", "snap"}]
                               \cup [step : {"stamping"}, todo : SUBSET Items]]
      BY <3>1 DEF AtRest
    <3>3. QED
      BY <3>1, <3>2, LoadType DEF PricingType
  <2>12. CASE UNCHANGED vars
    BY <2>12 DEF vars, tables, files, history, PricingType
  <2>13. CASE AliasStep
    <3>1. ASSUME NEW rec \in AliasRecords PROVE rec \in PricingRecords
      <4>1. CASE \E manual \in BOOLEAN, p \in Prices \cup {Zero} :
                     rec = [manual |-> manual, perCall |-> FALSE, price |-> p]
        BY <4>1 DEF PricingRecords, Values
      <4>2. CASE rec = [manual |-> FALSE, perCall |-> TRUE, price |-> Zero]
        BY <4>2 DEF PricingRecords, Values
      <4>3. QED
        BY <3>1, <4>1, <4>2 DEF AliasRecords
    <3>2. QED
      BY <2>2, <2>13, <3>1 DEF AliasStep, UpsertAlias, DeleteAlias
  <2>14. CASE SyncStep
    BY <2>6, <2>7, <2>8, <2>14 DEF SyncStep
  <2>15. CASE WriteStep
    BY <2>3, <2>4, <2>5, <2>9, <2>15 DEF WriteStep
  <2>16. QED
    BY <2>1, <2>10, <2>11, <2>12, <2>13, <2>14, <2>15 DEF Next
<1>3. QED
  BY <1>1, <1>2, PTL DEF Spec

-----------------------------------------------------------------------------
\* A decision that agrees with an automatic alias agrees with its copies.
LEMMA CopyAgrees ==
    ASSUME NEW rec \in PricingRecords, ~rec.manual, NEW price \in Values, NEW decision
    PROVE  /\ Agrees(rec, [rec EXCEPT !.price = price])
           /\ Agrees(decision, rec) => Agrees(decision, [rec EXCEPT !.price = price])
<1> DEFINE copy == [rec EXCEPT !.price = price]
<1>1. /\ copy # NoAlias /\ copy.manual = rec.manual
      /\ [copy EXCEPT !.price = Zero] = [rec EXCEPT !.price = Zero]
      /\ rec # NoAlias
  BY CopyType, SentinelAssumption
<1> HIDE DEF copy
<1>2. QED
  BY <1>1 DEF Agrees, copy

\* An alias stays as an operator last decided through every sync, failed write
\* and reload, unless the edit fell between a pass's copy and its upsert.  The
\* reason is that no pass holds a copy that goes against the decision, and
\* that the state file is written before a decision is acknowledged.
THEOREM AliasDecisionsStand == Spec => []AliasesStand
<1>1. Init => AliasInv
  <2> SUFFICES ASSUME Init PROVE AliasInv
    OBVIOUS
  <2>1. /\ \A a \in Aliases : wish[a] = Open
        /\ op = Idle
        /\ \A p \in Passes : Todo(p) = {}
    BY DEF Init, Todo, AtRest
  <2>2. QED
    BY <2>1 DEF AliasInv, AliasesStand, CopiesAgree, EditsSaved, Agrees
<1>2. AliasInv /\ PricingType /\ [Next]_vars => AliasInv'
  <2> SUFFICES ASSUME AliasesStand, CopiesAgree, EditsSaved, PricingType, [Next]_vars
               PROVE  AliasesStand' /\ CopiesAgree' /\ EditsSaved'
    BY DEF AliasInv
  <2>1. CASE UNCHANGED <<aliases, stateFile, op, pass, wish, exposed>>
    BY <2>1 DEF AliasesStand, CopiesAgree, EditsSaved, Todo
  <2>2. CASE RowStep
    BY <2>1, <2>2
    DEF RowStep, UpsertModelPrice, DeleteModelPrice, RestoreModelPriceAutomatic, EditRow
  <2>3. ASSUME NEW a \in Aliases, NEW rec, EditAlias(a, rec)
        PROVE  AliasesStand' /\ CopiesAgree' /\ EditsSaved'
    <3>1. /\ aliases' = [aliases EXCEPT ![a] = rec]
          /\ op' = [step |-> "saving", alias |-> a]
          /\ wish' = [wish EXCEPT ![a] = Open]
          /\ exposed' = IF a \in Copied THEN exposed \cup {a} ELSE exposed \ {a}
          /\ UNCHANGED <<stateFile, pass>>
      BY <2>3 DEF EditAlias, files
    <3>2. wish'[a] = Open /\ \A b \in Aliases : b # a => /\ wish'[b] = wish[b]
                                                         /\ aliases'[b] = aliases[b]
                                                         /\ b \in exposed' <=> b \in exposed
      BY <3>1 DEF PricingType, AliasTables
    <3>3. AliasesStand'
      BY <3>1, <3>2 DEF AliasesStand, Agrees
    <3>4. EditsSaved'
      BY <3>1, <3>2 DEF EditsSaved
    <3>5. ASSUME NEW p \in Passes, NEW item \in Todo(p) PROVE item.alias \in Copied
      BY <3>5 DEF Todo, Copied
    <3>6. \A p \in Passes : Todo(p)' = Todo(p) /\ Todo(p) \in SUBSET Items
      BY <3>1 DEF Todo, PricingType
    <3>7. ASSUME NEW p \in Passes, NEW item \in Todo(p), item.alias \notin exposed'
          PROVE  item.alias # a /\ item.alias \notin exposed /\ item.alias \in Aliases
      BY <3>1, <3>2, <3>5, <3>6, <3>7 DEF Items
    <3>8. CopiesAgree'
      BY <3>1, <3>2, <3>6, <3>7 DEF CopiesAgree
    <3>9. QED
      BY <3>3, <3>4, <3>8
  <2>4. CASE SaveAlias
    <3>1. /\ op # Idle /\ op.step = "saving" /\ op.alias \in Aliases
          /\ op' = [op EXCEPT !.step = "writing"]
          /\ stateFile' = aliases
          /\ UNCHANGED <<aliases, pass, wish, exposed>>
      BY <2>4 DEF SaveAlias, PricingType
    <3>2. op' # Idle => op'.step = "writing" /\ op'.alias = op.alias
      BY <3>1 DEF PricingType
    <3>3. AliasesStand'
      BY <3>1 DEF AliasesStand
    <3>4. EditsSaved'
      BY <3>1, <3>2 DEF EditsSaved
    <3>5. CopiesAgree'
      BY <3>1, <3>2 DEF CopiesAgree, Todo
    <3>6. QED
      BY <3>3, <3>4, <3>5
  <2>5. CASE WriteAliasPrices
    <3>1. /\ op # Idle /\ op.step = "writing" /\ op.alias \in Aliases
          /\ op' = Idle
          /\ wish' = [wish EXCEPT ![op.alias] = aliases[op.alias]]
          /\ UNCHANGED <<aliases, stateFile, pass, exposed>>
      BY <2>5 DEF WriteAliasPrices, PricingType, tables
    <3>2. /\ wish'[op.alias] = aliases[op.alias]
          /\ \A b \in Aliases : b # op.alias => wish'[b] = wish[b]
      BY <3>1 DEF PricingType
    <3>3. stateFile[op.alias] = aliases[op.alias]
      BY <3>1 DEF EditsSaved
    <3>4. AliasesStand'
      BY <3>1, <3>2, <3>3 DEF AliasesStand, Agrees
    <3>5. EditsSaved'
      BY <3>1 DEF EditsSaved
    <3>6. \A p \in Passes : Todo(p)' = Todo(p) /\ Todo(p) \in SUBSET Items
      BY <3>1 DEF Todo, PricingType
    <3>7. CopiesAgree'
      BY <3>1, <3>2, <3>6 DEF CopiesAgree, Items
    <3>8. QED
      BY <3>4, <3>5, <3>7
  <2>6. CASE WriteFails
    <3>1. op' = Idle /\ UNCHANGED <<aliases, stateFile, pass, wish, exposed>>
      BY <2>6 DEF WriteFails, tables, files
    <3>2. QED
      BY <3>1 DEF AliasesStand, CopiesAgree, EditsSaved, Todo
  <2>7. ASSUME NEW lite, NEW dev, Apply(lite, dev)
        PROVE  AliasesStand' /\ CopiesAgree' /\ EditsSaved'
    <3>1. /\ UNCHANGED <<aliases, stateFile, op, wish, exposed>>
          /\ pass' \in {pass, [pass EXCEPT !["run"] = [step |-> "snap"]]}
      BY <2>7 DEF Apply
    <3>2. \A p \in Passes : Todo(p)' \subseteq Todo(p)
      BY <3>1 DEF Todo, PricingType
    <3>3. QED
      BY <3>1, <3>2 DEF AliasesStand, CopiesAgree, EditsSaved
  <2>8. ASSUME NEW p \in Passes, Snap(p)
        PROVE  AliasesStand' /\ CopiesAgree' /\ EditsSaved'
    <3> DEFINE copy(a) == [aliases[a] EXCEPT !.price = EntryFor(Entries, a)]
               todo == {[alias |-> a, rec |-> copy(a)] : a \in Stampable(Entries)}
    <3>1. /\ pass' = [pass EXCEPT ![p] = IF todo = {} THEN AtRest
                                         ELSE [step |-> "stamping", todo |-> todo]]
          /\ UNCHANGED <<aliases, stateFile, op, wish, exposed>>
      BY <2>8 DEF Snap, tables, files, history
    <3>2. ASSUME NEW a \in Stampable(Entries)
          PROVE  /\ a \in Aliases
                 /\ Agrees(aliases[a], copy(a))
                 /\ a \notin exposed => Agrees(wish[a], copy(a))
      <4>1. a \in Aliases /\ aliases[a] \in PricingRecords /\ ~aliases[a].manual
        BY DEF Stampable, Automatic, PricingType, AliasTables
      <4>2. EntryFor(Entries, a) \in Values
        BY <4>1, EntryType DEF PricingType
      <4>3. a \notin exposed => Agrees(wish[a], aliases[a])
        BY <4>1 DEF AliasesStand
      <4>4. QED
        BY <4>1, <4>2, <4>3, CopyAgrees
    <3> HIDE DEF copy
    <3>3. ASSUME NEW item \in todo
          PROVE  /\ Agrees(aliases[item.alias], item.rec)
                 /\ item.alias \notin exposed => Agrees(wish[item.alias], item.rec)
      <4>1. PICK a \in Stampable(Entries) : item = [alias |-> a, rec |-> copy(a)]
        OBVIOUS
      <4>2. item.alias = a /\ item.rec = copy(a)
        BY <4>1
      <4>3. QED
        BY <3>2, <4>2
    <3> HIDE DEF todo
    <3>4. /\ Todo(p)' \subseteq todo
          /\ \A q \in Passes : q # p => Todo(q)' = Todo(q)
      BY <3>1 DEF Todo, PricingType, AtRest
    <3>5. CopiesAgree'
      BY <3>1, <3>3, <3>4 DEF CopiesAgree
    <3>6. QED
      BY <3>1, <3>5 DEF AliasesStand, EditsSaved
  <2>9. ASSUME NEW p \in Passes, pass[p].step = "stamping", NEW item \in pass[p].todo,
               Stamp(p, item)
        PROVE  AliasesStand' /\ CopiesAgree' /\ EditsSaved'
    <3>1. item \in Todo(p) /\ item.alias \in Aliases
      BY <2>9 DEF Todo, PricingType, Items
    <3>2. /\ aliases' = [aliases EXCEPT ![item.alias] = item.rec]
          /\ pass' = [pass EXCEPT ![p] =
                         IF pass[p].todo = {item} THEN AtRest
                         ELSE [step |-> "stamping", todo |-> pass[p].todo \ {item}]]
          /\ op' = [step |-> "stamping"]
          /\ UNCHANGED <<stateFile, wish, exposed>>
      BY <2>9 DEF Stamp, files, history
    <3>3. item.alias \notin exposed => Agrees(wish[item.alias], item.rec)
      BY <3>1 DEF CopiesAgree
    <3>4. AliasesStand'
      BY <3>1, <3>2, <3>3 DEF AliasesStand, PricingType, AliasTables
    <3>5. \A q \in Passes : Todo(q)' \subseteq Todo(q)
      BY <3>2, <2>9 DEF Todo, PricingType, AtRest
    <3>6. op'.step \notin {"saving", "writing"}
      BY <3>2
    <3>7. CopiesAgree' /\ EditsSaved'
      BY <3>2, <3>5, <3>6 DEF CopiesAgree, EditsSaved
    <3>8. QED
      BY <3>4, <3>7
  <2>10. CASE SaveStamp
    <3>1. /\ op' = Idle /\ stateFile' = aliases
          /\ UNCHANGED <<aliases, pass, wish, exposed>>
      BY <2>10 DEF SaveStamp, tables, history
    <3>2. QED
      BY <3>1 DEF AliasesStand, CopiesAgree, EditsSaved, Todo
  <2>11. CASE Reconfigure
    <3>1. /\ op = Idle /\ aliases' = stateFile
          /\ UNCHANGED <<stateFile, op, wish, exposed>>
          /\ pass' \in {pass, [pass EXCEPT !["configure"] = [step |-> "snap"]]}
      BY <2>11 DEF Reconfigure, LoadFiles, files
    <3>2. \A p \in Passes : Todo(p)' \subseteq Todo(p)
      BY <3>1 DEF Todo, PricingType
    <3>3. QED
      BY <3>1, <3>2 DEF AliasesStand, CopiesAgree, EditsSaved
  <2>12. CASE Restart
    <3>1. /\ op' = Idle /\ aliases' = stateFile
          /\ UNCHANGED <<stateFile, wish, exposed>>
          /\ pass' = [p \in Passes |-> AtRest]
      BY <2>12 DEF Restart, LoadFiles, files
    <3>2. \A p \in Passes : Todo(p)' = {}
      BY <3>1 DEF Todo, AtRest
    <3>3. QED
      BY <3>1, <3>2 DEF AliasesStand, CopiesAgree, EditsSaved
  <2>13. CASE UNCHANGED vars
    BY <2>1, <2>13 DEF vars, tables, files, history
  <2>14. CASE AliasStep
    BY <2>3, <2>14 DEF AliasStep, UpsertAlias, DeleteAlias
  <2>15. CASE SyncStep
    BY <2>7, <2>8, <2>9, <2>15 DEF SyncStep
  <2>16. CASE WriteStep
    BY <2>4, <2>5, <2>6, <2>10, <2>16 DEF WriteStep
  <2>17. QED
    BY <2>2, <2>11, <2>12, <2>13, <2>14, <2>15, <2>16 DEF Next
<1>3. AliasInv => AliasesStand
  BY DEF AliasInv
<1>4. QED
  BY <1>1, <1>2, <1>3, PricingTyped, PTL DEF Spec

-----------------------------------------------------------------------------
\* A merge leaves the rows that operators decided on alone, and those they
\* deleted.
LEMMA MergeKeepsDecisions ==
    ASSUME PricingType, DecisionInv, NEW lite \in LiteAnswers, NEW dev \in DevAnswers,
           NEW id \in Ids, decided[id] # Open
    PROVE  Merged(lite, dev)[id] = rows[id]
<1> DEFINE aged == Aged(rows[id], lite, dev, id)
<1>1. rows[id] = decided[id] /\ rows[id] \in RowRecords \cup {NoRow}
  BY DEF DecisionInv, DecisionsStand, PricingType, RowTables
<1>2. rows[id] # NoRow => rows[id].source \in {"manual", "alias"}
  BY <1>1 DEF DecisionInv, DecidedRows, Decided
<1>3. aged = rows[id]
  BY <1>2 DEF Aged
<1>4. CASE rows[id] = NoRow
  <2>1. id \in deleted
    BY <1>1, <1>4 DEF DecisionInv, DecisionsStand
  <2>2. Refreshed(lite, dev)[id] = NoRow
    BY <1>3, <1>4, <2>1 DEF Refreshed
  <2>3. QED
    BY <1>4, <2>2 DEF Merged, Unshadowed
<1>5. CASE rows[id] # NoRow
  <2>1. ~Replaceable(rows[id], lite, dev, id)
    BY <1>2, <1>5 DEF Replaceable
  <2>2. Refreshed(lite, dev)[id] = rows[id]
    BY <1>3, <2>1 DEF Refreshed
  <2>3. QED
    BY <1>2, <2>2 DEF Merged, Unshadowed
<1>6. QED
  BY <1>4, <1>5

\* Reconciling the rows with the alias that is being saved leaves those rows
\* alone that a decision still stands on afterwards.
LEMMA ReconcileKeepsDecisions ==
    ASSUME PricingType, DecisionInv, SaveAlias, NEW id \in Ids, decided'[id] # Open
    PROVE  /\ decided'[id] = decided[id]
           /\ rows'[id] = rows[id]
           /\ id \in deleted' <=> id \in deleted
<1> DEFINE a == op.alias
           rec == aliases[a]
           kept == Unorphaned(aliases, rows)
<1>1. /\ op # Idle /\ op.step = "saving" /\ a \in Aliases
      /\ rows' = Reconciled(aliases, a)
      /\ deleted' = Lifted(a)
  BY DEF SaveAlias, PricingType
<1>2. /\ decided'[id] = decided[id]
      /\ Decided(id) /\ decided[id].source = "alias" => Owned(aliases, id)
  BY DEF SaveAlias, Decided
<1>3. /\ rows[id] = decided[id]
      /\ decided[id] = NoRow => id \in deleted
      /\ Decided(id) => decided[id].source \in {"manual", "alias"}
  BY <1>2 DEF DecisionInv, DecisionsStand, DecidedRows
<1>4. kept[id] = rows[id]
  BY <1>2, <1>3 DEF Unorphaned, Decided
<1>5. id \in NamesOf(a) => /\ Decided(id) => decided[id].source = "manual"
                           /\ ~(TokenPriced(rec) /\ rec.manual)
  BY <1>1, <1>2 DEF DecisionInv, DecisionsYield
<1> HIDE DEF kept
<1>6. Claimed(kept, a, rec)[id] = rows[id] \/ id \in NamesOf(a)
  BY <1>4 DEF Claimed
<1>7. Offered(kept, a, rec)[id] = rows[id]
  BY <1>2, <1>3, <1>4, <1>5 DEF Offered, Decided, Sourced, Sources
<1>8. rows'[id] = rows[id]
  BY <1>1, <1>4, <1>5, <1>6, <1>7 DEF Reconciled, kept
<1>9. id \in deleted' <=> id \in deleted
  BY <1>1, <1>5 DEF Lifted
<1>10. QED
  BY <1>2, <1>8, <1>9

\* The row an operator last decided on stands in memory and in the file,
\* through syncs, alias edits, failed writes and restarts.  The reason is that
\* an operator's row is never one that a merge may replace, and that an alias
\* whose rows would overrule a decision has reopened it before it is saved.
THEOREM RowDecisionsStand == Spec => []DecisionsStand
<1>1. Init => DecisionInv
  <2> SUFFICES ASSUME Init PROVE DecisionInv
    OBVIOUS
  <2>1. op = Idle /\ \A id \in Ids : decided[id] = Open
    BY DEF Init
  <2>2. QED
    BY <2>1 DEF DecisionInv, DecisionsStand, DecidedRows, DecisionsYield, Decided
<1>2. DecisionInv /\ PricingType /\ [Next]_vars => DecisionInv'
  <2> SUFFICES ASSUME DecisionInv, PricingType, [Next]_vars PROVE DecisionInv'
    OBVIOUS
  <2>0. DecisionsStand /\ DecidedRows /\ DecisionsYield
    BY DEF DecisionInv
  <2>1. CASE UNCHANGED <<rows, deleted, file, decided, aliases, op>>
    BY <2>0, <2>1 DEF DecisionInv, DecisionsStand, DecidedRows, DecisionsYield, Decided
  <2>2. ASSUME op' = Idle PROVE DecisionsYield'
    BY <2>2 DEF DecisionsYield
  <2>3. CASE RowStep
    <3>1. PICK id \in Ids, row \in RowRecords \cup {NoRow},
               decision \in RowRecords \cup {NoRow, Open} :
               /\ decision \in {row, Open}
               /\ row # NoRow => row.source = "manual" /\ row.status = "priced"
               /\ \E del \in {deleted \ {id}, deleted \cup {id}} :
                      /\ row # NoRow => del = deleted \ {id}
                      /\ row = NoRow /\ decision = NoRow => del = deleted \cup {id}
                      /\ EditRow(id, [rows EXCEPT ![id] = row], del, decision)
      BY <2>3, RowEdits
    <3>2. PICK del \in {deleted \ {id}, deleted \cup {id}} :
              /\ row # NoRow => del = deleted \ {id}
              /\ row = NoRow /\ decision = NoRow => del = deleted \cup {id}
              /\ EditRow(id, [rows EXCEPT ![id] = row], del, decision)
      BY <3>1
    <3>3. /\ op = Idle /\ op' = Idle
          /\ rows' = [rows EXCEPT ![id] = row] /\ file'.rows = rows'
          /\ deleted' = del /\ file'.deleted = del
          /\ decided' = [decided EXCEPT ![id] = decision]
      BY <3>2 DEF EditRow, WriteAndPublish
    <3>4. /\ decided'[id] = decision /\ rows'[id] = row
          /\ \A other \in Ids : other # id => /\ decided'[other] = decided[other]
                                              /\ rows'[other] = rows[other]
                                              /\ other \in deleted' <=> other \in deleted
      BY <3>2, <3>3 DEF PricingType, RowTables
    <3>5. DecisionsStand'
      BY <2>0, <3>1, <3>2, <3>3, <3>4 DEF DecisionsStand
    <3>6. DecidedRows'
      BY <2>0, <3>1, <3>2, <3>3, <3>4 DEF DecidedRows, Decided
    <3>7. QED
      BY <2>2, <3>3, <3>5, <3>6 DEF DecisionInv
  <2>4. ASSUME NEW a \in Aliases, NEW rec, EditAlias(a, rec) PROVE DecisionInv'
    <3>1. /\ aliases' = [aliases EXCEPT ![a] = rec]
          /\ op' = [step |-> "saving", alias |-> a]
          /\ decided' = [id \in Ids |->
                 IF /\ id \in NamesOf(a)
                    /\ \/ TokenPriced(rec) /\ rec.manual
                       \/ decided[id] \notin {Open, NoRow} /\ decided[id].source = "alias"
                 THEN Open ELSE decided[id]]
          /\ UNCHANGED <<rows, deleted, file>>
      BY <2>4 DEF EditAlias, files
    <3>2. aliases'[a] = rec /\ op'.step = "saving" /\ op'.alias = a
      BY <3>1 DEF PricingType, AliasTables
    <3>3. DecisionsStand' /\ DecidedRows'
      BY <2>0, <3>1 DEF DecisionsStand, DecidedRows, Decided
    <3>4. NamesOf(a) \subseteq Ids
      BY AliasAssumption DEF NamesOf
    <3>5. ASSUME NEW id \in NamesOf(a)
          PROVE  /\ Decided(id)' => decided'[id].source = "manual"
                 /\ TokenPriced(rec) /\ rec.manual => decided'[id] = Open
      BY <2>0, <3>1, <3>4 DEF DecidedRows, Decided
    <3>6. DecisionsYield'
      BY <3>2, <3>5 DEF DecisionsYield
    <3>7. QED
      BY <3>3, <3>6 DEF DecisionInv
  <2>5. CASE SaveAlias
    <3>1. /\ op # Idle /\ op.step = "saving" /\ op.alias \in Aliases
          /\ op' = [op EXCEPT !.step = "writing"]
          /\ rows' = Reconciled(aliases, op.alias)
          /\ deleted' = Lifted(op.alias)
          /\ UNCHANGED <<aliases, file>>
      BY <2>5 DEF SaveAlias, PricingType
    <3>2. op' # Idle => op'.step = "writing" /\ op'.alias = op.alias
      BY <3>1 DEF PricingType
    <3>3. DecisionsStand'
      BY <2>0, <2>5, <3>1, ReconcileKeepsDecisions DEF DecisionsStand
    <3>4. DecidedRows'
      BY <2>0, <2>5, <3>1, ReconcileKeepsDecisions DEF DecidedRows, Decided
    <3>5. ASSUME TokenPriced(aliases[op.alias]), aliases[op.alias].manual,
                 NEW id \in NamesOf(op.alias)
          PROVE  rows'[id] = SeedRow(aliases[op.alias]) /\ id \notin deleted'
      <4>1. id \in Ids
        BY <3>1, AliasAssumption DEF NamesOf
      <4>2. QED
        BY <3>1, <3>5, <4>1 DEF Reconciled, Claimed, Lifted
    <3>6. DecisionsYield'
      BY <3>1, <3>2, <3>5 DEF DecisionsYield
    <3>7. QED
      BY <3>3, <3>4, <3>6 DEF DecisionInv
  <2>6. CASE WriteAliasPrices
    <3> DEFINE rec == aliases[op.alias]
               owned(id) == id \in NamesOf(op.alias) /\ TokenPriced(rec) /\ rec.manual
    <3>1. /\ op # Idle /\ op.step = "writing" /\ op.alias \in Aliases
          /\ op' = Idle
          /\ file'.rows = rows /\ file'.deleted = deleted
          /\ decided' = [id \in Ids |-> IF owned(id) THEN SeedRow(rec) ELSE decided[id]]
          /\ UNCHANGED <<rows, deleted>>
      BY <2>6 DEF WriteAliasPrices, PricingType, tables
    <3>2. ASSUME NEW id \in Ids, owned(id)
          PROVE  /\ rows[id] = SeedRow(rec) /\ id \notin deleted
                 /\ SeedRow(rec) # NoRow
                 /\ SeedRow(rec).source = "alias" /\ SeedRow(rec).status = "priced"
      <4>1. rec \in PricingRecords /\ rec.manual
        BY <3>1, <3>2 DEF PricingType, AliasTables, TokenPriced
      <4>2. rows[id] = SeedRow(rec) /\ id \notin deleted
        BY <2>0, <3>1, <3>2 DEF DecisionsYield
      <4>3. QED
        BY <4>1, <4>2, SeedType, SentinelAssumption
    <3> HIDE DEF rec, owned
    <3>3. DecisionsStand'
      BY <2>0, <3>1, <3>2 DEF DecisionsStand
    <3>4. DecidedRows'
      BY <2>0, <3>1, <3>2 DEF DecidedRows, Decided
    <3>5. QED
      BY <2>2, <3>1, <3>3, <3>4 DEF DecisionInv
  <2>7. CASE WriteFails \/ SaveStamp
    <3>1. op' = Idle /\ UNCHANGED <<rows, deleted, file, decided>>
      BY <2>7 DEF WriteFails, SaveStamp, tables, files, history
    <3>2. QED
      BY <2>0, <2>2, <3>1 DEF DecisionInv, DecisionsStand, DecidedRows, Decided
  <2>8. ASSUME NEW lite \in LiteAnswers, NEW dev \in DevAnswers, Apply(lite, dev)
        PROVE  DecisionInv'
    <3>1. /\ rows' = Merged(lite, dev) /\ file'.rows = rows'
          /\ deleted' = deleted /\ file'.deleted = deleted
          /\ op = Idle /\ op' = Idle
          /\ decided' = decided
      BY <2>8 DEF Apply, WriteAndPublish
    <3>2. \A id \in Ids : decided[id] # Open => rows'[id] = rows[id]
      BY <3>1, MergeKeepsDecisions
    <3>3. DecisionsStand' /\ DecidedRows'
      BY <2>0, <3>1, <3>2, SentinelAssumption DEF DecisionsStand, DecidedRows, Decided
    <3>4. QED
      BY <2>2, <3>1, <3>3 DEF DecisionInv
  <2>9. ASSUME NEW p \in Passes, Snap(p) PROVE DecisionInv'
    BY <2>1, <2>9 DEF Snap, tables, files, history
  <2>10. ASSUME NEW p \in Passes, NEW item, Stamp(p, item) PROVE DecisionInv'
    <3>1. /\ op' = [step |-> "stamping"]
          /\ UNCHANGED <<rows, deleted, file, decided>>
      BY <2>10 DEF Stamp, files, history
    <3>2. op'.step = "stamping"
      BY <3>1
    <3>3. QED
      BY <2>0, <3>1, <3>2
      DEF DecisionInv, DecisionsStand, DecidedRows, DecisionsYield, Decided
  <2>11. CASE Reconfigure \/ Restart
    <3>1. LoadFiles /\ op' = Idle /\ UNCHANGED <<file, decided>>
      BY <2>11 DEF Reconfigure, Restart, files
    <3>2. ASSUME NEW id \in Ids, decided[id] # Open PROVE rows'[id] = decided[id]
      <4>1. file.rows[id] = decided[id]
        BY <2>0, <3>2 DEF DecisionsStand
      <4>2. Decided(id) => id \notin file.deleted /\ decided[id].status # "stale"
        BY <2>0 DEF DecidedRows
      <4>3. QED
        BY <3>1, <3>2, <4>1, <4>2, LoadType DEF Decided, Loads
    <3>3. DecisionsStand'
      BY <2>0, <3>1, <3>2, LoadType DEF DecisionsStand
    <3>4. DecidedRows'
      BY <2>0, <3>1, LoadType DEF DecidedRows, Decided
    <3>5. QED
      BY <2>2, <3>1, <3>3, <3>4 DEF DecisionInv
  <2>12. CASE UNCHANGED vars
    BY <2>1, <2>12 DEF vars, tables, files, history
  <2>13. CASE AliasStep
    BY <2>4, <2>13 DEF AliasStep, UpsertAlias, DeleteAlias
  <2>14. CASE SyncStep
    BY <2>8, <2>9, <2>10, <2>14 DEF SyncStep
  <2>15. CASE WriteStep
    BY <2>5, <2>6, <2>7, <2>15 DEF WriteStep
  <2>16. QED
    BY <2>3, <2>11, <2>12, <2>13, <2>14, <2>15 DEF Next
<1>3. DecisionInv => DecisionsStand
  BY DEF DecisionInv
<1>4. QED
  BY <1>1, <1>2, <1>3, PricingTyped, PTL DEF Spec

-----------------------------------------------------------------------------
\* What becomes of an id in a merge.
LEMMA MergeOutcome ==
    ASSUME PricingType, Tombstones, NEW lite \in LiteAnswers, NEW dev \in DevAnswers,
           NEW id \in Ids
    PROVE  LET new == Merged(lite, dev)[id] IN
           /\ id \in deleted => new = NoRow
           /\ Lists(lite, id) /\ new # NoRow =>
                  \/ new = Candidate("litellm", lite[id])
                  \/ new.source \notin Sources
           /\ ~Lists(lite, id) /\ new # NoRow /\ new.source = "litellm" =>
                  new.status = "stale"
           /\ lite = Down /\ (new = NoRow \/ new.source # "litellm") =>
                  rows[id] = NoRow \/ rows[id].source # "litellm"
<1> DEFINE row  == rows[id]
           aged == Aged(row, lite, dev, id)
           cand == Effective(lite, dev, id)
           mid  == Refreshed(lite, dev)[id]
           new  == Merged(lite, dev)[id]
<1>1. row \in RowRecords \cup {NoRow} /\ (id \in deleted => row = NoRow)
  BY DEF PricingType, RowTables, Tombstones
<1>2. /\ aged = NoRow <=> row = NoRow
      /\ row # NoRow => aged.source = row.source
      /\ row # NoRow /\ row.source = "litellm" /\ ~Lists(lite, id)
             => aged.status = "stale"
  <2>1. /\ aged = NoRow <=> row = NoRow
        /\ row # NoRow => aged.source = row.source
    BY <1>1, AgedType
  <2>2. row # NoRow /\ row.source = "litellm" /\ ~Lists(lite, id)
            => aged.status = "stale"
    <3>1. ASSUME row \in RowRecords, row.source = "litellm", ~Lists(lite, id)
          PROVE  aged.status = "stale"
      <4>1. aged = [row EXCEPT !.status = "stale"]
        BY <1>1, <3>1, SentinelAssumption DEF Aged
      <4>2. QED
        BY <3>1, <4>1 DEF RowRecords
    <3>2. QED
      BY <1>1, <3>1
  <2>3. QED
    BY <2>1, <2>2
<1>3. mid = IF cand # NoRow /\ id \notin deleted /\ Replaceable(aged, lite, dev, id)
            THEN cand ELSE aged
  BY DEF Refreshed
<1>4. /\ new = mid \/ (new = NoRow /\ mid # NoRow /\ mid.source = "legacy")
      /\ mid = NoRow => new = NoRow
  BY DEF Merged, Unshadowed
<1>5. \A source \in Sources, value \in Values :
          /\ Candidate(source, value) \in RowRecords
          /\ Candidate(source, value).source = source
          /\ Candidate(source, value) # NoRow
  BY SentinelAssumption DEF Candidate, Row, RowRecords
<1>6. /\ Lists(lite, id) => /\ cand = Candidate("litellm", lite[id])
                            /\ cand # NoRow
      /\ ~Lists(lite, id) /\ cand # NoRow => cand.source = "models.dev"
  BY <1>5, CandidateType DEF Effective, Lists, Sources
<1>7. id \in deleted => new = NoRow
  BY <1>1, <1>2, <1>3, <1>4
<1>8. ASSUME Lists(lite, id), new # NoRow
      PROVE  new = Candidate("litellm", lite[id]) \/ new.source \notin Sources
  <2>1. new = mid /\ id \notin deleted
    BY <1>4, <1>7, <1>8
  <2>2. CASE Replaceable(aged, lite, dev, id)
    BY <1>3, <1>6, <1>8, <2>1, <2>2
  <2>3. CASE ~Replaceable(aged, lite, dev, id)
    <3>1. mid = aged /\ aged # NoRow
      BY <1>3, <1>8, <2>1, <2>3
    <3>2. aged.source # "models.dev" /\ ~(aged.source = "litellm" /\ lite # Down)
      BY <2>3 DEF Replaceable
    <3>3. QED
      BY <1>8, <2>1, <3>1, <3>2 DEF Lists, Sources
  <2>4. QED
    BY <2>2, <2>3
<1>9. ASSUME ~Lists(lite, id), new # NoRow, new.source = "litellm"
      PROVE  new.status = "stale"
  <2>1. mid = aged /\ new = mid /\ aged # NoRow
    BY <1>3, <1>4, <1>6, <1>9
  <2>2. QED
    BY <1>2, <1>9, <2>1
<1>10. ASSUME lite = Down, row # NoRow, row.source = "litellm"
       PROVE  new # NoRow /\ new.source = "litellm"
  <2>1. aged # NoRow /\ aged.source = "litellm"
    BY <1>2, <1>10
  <2>2. ~Replaceable(aged, lite, dev, id)
    BY <1>10, <2>1 DEF Replaceable
  <2>3. QED
    BY <1>3, <1>4, <2>1, <2>2
<1>11. QED
  BY <1>7, <1>8, <1>9, <1>10

\* An alias edit takes LiteLLM rows away or leaves them; it makes none, puts
\* none of models.dev, and respects the tombstones that it does not lift.
LEMMA ReconcileOutcome ==
    ASSUME PricingType, Tombstones, NEW a \in Aliases, NEW id \in Ids
    PROVE  LET new == Reconciled(aliases, a)[id] IN
           /\ new # NoRow /\ new.source \in Sources => new = rows[id]
           /\ id \in Lifted(a) => new = NoRow
<1> DEFINE rec  == aliases[a]
           kept == Unorphaned(aliases, rows)
<1>1. kept[id] \in {rows[id], NoRow}
  BY DEF Unorphaned
<1>2. id \in deleted => kept[id] = NoRow
  BY <1>1 DEF Tombstones
<1> HIDE DEF kept
<1>3. TokenPriced(rec) => /\ SeedRow(rec).source = IF rec.manual THEN "alias" ELSE "legacy"
                          /\ rec \in PricingRecords
  <2>1. TokenPriced(rec) => rec \in PricingRecords
    BY DEF PricingType, AliasTables, TokenPriced
  <2>2. QED
    BY <2>1, SeedType
<1>4. CASE ~TokenPriced(rec)
  BY <1>1, <1>2, <1>4 DEF Reconciled, Lifted, kept
<1>5. CASE TokenPriced(rec) /\ rec.manual
  <2>1. Reconciled(aliases, a)[id] = IF id \in NamesOf(a) THEN SeedRow(rec) ELSE kept[id]
    BY <1>5 DEF Reconciled, Claimed, kept
  <2>2. QED
    BY <1>1, <1>2, <1>3, <1>5, <2>1 DEF Lifted, Sources
<1>6. CASE TokenPriced(rec) /\ ~rec.manual
  <2>1. Reconciled(aliases, a)[id] = Offered(kept, a, rec)[id]
    BY <1>6 DEF Reconciled, kept
  <2>2. Offered(kept, a, rec)[id] \in {kept[id], NoRow, SeedRow(rec)}
    BY DEF Offered
  <2>3. id \in deleted => Offered(kept, a, rec)[id] = NoRow
    BY <1>2 DEF Offered
  <2>4. QED
    BY <1>1, <1>3, <1>6, <2>1, <2>2, <2>3 DEF Lifted, Sources
<1>7. QED
  BY <1>4, <1>5, <1>6

\* The invariant is what the two properties say of memory and of the file.
LEMMA SourceProperties == SourceInv => FallbackFillsGaps /\ StaleMeansOld
<1> SUFFICES ASSUME SourceInv PROVE FallbackFillsGaps /\ StaleMeansOld
  OBVIOUS
<1>1. ASSUME NEW c \in Catalogues
      PROVE  \/ c.rows = rows /\ c.health = health
             \/ c.rows = file.rows /\ c.health = file.health
  BY DEF Catalogues
<1>2. FallbackFillsGaps
  BY <1>1 DEF SourceInv, GapsKnown, FallbackFillsGaps
<1>3. StaleMeansOld
  BY <1>1 DEF SourceInv, StatusTrue, StaleMeansOld
<1>4. QED
  BY <1>2, <1>3

\* Every state has the invariant of the sources.
LEMMA SourceInvariant == Spec => []SourceInv
<1>1. Init => SourceInv
  <2> SUFFICES ASSUME Init PROVE SourceInv
    OBVIOUS
  <2>1. /\ deleted = {} /\ file.rows = rows
        /\ \A id \in Ids : known[id] = Absent
    BY DEF Init
  <2>2. PICK last \in [Ids -> Aliases] :
            /\ \A id \in Ids :
                (\E a \in Aliases : id \in NamesOf(a) /\ TokenPriced(aliases[a])) =>
                    id \in NamesOf(last[id]) /\ TokenPriced(aliases[last[id]])
            /\ rows = Seeds(aliases, last)
    BY DEF Init
  <2>3. ASSUME NEW id \in Ids, rows[id] # NoRow PROVE rows[id].source # "litellm"
    BY <2>2, <2>3 DEF Seeds, SeedRow, Row
  <2>4. QED
    BY <2>1, <2>3 DEF SourceInv, Tombstones, GapsKnown, StatusTrue
<1>2. SourceInv /\ PricingType /\ [Next]_vars => SourceInv'
  <2> SUFFICES ASSUME SourceInv, PricingType, [Next]_vars PROVE SourceInv'
    OBVIOUS
  <2>0. /\ Tombstones /\ GapsKnown(rows) /\ GapsKnown(file.rows)
        /\ StatusTrue(rows, health) /\ StatusTrue(file.rows, file.health)
    BY DEF SourceInv
  <2>1. CASE UNCHANGED <<rows, deleted, health, file, known, lost>>
    BY <2>0, <2>1 DEF SourceInv, Tombstones, GapsKnown, StatusTrue
  <2>2. CASE RowStep
    <3>1. PICK id \in Ids, row \in RowRecords \cup {NoRow},
               decision \in RowRecords \cup {NoRow, Open}, del \in SUBSET Ids :
              /\ row # NoRow => row.source = "manual" /\ id \notin del
              /\ del \ {id} = deleted \ {id}
              /\ EditRow(id, [rows EXCEPT ![id] = row], del, decision)
      <4>1. PICK id \in Ids, row \in RowRecords \cup {NoRow},
                 decision \in RowRecords \cup {NoRow, Open} :
                 /\ row # NoRow => row.source = "manual"
                 /\ \E del \in {deleted \ {id}, deleted \cup {id}} :
                        /\ row # NoRow => del = deleted \ {id}
                        /\ EditRow(id, [rows EXCEPT ![id] = row], del, decision)
        BY <2>2, RowEdits
      <4>2. \A del \in {deleted \ {id}, deleted \cup {id}} :
                del \in SUBSET Ids /\ del \ {id} = deleted \ {id}
        BY DEF PricingType
      <4>3. QED
        BY <4>1, <4>2
    <3>2. /\ rows' = [rows EXCEPT ![id] = row] /\ file'.rows = rows'
          /\ health' = health /\ file'.health = health
          /\ deleted' = del /\ known' = known
          /\ lost' = LostTo([rows EXCEPT ![id] = row], "edit")
      BY <3>1 DEF EditRow, WriteAndPublish
    <3>3. /\ rows'[id] = row
          /\ \A other \in Ids : other # id => rows'[other] = rows[other]
      BY <3>2 DEF PricingType, RowTables
    <3>4. Tombstones'
      BY <2>0, <3>1, <3>2, <3>3 DEF Tombstones
    <3>5. GapsKnown(rows)'
      BY <2>0, <3>2, <3>3 DEF GapsKnown, LostTo
    <3>6. StatusTrue(rows, health)'
      BY <2>0, <3>1, <3>2, <3>3 DEF StatusTrue
    <3>7. GapsKnown(file.rows)' /\ StatusTrue(file.rows, file.health)'
      BY <3>2, <3>5, <3>6 DEF GapsKnown, StatusTrue
    <3>8. QED
      BY <3>4, <3>5, <3>6, <3>7 DEF SourceInv
  <2>3. ASSUME NEW a \in Aliases, NEW rec, EditAlias(a, rec) PROVE SourceInv'
    BY <2>1, <2>3 DEF EditAlias, files
  <2>4. CASE SaveAlias
    <3>1. /\ op.alias \in Aliases
          /\ rows' = Reconciled(aliases, op.alias) /\ deleted' = Lifted(op.alias)
          /\ lost' = LostTo(rows', "edit")
          /\ UNCHANGED <<health, file, known>>
      BY <2>4 DEF SaveAlias, PricingType
    <3>2. ASSUME NEW id \in Ids
          PROVE  /\ rows'[id] # NoRow /\ rows'[id].source \in Sources
                        => rows'[id] = rows[id]
                 /\ id \in deleted' => rows'[id] = NoRow
      BY <2>0, <3>1, ReconcileOutcome
    <3>3. deleted' \subseteq Ids
      BY <3>1 DEF Lifted, PricingType
    <3>4. Tombstones'
      BY <3>2, <3>3 DEF Tombstones
    <3>5. GapsKnown(rows)' /\ GapsKnown(file.rows)'
      BY <2>0, <3>1 DEF GapsKnown, LostTo
    <3>6. StatusTrue(rows, health)' /\ StatusTrue(file.rows, file.health)'
      BY <2>0, <3>1, <3>2 DEF StatusTrue, Sources
    <3>7. QED
      BY <3>4, <3>5, <3>6 DEF SourceInv
  <2>5. CASE WriteAliasPrices
    <3>1. /\ file'.rows = rows /\ file'.health = health
          /\ UNCHANGED <<rows, deleted, health, known, lost>>
      BY <2>5 DEF WriteAliasPrices, tables
    <3>2. QED
      BY <2>0, <3>1 DEF SourceInv, Tombstones, GapsKnown, StatusTrue
  <2>6. CASE WriteFails \/ SaveStamp
    BY <2>1, <2>6 DEF WriteFails, SaveStamp, tables, files, history
  <2>7. ASSUME NEW lite \in LiteAnswers, NEW dev \in DevAnswers, Apply(lite, dev)
        PROVE  SourceInv'
    <3>1. /\ rows' = Merged(lite, dev) /\ file'.rows = rows'
          /\ health' = Health(lite) /\ file'.health = health'
          /\ deleted' = deleted
          /\ known' = IF lite = Down THEN known ELSE lite
          /\ lost' = IF lite = Down THEN lost ELSE Missed(rows', lite)
      BY <2>7 DEF Apply, WriteAndPublish
    <3>2. Tombstones'
      BY <2>0, <3>1, MergeOutcome DEF Tombstones, PricingType
    <3>3. ASSUME NEW id \in Ids, rows'[id] = NoRow \/ rows'[id].source # "litellm"
          PROVE  known'[id] = Absent \/ lost'[id] # "no"
      <4>1. CASE lite = Down
        <5>1. rows[id] = NoRow \/ rows[id].source # "litellm"
          BY <2>0, <3>1, <3>3, <4>1, MergeOutcome
        <5>2. QED
          BY <2>0, <3>1, <4>1, <5>1 DEF GapsKnown
      <4>2. CASE lite # Down
        BY <3>1, <3>3, <4>2 DEF Missed
      <4>3. QED
        BY <4>1, <4>2
    <3>4. ASSUME NEW id \in Ids, rows'[id] # NoRow, rows'[id].source = "litellm"
          PROVE  IF rows'[id].status = "stale"
                 THEN health' = "failed" \/ known'[id] = Absent
                 ELSE rows'[id].price = known'[id] /\ health' = "ok"
      <4>1. CASE Lists(lite, id)
        <5>1. rows'[id] = Candidate("litellm", lite[id])
          BY <2>0, <3>1, <3>4, <4>1, MergeOutcome DEF Sources
        <5>2. rows'[id].status # "stale" /\ rows'[id].price = lite[id]
          BY <5>1 DEF Candidate, Row
        <5>3. QED
          BY <3>1, <4>1, <5>2 DEF Lists, Health
      <4>2. CASE ~Lists(lite, id)
        <5>1. rows'[id].status = "stale"
          BY <2>0, <3>1, <3>4, <4>2, MergeOutcome
        <5>2. QED
          BY <3>1, <4>2, <5>1 DEF Lists, Health
      <4>3. QED
        BY <4>1, <4>2
    <3>5. GapsKnown(rows)' /\ StatusTrue(rows, health)'
      BY <3>3, <3>4 DEF GapsKnown, StatusTrue
    <3>6. GapsKnown(file.rows)' /\ StatusTrue(file.rows, file.health)'
      BY <3>1, <3>5 DEF GapsKnown, StatusTrue
    <3>7. QED
      BY <3>2, <3>5, <3>6 DEF SourceInv
  <2>8. ASSUME NEW p \in Passes, NEW item, Snap(p) \/ Stamp(p, item) PROVE SourceInv'
    BY <2>1, <2>8 DEF Snap, Stamp, tables, files, history
  <2>9. CASE Reconfigure \/ Restart
    <3>1. LoadFiles /\ UNCHANGED <<file, known>>
      BY <2>9 DEF Reconfigure, Restart, files
    <3>2. lost' = [id \in Ids |->
              IF file.rows[id] # NoRow /\ file.rows[id].source = "litellm"
                 /\ rows'[id] = NoRow
              THEN "reload" ELSE lost[id]]
      BY <3>1 DEF LoadFiles
    <3>3. \A id \in Ids : rows'[id] \in {NoRow, file.rows[id]}
      BY <3>1, LoadType
    <3>4. Tombstones'
      BY <3>1, LoadType DEF Tombstones
    <3>5. GapsKnown(rows)' /\ GapsKnown(file.rows)'
      BY <2>0, <3>1, <3>2, <3>3 DEF GapsKnown
    <3>6. StatusTrue(rows, health)' /\ StatusTrue(file.rows, file.health)'
      BY <2>0, <3>1, <3>3, LoadType DEF StatusTrue
    <3>7. QED
      BY <3>4, <3>5, <3>6 DEF SourceInv
  <2>10. CASE UNCHANGED vars
    BY <2>1, <2>10 DEF vars, tables, files, history
  <2>11. CASE AliasStep
    BY <2>3, <2>11 DEF AliasStep, UpsertAlias, DeleteAlias
  <2>12. CASE SyncStep
    BY <2>7, <2>8, <2>12 DEF SyncStep
  <2>13. CASE WriteStep
    BY <2>4, <2>5, <2>6, <2>13 DEF WriteStep
  <2>14. QED
    BY <2>2, <2>9, <2>10, <2>11, <2>12, <2>13 DEF Next
<1>3. QED
  BY <1>1, <1>2, PricingTyped, PTL DEF Spec

\* models.dev fills only what the last answer of LiteLLM left out, or an id
\* whose LiteLLM row an edit or a reload has taken away.
THEOREM FallbackOnlyFillsGaps == Spec => []FallbackFillsGaps
  BY SourceInvariant, SourceProperties, PTL

\* A LiteLLM row that is not stale is its last answer, and a stale one stands
\* for an id that the last attempt did not return.
THEOREM StaleRowsAreOld == Spec => []StaleMeansOld
  BY SourceInvariant, SourceProperties, PTL

-----------------------------------------------------------------------------
\* While nothing disturbs a run that reached a source, no alias edit is under
\* way, and every alias that is to be stamped has its price or waits for it.
RunInv ==
    ~drift =>
        /\ pass["configure"] = AtRest
        /\ op # Idle => op.step = "stamping"
        /\ \A item \in Todo("run") : item.rec.price = EntryFor(Entries, item.alias)
        /\ pass["run"].step # "snap" =>
               \A a \in Stampable(Entries) :
                   \/ \E item \in Todo("run") : item.alias = a
                   \/ aliases[a].price = EntryFor(Entries, a)

\* Once an undisturbed run is over, every automatic alias without a row of its
\* own has the price of its target: no order of stamps and saves leaves one
\* out.
THEOREM AliasesFollowTargets == Spec => []AliasesFollow
<1>1. Init => RunInv
  BY DEF Init, RunInv
<1>2. RunInv /\ PricingType /\ [Next]_vars => RunInv'
  <2> SUFFICES ASSUME RunInv, PricingType, [Next]_vars, ~drift' PROVE RunInv'
    BY DEF RunInv
  <2>0. AtRest.step = "idle"
    BY DEF AtRest
  <2>1. ASSUME NEW id, NEW rs, NEW del, NEW decision, EditRow(id, rs, del, decision)
        PROVE  FALSE
    BY <2>1 DEF EditRow
  <2>2. ASSUME NEW a, NEW rec, EditAlias(a, rec) PROVE FALSE
    BY <2>2 DEF EditAlias
  <2>3. ~WriteFails /\ ~Reconfigure /\ ~Restart
    BY DEF WriteFails, Reconfigure, Restart, LoadFiles
  <2>4. CASE SaveAlias \/ WriteAliasPrices
    BY <2>4 DEF SaveAlias, WriteAliasPrices, RunInv
  <2>5. ASSUME NEW lite, NEW dev, Apply(lite, dev) PROVE RunInv'
    <3>1. /\ op = Idle /\ op' = Idle
          /\ pass["configure"] = AtRest
          /\ pass' = [pass EXCEPT !["run"] = [step |-> "snap"]]
      BY <2>5 DEF Apply, WriteAndPublish
    <3>2. pass'["run"].step = "snap" /\ pass'["configure"] = AtRest
      BY <3>1 DEF PricingType, Passes
    <3>3. Todo("run")' = {}
      BY <3>2 DEF Todo
    <3>4. QED
      BY <3>1, <3>2, <3>3 DEF RunInv
  <2>6. ASSUME NEW p \in Passes, Snap(p) PROVE RunInv'
    <3> DEFINE copy(a) == [aliases[a] EXCEPT !.price = EntryFor(Entries, a)]
               todo == {[alias |-> a, rec |-> copy(a)] : a \in Stampable(Entries)}
    <3>1. /\ pass[p].step = "snap"
          /\ pass' = [pass EXCEPT ![p] = IF todo = {} THEN AtRest
                                         ELSE [step |-> "stamping", todo |-> todo]]
          /\ UNCHANGED <<aliases, rows, op, drift>>
      BY <2>6 DEF Snap, tables, files, history
    <3>2. p = "run"
      BY <2>0, <3>1 DEF RunInv, Passes
    <3>3. \A a \in Stampable(Entries) : copy(a).price = EntryFor(Entries, a)
      BY DEF Stampable, Automatic, PricingType, AliasTables, PricingRecords
    <3> HIDE DEF copy
    <3>4. \A item \in todo : item.rec.price = EntryFor(Entries, item.alias)
      BY <3>3
    <3>5. \A a \in Stampable(Entries) : \E item \in todo : item.alias = a
      <4>1. ASSUME NEW a \in Stampable(Entries)
            PROVE  /\ [alias |-> a, rec |-> copy(a)] \in todo
                   /\ [alias |-> a, rec |-> copy(a)].alias = a
        OBVIOUS
      <4>2. QED
        BY <4>1
    <3> HIDE DEF todo
    <3>6. /\ pass'["configure"] = pass["configure"]
          /\ Todo("run")' = todo
      BY <2>0, <3>1, <3>2 DEF PricingType, Passes, Todo
    <3>7. Entries' = Entries /\ Stampable(Entries)' = Stampable(Entries)
      BY <3>1 DEF Entries, Stampable
    <3>8. \A a : EntryFor(Entries, a)' = EntryFor(Entries, a)
      BY <3>7 DEF EntryFor
    <3>9. QED
      BY <3>1, <3>4, <3>5, <3>6, <3>7, <3>8 DEF RunInv
  <2>7. ASSUME NEW p \in Passes, pass[p].step = "stamping", NEW item \in pass[p].todo,
               Stamp(p, item)
        PROVE  RunInv'
    <3>1. /\ aliases' = [aliases EXCEPT ![item.alias] = item.rec]
          /\ pass' = [pass EXCEPT ![p] =
                         IF pass[p].todo = {item} THEN AtRest
                         ELSE [step |-> "stamping", todo |-> pass[p].todo \ {item}]]
          /\ op' = [step |-> "stamping"]
          /\ UNCHANGED <<rows, drift>>
      BY <2>7 DEF Stamp, files, history
    <3>2. p = "run"
      BY <2>0, <2>7, <3>1 DEF RunInv, Passes
    <3>3. item \in Todo("run") /\ item \in Items
      BY <2>7, <3>2 DEF Todo, PricingType
    <3>4. /\ pass'["configure"] = pass["configure"]
          /\ Todo("run")' = Todo("run") \ {item}
      BY <2>0, <2>7, <3>1, <3>2 DEF PricingType, Passes, Todo
    <3>5. Entries' = Entries
      BY <3>1 DEF Entries
    <3>6. aliases'[item.alias].price = EntryFor(Entries, item.alias)
      BY <3>1, <3>3 DEF RunInv, PricingType, AliasTables, Items
    <3>7. \A a \in Aliases : a # item.alias => aliases'[a] = aliases[a]
      BY <3>1 DEF PricingType, AliasTables
    <3>8. ASSUME NEW a \in Stampable(Entries)', ~\E it \in Todo("run")' : it.alias = a
          PROVE  aliases'[a].price = EntryFor(Entries, a)
      <4>1. CASE a = item.alias
        BY <3>6, <4>1
      <4>2. CASE a # item.alias
        <5>1. a \in Stampable(Entries) /\ aliases'[a] = aliases[a]
          BY <3>5, <3>7, <3>8, <4>2 DEF Stampable
        <5>2. ~\E it \in Todo("run") : it.alias = a
          BY <3>4, <3>8, <4>2
        <5>3. QED
          BY <2>7, <3>1, <3>2, <5>1, <5>2 DEF RunInv
      <4>3. QED
        BY <4>1, <4>2
    <3>9. op'.step = "stamping"
      BY <3>1
    <3>10. \A a : EntryFor(Entries, a)' = EntryFor(Entries, a)
      BY <3>5 DEF EntryFor
    <3>11. QED
      BY <3>1, <3>4, <3>8, <3>9, <3>10 DEF RunInv
  <2>8. CASE SaveStamp
    <3>1. op' = Idle /\ UNCHANGED <<aliases, rows, pass, drift>>
      BY <2>8 DEF SaveStamp, tables, history
    <3>2. QED
      BY <3>1 DEF RunInv, Todo, EntryFor, Entries, Stampable
  <2>9. CASE UNCHANGED vars
    BY <2>9 DEF vars, tables, files, history, RunInv, Todo, EntryFor, Entries, Stampable
  <2>10. ~RowStep
    BY <2>1 DEF RowStep, UpsertModelPrice, DeleteModelPrice, RestoreModelPriceAutomatic
  <2>11. ~AliasStep
    BY <2>2 DEF AliasStep, UpsertAlias, DeleteAlias
  <2>12. CASE SyncStep
    BY <2>5, <2>6, <2>7, <2>12 DEF SyncStep
  <2>13. CASE WriteStep
    BY <2>3, <2>4, <2>8, <2>13 DEF WriteStep
  <2>14. QED
    BY <2>3, <2>9, <2>10, <2>11, <2>12, <2>13 DEF Next
<1>3. RunInv /\ PricingType => AliasesFollow
  <2> SUFFICES ASSUME RunInv, PricingType, ~drift, op = Idle,
                      \A p \in Passes : pass[p] = AtRest,
                      NEW a \in Aliases, Automatic(aliases[a]), ~aliases[a].perCall,
                      rows[a] = NoRow, rows[TargetOf[a]] # NoRow
               PROVE  IF \/ rows[TargetOf[a]].status = "unpriced"
                         \/ rows[TargetOf[a]].price = ImageRate
                      THEN aliases[a].price = Zero
                      ELSE rows[TargetOf[a]].price \in Prices =>
                               aliases[a].price = rows[TargetOf[a]].price
    BY DEF AliasesFollow
  <2> DEFINE row == rows[TargetOf[a]]
  <2>1. a \in Ids /\ TargetOf[a] \in Ids
    BY AliasAssumption
  <2>2. EntryFor(Entries, a) = Entry(row)
    <3>1. Entries[a] = Absent /\ Entries[TargetOf[a]] = Entry(row)
      BY <2>1 DEF Entries, Entry
    <3>2. QED
      BY <3>1 DEF EntryFor
  <2>3. a \in Stampable(Entries) => aliases[a].price = Entry(row)
    <3>1. pass["run"] = AtRest
      BY DEF Passes
    <3>2. pass["run"].step # "snap" /\ Todo("run") = {}
      BY <3>1 DEF AtRest, Todo
    <3>3. QED
      BY <2>2, <3>2 DEF RunInv
  <2>4. Entry(row) # Absent => a \in Stampable(Entries)
    BY <2>2 DEF Stampable
  <2>5. CASE row.status = "unpriced" \/ row.price = ImageRate
    BY <2>3, <2>4, <2>5, SentinelAssumption DEF Entry
  <2>6. CASE ~(row.status = "unpriced" \/ row.price = ImageRate) /\ row.price \in Prices
    BY <2>3, <2>4, <2>6, SentinelAssumption DEF Entry
  <2>7. QED
    BY <2>5, <2>6
<1>4. QED
  BY <1>1, <1>2, <1>3, PricingTyped, PTL DEF Spec
=============================================================================
