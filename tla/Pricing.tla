------------------------------ MODULE Pricing ------------------------------
(***************************************************************************)
(* The model price catalogue and the prices of the alias table             *)
(* (internal/policy/pricing_file.go, pricing_sync.go, store.go): edits of  *)
(* rows and aliases, the synchronization with two sources, and the two     *)
(* files both are kept in.                                                 *)
(*                                                                         *)
(* An edit of a row and a merge write the pricing file and then publish:   *)
(* one step, for only a boot or another holder of updateMu reads the file. *)
(* An edit of an alias publishes, saves the state file, publishes the rows *)
(* the alias owns and writes the pricing file.  A sync pass fetches,       *)
(* merges, and then stamps prices on the aliases one by one from copies    *)
(* that it took without updateMu.                                          *)
(*                                                                         *)
(* The four rates of a row are one price; provider names matter only where *)
(* putPrice compares them (Shadowed).  An edit of a row or a merge whose   *)
(* write fails changes nothing and is no action.                           *)
(***************************************************************************)
EXTENDS Naturals, FiniteSets

CONSTANTS
    Ids,         \* normalized model ids
    Aliases,     \* alias names, each an id too
    TargetOf,    \* the target model of each alias; more behave alike
    Shadowed,    \* ids whose alias target provider is the one that the
                 \* sources name, or preferred to it
    Prices,      \* token prices above zero
    Zero,        \* no price, or a price of zero
    ImageRate,   \* the rate of an image model
    Absent,      \* what a source says about an id that it does not list
    Down,        \* the answer of a source that cannot be reached
    LiteAnswers, \* answers of LiteLLM: Down, or a value per id
    DevAnswers,  \* answers of models.dev
    NoRow,       \* no such row in the catalogue
    NoAlias,     \* no such alias
    FirstAliases, \* what the alias table may hold at the first boot
    Open,        \* no operator's decision stands
    Idle,        \* nothing under way
    MaxUpsets    \* bound: edits by operators and writes that fail

ASSUME AliasAssumption ==
    Aliases \subseteq Ids /\ TargetOf \in [Aliases -> Ids]
ASSUME AnswerAssumption ==
    /\ LiteAnswers \subseteq [Ids -> Prices \cup {Zero, ImageRate, Absent}] \cup {Down}
    /\ DevAnswers \subseteq [Ids -> Prices \cup {Zero, Absent}] \cup {Down}
ASSUME FirstAssumption ==
    FirstAliases \subseteq [manual : BOOLEAN, perCall : BOOLEAN,
                           price : Prices \cup {Zero}] \cup {NoAlias}
ASSUME PricingBounds == MaxUpsets \in Nat

VARIABLES
    aliases,   \* Store.aliases: the pricing of each
    rows,      \* Store.prices
    deleted,   \* Store.pricingDeleted, the tombstones
    health,    \* Store.pricingSync: how the last attempt at LiteLLM ended
    stateFile, \* the aliases in the state file
    file,      \* rows, deleted and health in the pricing file
    op,        \* updateMu: the mutation under way and what it will do next
    pass,      \* per sync pass: its step and the copies it works with
    decided,   \* history: per id the row an operator decided on, Open if none
    wish,      \* history: per alias what an operator decided on, Open if none
    exposed,   \* history: aliases last edited while a pass held a copy of them
    known,     \* history: per id what the last merged answer of LiteLLM said
    lost,      \* history: per id why it has no LiteLLM row although known
    drift,     \* history: aliases may be off the catalogue
    upsets

tables == <<aliases, rows, deleted, health>>
files == <<stateFile, file>>
history == <<decided, wish, exposed, known, lost, drift>>
vars == <<tables, files, op, pass, history, upsets>>

Sources == {"litellm", "models.dev"}

\* A pass is a sync run (pricingRunMu lets one in at a time) or the stamping
\* that Configure does when the sync configuration has not changed.
Passes == {"run", "configure"}

Row(source, status, price) ==
    [source |-> source, status |-> status, price |-> price]

Values == Prices \cup {Zero, ImageRate, Absent}

RowRecords ==
    [source : Sources \cup {"manual", "alias", "legacy"},
     status : {"priced", "unpriced", "stale"}, price : Values]

PricingRecords == [manual : BOOLEAN, perCall : BOOLEAN, price : Values]

ASSUME SentinelAssumption ==
    /\ NoRow \notin RowRecords
    /\ Open \notin RowRecords \cup {NoRow}
    /\ NoAlias \notin PricingRecords
    /\ {Zero, ImageRate, Absent} \cap Prices = {}
    /\ Absent \notin {Zero, ImageRate}

Sourced(row) == row # NoRow /\ row.source \in Sources

\* An alias that prices tokens: what seeds, ownership and the merge ask for.
TokenPriced(rec) == rec # NoAlias /\ ~rec.perCall /\ rec.price # Zero

Automatic(rec) == rec # NoAlias /\ ~rec.manual

NamesOf(a) == {a, TargetOf[a]}

AliasRecords ==
    {[manual |-> manual, perCall |-> FALSE, price |-> p] :
         manual \in BOOLEAN, p \in Prices \cup {Zero}}
    \cup {[manual |-> FALSE, perCall |-> TRUE, price |-> Zero]}

\* Owned by a manual alias: what keeps an alias row in the catalogue.
Owned(al, id) ==
    \E a \in Aliases : id \in NamesOf(a) /\ TokenPriced(al[a]) /\ al[a].manual

\* The row that an alias puts under its name and its target.
SeedRow(rec) == Row(IF rec.manual THEN "alias" ELSE "legacy", "priced", rec.price)

\* The rows that an automatic alias of the same price put there.
AutoSeed(al, id, row) ==
    \E a \in Aliases :
        /\ id \in NamesOf(a) /\ TokenPriced(al[a]) /\ Automatic(al[a])
        /\ row.price = al[a].price

\* Without a pricing file, rows are seeded from the aliases; where two share
\* an id the last one wins.
Seeds(al, last) ==
    [id \in Ids |->
        IF \E a \in Aliases : id \in NamesOf(a) /\ TokenPriced(al[a])
        THEN SeedRow(al[last[id]]) ELSE NoRow]

\* indexPrices at load: putPrice drops a row without any price unless it is
\* marked priced or known unpriced.
Loads(row) == row # NoRow => row.price # Zero \/ row.status # "stale"

\* What LoadModelPricingFile and indexPrices make of the file.
Loaded(disk) ==
    [id \in Ids |->
        IF id \in disk.deleted \/ ~Loads(disk.rows[id]) THEN NoRow
        ELSE disk.rows[id]]

AtRest == [step |-> "idle"]

Init ==
    /\ aliases \in [Aliases -> FirstAliases]
    /\ \E last \in [Ids -> Aliases] :
        /\ \A id \in Ids :
            (\E a \in Aliases : id \in NamesOf(a) /\ TokenPriced(aliases[a])) =>
                id \in NamesOf(last[id]) /\ TokenPriced(aliases[last[id]])
        /\ rows = Seeds(aliases, last)
    /\ deleted = {}
    /\ health = "never"
    /\ stateFile = aliases
    /\ file = [rows |-> rows, deleted |-> deleted, health |-> health]
    /\ op = Idle
    /\ pass = [p \in Passes |-> AtRest]
    /\ decided = [id \in Ids |-> Open]
    /\ wish = [a \in Aliases |-> Open]
    /\ exposed = {}
    /\ known = [id \in Ids |-> Absent]
    /\ lost = [id \in Ids |-> "no"]
    /\ drift = TRUE
    /\ upsets = 0

-----------------------------------------------------------------------------
\* Ids whose LiteLLM row is not in the new rows: why it went.
LostTo(rs, why) ==
    [id \in Ids |->
        IF /\ rows[id] # NoRow /\ rows[id].source = "litellm"
           /\ rs[id] = NoRow \/ rs[id].source # "litellm"
        THEN why ELSE lost[id]]

\* What an edit or a merge writes and then publishes.
WriteAndPublish(rs, del, condition) ==
    /\ op = Idle
    /\ file' = [rows |-> rs, deleted |-> del, health |-> condition]
    /\ rows' = rs
    /\ deleted' = del
    /\ health' = condition

EditRow(id, rs, del, decision) ==
    /\ upsets < MaxUpsets
    /\ upsets' = upsets + 1
    /\ WriteAndPublish(rs, del, health)
    /\ decided' = [decided EXCEPT ![id] = decision]
    /\ lost' = LostTo(rs, "edit")
    /\ drift' = TRUE
    /\ UNCHANGED <<aliases, stateFile, op, pass, wish, exposed, known>>

UpsertModelPrice(id, price) ==
    LET row == Row("manual", "priced", price)
    IN EditRow(id, [rows EXCEPT ![id] = row], deleted \ {id}, row)

DeleteModelPrice(id) ==
    /\ rows[id] # NoRow
    /\ EditRow(id, [rows EXCEPT ![id] = NoRow], deleted \cup {id}, NoRow)

RestoreModelPriceAutomatic(id) ==
    EditRow(id, [rows EXCEPT ![id] = NoRow], deleted \ {id}, Open)

-----------------------------------------------------------------------------
\* Aliases that some pass will write back.
Copied ==
    UNION {{item.alias : item \in pass[p].todo} :
               p \in {p \in Passes : pass[p].step = "stamping"}}

\* An edit of an alias publishes it.  What it decides is open until the call
\* returns, and so is what an earlier edit of it had decided about its ids.
EditAlias(a, rec) ==
    /\ op = Idle
    /\ upsets < MaxUpsets
    /\ upsets' = upsets + 1
    /\ aliases' = [aliases EXCEPT ![a] = rec]
    /\ op' = [step |-> "saving", alias |-> a]
    /\ wish' = [wish EXCEPT ![a] = Open]
    /\ decided' = [id \in Ids |->
           IF /\ id \in NamesOf(a)
              /\ \/ TokenPriced(rec) /\ rec.manual
                 \/ decided[id] \notin {Open, NoRow} /\ decided[id].source = "alias"
           THEN Open ELSE decided[id]]
    /\ exposed' = IF a \in Copied THEN exposed \cup {a} ELSE exposed \ {a}
    /\ drift' = TRUE
    /\ UNCHANGED <<rows, deleted, health, files, pass, known, lost>>

UpsertAlias(a, rec) == EditAlias(a, rec)

\* Refused while a key refers to the alias, which depends on the keys.
DeleteAlias(a) == aliases[a] # NoAlias /\ EditAlias(a, NoAlias)

\* upsertAliasIntoPricing: alias rows that no manual alias owns any more go,
Unorphaned(al, rs) ==
    [id \in Ids |->
        IF rs[id] # NoRow /\ rs[id].source = "alias" /\ ~Owned(al, id) THEN NoRow
        ELSE rs[id]]

\* ... a manual alias puts its rows whatever is there,
Claimed(rs, a, rec) ==
    [id \in Ids |-> IF id \in NamesOf(a) THEN SeedRow(rec) ELSE rs[id]]

\* ... and an automatic one releases alias rows of its price and then fills
\* gaps, and replaces sourced rows of its own provider.
Offered(rs, a, rec) ==
    [id \in Ids |->
        LET mine == rs[id] # NoRow /\ rs[id].source = "alias" /\ rs[id].price = rec.price
            free == rs[id] = NoRow \/ mine \/ (Sourced(rs[id]) /\ id \in Shadowed)
        IN IF id \notin NamesOf(a) THEN rs[id]
           ELSE IF free /\ id \notin deleted THEN SeedRow(rec)
           ELSE IF mine THEN NoRow
           ELSE rs[id]]

Reconciled(al, a) ==
    LET rec  == al[a]
        kept == Unorphaned(al, rows)
    IN IF ~TokenPriced(rec) THEN kept
       ELSE IF rec.manual THEN Claimed(kept, a, rec)
       ELSE Offered(kept, a, rec)

\* Broken variant: the tombstones stay, and drop the alias's rows at a reload.
LiftedNever(a) == deleted

\* A manual alias lifts the tombstones of its ids.
Lifted(a) ==
    IF TokenPriced(aliases[a]) /\ aliases[a].manual THEN deleted \ NamesOf(a)
    ELSE deleted

\* The state file is written and the rows of the alias are published.
SaveAlias ==
    /\ op # Idle /\ op.step = "saving"
    /\ stateFile' = aliases
    /\ rows' = Reconciled(aliases, op.alias)
    /\ deleted' = Lifted(op.alias)
    /\ lost' = LostTo(rows', "edit")
    /\ decided' = [id \in Ids |->
           IF /\ decided[id] \notin {Open, NoRow} /\ decided[id].source = "alias"
              /\ ~Owned(aliases, id)
           THEN Open ELSE decided[id]]
    /\ op' = [op EXCEPT !.step = "writing"]
    /\ UNCHANGED <<aliases, health, file, pass, wish, exposed, known, drift,
                   upsets>>

\* The pricing file is written and the call returns.
WriteAliasPrices ==
    /\ op # Idle /\ op.step = "writing"
    /\ file' = [rows |-> rows, deleted |-> deleted, health |-> health]
    /\ wish' = [wish EXCEPT ![op.alias] = aliases[op.alias]]
    /\ decided' = [id \in Ids |->
           IF /\ id \in NamesOf(op.alias)
              /\ TokenPriced(aliases[op.alias]) /\ aliases[op.alias].manual
           THEN SeedRow(aliases[op.alias]) ELSE decided[id]]
    /\ op' = Idle
    /\ UNCHANGED <<tables, stateFile, pass, exposed, known, lost, drift, upsets>>

\* Either write can fail: the client gets the error and memory keeps the change.
WriteFails ==
    /\ op # Idle /\ op.step \in {"saving", "writing", "stamping"}
    /\ upsets < MaxUpsets
    /\ upsets' = upsets + 1
    /\ op' = Idle
    /\ drift' = TRUE
    /\ UNCHANGED <<tables, files, pass, decided, wish, exposed, known, lost>>
-----------------------------------------------------------------------------
\* The row a source's value becomes; a price of zero is no published price to
\* LiteLLM and a free model to models.dev.
Candidate(source, value) ==
    Row(source,
        IF source = "litellm" /\ value = Zero THEN "unpriced" ELSE "priced",
        value)

\* models.dev only fills what LiteLLM does not know; a source that is down
\* says nothing.
Effective(lite, dev, id) ==
    IF lite # Down /\ lite[id] # Absent THEN Candidate("litellm", lite[id])
    ELSE IF dev # Down /\ dev[id] # Absent THEN Candidate("models.dev", dev[id])
    ELSE NoRow

Lists(answer, id) == answer # Down /\ answer[id] # Absent

\* Broken variant: a source that cannot be reached leaves its rows as they are.
AgedByAnswer(row, lite, dev, id) ==
    IF /\ row # NoRow
       /\ \/ row.source = "litellm" /\ lite # Down /\ ~Lists(lite, id)
          \/ row.source = "models.dev" /\ dev # Down /\ ~Lists(dev, id)
    THEN [row EXCEPT !.status = "stale"] ELSE row

\* A row whose source failed or no longer lists it is marked stale.
Aged(row, lite, dev, id) ==
    IF \/ row # NoRow /\ row.source = "litellm" /\ ~Lists(lite, id)
       \/ row # NoRow /\ row.source = "models.dev" /\ ~Lists(dev, id)
    THEN [row EXCEPT !.status = "stale"] ELSE row

\* Broken variant: a sourced row yields to any candidate.
ReplaceableIfSourced(row, lite, dev, id) ==
    row = NoRow \/ Sourced(row) \/ (row.source = "legacy" /\ AutoSeed(aliases, id, row))

\* Which rows a candidate may replace.
Replaceable(row, lite, dev, id) ==
    \/ row = NoRow
    \/ row.source = "models.dev"
    \/ row.source = "litellm" /\ lite # Down
    \/ /\ row.source = "legacy"
       /\ \/ AutoSeed(aliases, id, row)
          \/ Lists(lite, id) /\ row.price = lite[id]
          \/ Lists(dev, id) /\ row.price = dev[id]

Refreshed(lite, dev) ==
    [id \in Ids |->
        LET aged      == Aged(rows[id], lite, dev, id)
            candidate == Effective(lite, dev, id)
        IN IF /\ candidate # NoRow /\ id \notin deleted
              /\ Replaceable(aged, lite, dev, id)
           THEN candidate ELSE aged]

\* The row that an automatic alias once put under its own name goes when its
\* target has a sourced row or a tombstone.
Unshadowed(rs) ==
    [id \in Ids |->
        IF /\ rs[id] # NoRow /\ rs[id].source = "legacy"
           /\ AutoSeed(aliases, id, rs[id])
           /\ id \in Aliases /\ Automatic(aliases[id]) /\ TargetOf[id] # id
           /\ Sourced(rs[TargetOf[id]]) \/ TargetOf[id] \in deleted
        THEN NoRow ELSE rs[id]]

Merged(lite, dev) == Unshadowed(Refreshed(lite, dev))

Health(lite) == IF lite = Down THEN "failed" ELSE "ok"

\* Ids the answer lists and whose row is not LiteLLM's after the merge.
Missed(rs, lite) ==
    [id \in Ids |->
        IF lite[id] # Absent /\ (rs[id] = NoRow \/ rs[id].source # "litellm")
        THEN "edit" ELSE "no"]

\* ApplyPricingSources.  A run that reached a source goes on to the aliases;
\* without one it ends with the error.
Apply(lite, dev) ==
    /\ pass["run"] = AtRest
    /\ WriteAndPublish(Merged(lite, dev), deleted, Health(lite))
    /\ LET reached == lite # Down \/ dev # Down
       IN /\ pass' = IF reached THEN [pass EXCEPT !["run"] = [step |-> "snap"]]
                     ELSE pass
          /\ drift' = ~(reached /\ pass["configure"] = AtRest)
    /\ known' = IF lite = Down THEN known ELSE lite
    /\ lost' = IF lite = Down THEN lost ELSE Missed(rows', lite)
    /\ UNCHANGED <<aliases, stateFile, op, decided, wish, exposed, upsets>>

\* Broken variant: a row known to have no price says nothing.
EntryIfPriced(row) ==
    IF row = NoRow \/ row.price = Zero THEN Absent
    ELSE IF row.price = ImageRate THEN Zero
    ELSE row.price

\* What SyncAliasPricesFromCatalog takes from a row: Zero where an automatic
\* alias must lose its price, Absent where the row says nothing.
Entry(row) ==
    IF row = NoRow THEN Absent
    ELSE IF row.status = "unpriced" \/ row.price = ImageRate THEN Zero
    ELSE IF row.price = Zero THEN Absent
    ELSE row.price

\* The alias's own name first, then its target.
EntryFor(entries, a) ==
    IF entries[a] # Absent THEN entries[a] ELSE entries[TargetOf[a]]

Entries == [id \in Ids |-> Entry(rows[id])]

\* Broken variant: the pricing mode is not looked at.
StampableAny(entries) ==
    {a \in Aliases : /\ aliases[a] # NoAlias /\ ~aliases[a].perCall
                     /\ EntryFor(entries, a) # Absent}

\* The copies a pass will write back: automatic token aliases with an entry.
Stampable(entries) ==
    {a \in Aliases : /\ Automatic(aliases[a]) /\ ~aliases[a].perCall
                     /\ EntryFor(entries, a) # Absent}

\* PricingSnapshot and AliasesSnapshot, each under mu only.  They are one step:
\* one edit between them could as well have come before both or after both.
Snap(p) ==
    /\ pass[p].step = "snap"
    /\ LET entries == Entries
           todo    == {[alias |-> a, rec |-> [aliases[a] EXCEPT
                                                !.price = EntryFor(entries, a)]] :
                          a \in Stampable(entries)}
       IN pass' = [pass EXCEPT ![p] =
                      IF todo = {} THEN AtRest
                      ELSE [step |-> "stamping", todo |-> todo]]
    /\ UNCHANGED <<tables, files, op, history, upsets>>

\* upsertAliasFromPricingSync: the whole copy replaces the alias.
Stamp(p, item) ==
    /\ op = Idle
    /\ pass[p].step = "stamping" /\ item \in pass[p].todo
    /\ aliases' = [aliases EXCEPT ![item.alias] = item.rec]
    /\ pass' = [pass EXCEPT ![p] =
                   IF pass[p].todo = {item} THEN AtRest
                   ELSE [step |-> "stamping", todo |-> pass[p].todo \ {item}]]
    /\ op' = [step |-> "stamping"]
    /\ UNCHANGED <<rows, deleted, health, files, history, upsets>>

SaveStamp ==
    /\ op # Idle /\ op.step = "stamping"
    /\ stateFile' = aliases
    /\ op' = Idle
    /\ UNCHANGED <<tables, file, pass, history, upsets>>

-----------------------------------------------------------------------------
\* Memory is what the files hold.
LoadFiles ==
    /\ aliases' = stateFile
    /\ rows' = Loaded(file)
    /\ deleted' = file.deleted
    /\ health' = file.health
    /\ lost' = [id \in Ids |->
           IF file.rows[id] # NoRow /\ file.rows[id].source = "litellm"
              /\ rows'[id] = NoRow
           THEN "reload" ELSE lost[id]]
    /\ drift' = TRUE

\* Configure in a running process, one call at a time.  startPricingSyncer then
\* stamps the aliases or, when the sync configuration has changed, waits for
\* the old loop and starts another; a run goes on over the new tables.
Reconfigure ==
    /\ op = Idle
    /\ pass["configure"] = AtRest
    /\ LoadFiles
    /\ \/ pass' = [pass EXCEPT !["configure"] = [step |-> "snap"]]
       \/ UNCHANGED pass
    /\ UNCHANGED <<files, op, decided, wish, exposed, known, upsets>>

\* The process dies, with whatever was under way, and boots again.
Restart ==
    /\ LoadFiles
    /\ op' = Idle
    /\ pass' = [p \in Passes |-> AtRest]
    /\ UNCHANGED <<files, decided, wish, exposed, known, upsets>>

RowStep ==
    \E id \in Ids :
        \/ \E price \in Prices \cup {Zero} : UpsertModelPrice(id, price)
        \/ DeleteModelPrice(id)
        \/ RestoreModelPriceAutomatic(id)

AliasStep ==
    \E a \in Aliases :
        \/ \E rec \in AliasRecords : UpsertAlias(a, rec)
        \/ DeleteAlias(a)

SyncStep ==
    \/ \E lite \in LiteAnswers, dev \in DevAnswers : Apply(lite, dev)
    \/ \E p \in Passes :
           \/ Snap(p)
           \/ pass[p].step = "stamping" /\ \E item \in pass[p].todo : Stamp(p, item)

WriteStep ==
    \/ SaveAlias \/ WriteAliasPrices \/ SaveStamp \/ WriteFails

Next == RowStep \/ AliasStep \/ SyncStep \/ WriteStep \/ Reconfigure \/ Restart

Spec == Init /\ [][Next]_vars

-----------------------------------------------------------------------------
(* Properties.                                                             *)

\* The catalogue on disk and the one in memory.
Catalogues ==
    {[rows |-> file.rows, health |-> file.health], [rows |-> rows, health |-> health]}

\* README.md:321: "Manual edits in Model Pricing beat both remote sources.
\* Deletions create tombstones, so later syncs cannot resurrect the row": the
\* row an operator last decided on is the one in memory and in the file,
\* whatever syncs, alias edits, failed writes and restarts have come since.
DecisionsStand ==
    \A id \in Ids :
        decided[id] # Open =>
            /\ rows[id] = decided[id] /\ file.rows[id] = decided[id]
            /\ decided[id] = NoRow => id \in deleted \cap file.deleted

\* README.md:319: models.dev fills only what LiteLLM does not list.  A row of
\* models.dev is for an id that the last merged answer of LiteLLM left out,
\* even if LiteLLM has failed since, unless an edit or a reload removed the
\* LiteLLM row in the meantime.
FallbackFillsGaps ==
    \A id \in Ids, c \in Catalogues :
        c.rows[id] # NoRow /\ c.rows[id].source = "models.dev" =>
            known[id] = Absent \/ lost[id] # "no"

\* README.md:320: "its last successful values remain available and are marked
\* stale instead of clearing the catalog": across merges, edits and reloads a
\* LiteLLM row that is not stale has the price of the last answer, and one
\* that is stale is for an id that the last attempt did not return.
StaleMeansOld ==
    \A id \in Ids, c \in Catalogues :
        c.rows[id] # NoRow /\ c.rows[id].source = "litellm" =>
            IF c.rows[id].status = "stale"
            THEN c.health = "failed" \/ known[id] = Absent
            ELSE c.rows[id].price = known[id] /\ c.health = "ok"

\* An alias is as decided: for an automatic one the price is not the operator's.
Agrees(decision, rec) ==
    \/ decision \in {Open, rec}
    \/ /\ decision # NoAlias /\ rec # NoAlias
       /\ [decision EXCEPT !.price = Zero] = [rec EXCEPT !.price = Zero]
       /\ ~rec.manual

\* README.md:321: "select Manual Override or set pricing_mode: manual to
\* preserve the prices entered on an alias": an alias stays as an operator
\* last decided, deleted ones included, whatever merges, passes, failed writes
\* and reloads follow, unless the edit fell between a pass's copy and its
\* upsert.
AliasesStand ==
    \A a \in Aliases \ exposed :
        Agrees(wish[a], aliases[a]) /\ Agrees(wish[a], stateFile[a])

\* README.md:321 again, as it stands: the pricing of an alias that an operator
\* has set to manual, and whose call has returned, is the operator's.
ManualPricesStay ==
    \A a \in Aliases :
        wish[a] \notin {Open, NoAlias} /\ wish[a].manual => aliases[a] = wish[a]

\* README.md:319: "A model known to LiteLLM but lacking a published price is
\* marked known-unpriced and never receives a questionable fallback price":
\* as long as no edit has touched the row, whatever sources fail and whenever
\* the process restarts.
UnpricedStaysUnpriced ==
    \A id \in Ids :
        known[id] = Zero /\ lost[id] # "edit" =>
            rows[id] = NoRow \/ rows[id].source # "models.dev"

\* Once a run is over that reached a source and that nothing has disturbed,
\* every automatic alias without a row of its own has the price of its target,
\* and none when LiteLLM knows the target without a token price.
AliasesFollow ==
    ~drift /\ op = Idle /\ (\A p \in Passes : pass[p] = AtRest) =>
        \A a \in Aliases :
            LET row == rows[TargetOf[a]]
            IN /\ Automatic(aliases[a]) /\ ~aliases[a].perCall
               /\ rows[a] = NoRow /\ row # NoRow
               => IF row.status = "unpriced" \/ row.price = ImageRate
                  THEN aliases[a].price = Zero
                  ELSE row.price \in Prices => aliases[a].price = row.price
=============================================================================
