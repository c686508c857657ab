# TLA+ model of CPA Access Guard

This directory holds TLA+ specifications of the Go plugin in `internal/`, the TLC configurations that check
them on small instances, and TLAPS proofs of every safety property that the passing runs check. Paths below are relative to the repository root.

## 1. The system

The host (CPA) loads the plugin and calls it for authentication, routing, scheduling, usage records,
reconfiguration and the management API. Every call may come on its own goroutine. The plugin keeps all its state
in one process and one JSON state file; there is no other node.

| Component | State it keeps | Operations | Talks to |
|---|---|---|---|
| State store (`policy/store.go`, `config.go`) | keys, aliases, rules, bindings in memory; the state file; `updateMu`, `mu`, `persistMu` | full saves after each mutation, usage flushes, load, Configure, Shutdown | everything |
| Usage ledger (`policy/usage.go`) | per account: day, week, per-alias day and week, optional weekly anchor | RecordCost, Summary, AliasUsage, OverLimit, resets | store, quota gate |
| Usage flusher (`policy/store.go`) | a goroutine, stopCh, doneCh | periodic FlushUsage, stop | state file |
| Rate limiter (`policy/limiter.go`) | per account: window start and count | Allow, RetryAfter, Reset, Snapshot | Authenticate, quota gate |
| Key and alias tables (`policy/store.go`, `plugin/app.go`) | keys with alias references and derived models; alias table | create, PATCH, rotate, delete key; upsert, delete alias | state file, routing |
| Alias picks and routing (`policy/store.go`, `plugin/app.go`) | pending picks per key and alias, round-robin counters | Authenticate, Route, ResponseAlias | host, scheduler (group in metadata) |
| Classification (`policy/classify.go`, `plugin/app.go`) | ordered rules, cache of groups per candidate | candidateGroups, rule mutations and their callback | scheduler |
| Native key bindings, batches, rollback (`policy/native_keys.go`, `native_binding_batch.go`) | bindings by id and scope, bounded operation history | create, update, delete, preview, apply, rollback | state file, scheduler |
| Native quota gate (`policy/native_quota.go`) | uses limiter and ledger accounts `native-scope:*` | CheckNativeKeyQuota, recordNativeUsage, ResetNativeKeyQuotas | scheduler, ledger, state file |
| Scheduler and native round robin (`plugin/app.go`, `native_round_robin.go`) | LRU of cursors per scope, providers and model | pick, prune, clear | bindings, classification |
| Pricing (`policy/pricing_*.go`, `plugin/pricing_sync.go`, `policy/cost.go`) | catalogue, source status, sync loop | fetch, merge, overwrite alias prices, cost of a call | pricing file, alias table |
| Host interface, HTTP handlers, web console | none of their own | conversion | store operations |

### What is hard, and what correct means

* **State store.** Four kinds of goroutine meet at three locks. Some mutations publish first and save later,
  native ones save first. Usage samples wait for a lock with other samples in front of them, disks fail, processes
  die. Correct: a quota reset is final and all-or-nothing; only management calls change the keys on disk; the file
  never runs ahead of memory; nothing waits for ever; charges reach the file.
* **Ledger windows.** Day, rolling week and fixed week are replaced lazily by charges and recomputed on a copy by
  readers; clocks step back. Correct: what is read is the sum over the window it claims to be.
* **Limiter.** The clock is read before the mutex. Correct: no more than the limit in a window, at most one
  less than twice the limit in any minute, nobody denied without cause, a hint that suffices.
* **Tables.** PATCH is a read, an edit and a write with nothing held in between; derived models must follow the
  tables. Correct: the file always loads, references resolve, revoked secrets stay revoked.
* **Picks.** Authentication and routing are separate calls that share a choice through a queue without request
  identities. Correct: each request is forwarded to the target it was authenticated for; targets take turns.
* **Classification cache.** Filled without a lock around computation and store. Correct: groups in force are used.
* **Bindings and history.** Revision check, persist-before-publish, rollback markers, bounded history.
* **Native rotation.** Cursor LRU, pruning, shrinking candidate pools.
* **Pricing.** A long read-fetch-overwrite against concurrent edits, two sources that fail separately, two files that are
  written one after the other. Correct: an operator's decisions stand, the fallback only fills gaps, old prices are
  marked as such, automatic aliases follow their targets.
* **Quota gate and bills.** The spend is read before or after the rate limiter and long before the bill; prices change in
  between. Correct: a bill is the price of one sheet, and a limit is exceeded by no more than the requests under way.

`PROJECT.json` lists every hazard at its line with the properties that watch it.

## 2. Modules

| Module | Models | Checked by | Proved |
|---|---|---|---|
| `StateStore` | ledger, state file, flusher, locks, quota reset, reconfiguration, crash | `StateStore*.cfg` | safety and refinement |
| `NativeLedger` | abstract: what an operator may rely on for native spend | as PROPERTY of `StateStore` | refined by `StateStore` |
| `PolicyTables` | keys, aliases, PATCH, saves, reload | `PolicyTablesSafety.cfg` | all properties |
| `Pricing` | catalogue rows, alias prices, sync passes, both files | `Pricing*.cfg` | all properties |
| `QuotaGate` | spend limit, requests under way, bills under changing prices | `QuotaGate*.cfg` | all properties |
| `Cost` | the arithmetic of a bill, used by `QuotaGate` | `QuotaGateSafety.cfg` | five facts of its own |
| `RateLimiter` | one bucket and the clock | `RateLimiterSafety.cfg` | all properties |
| `UsageWindows` | the windows of one account and the clock | `UsageWindows.cfg` | all properties |
| `AliasPicks` | picks and counters of one key and alias | `AliasPicks*.cfg` | all properties |
| `ClassifyCache` | rules, cache, picks | `ClassifyCacheSafety.cfg` | all properties |
| `NativeBindings` | bindings of host keys, batches, restores and their history | `NativeBindingsSafety.cfg` | all properties, refinement |
| `RestrictionLog` | abstract: what an operator may rely on for restrictions | as PROPERTY of `NativeBindings` | refined by `NativeBindings` |
| `NativeScheduling` | picks for host keys, rotation cursors, bindings changing under them | `NativeSchedulingSafety.cfg` | all properties |

"All properties" are those of the passing run. The theorems about a module `M` are in `MProofs`, except that `QuotaProofs` holds those about `Cost`, `QuotaGate` and
`UsageWindows`, and `RoutingProofs` those about `PolicyTables` and `AliasPicks`. `UsageWindows` and `AliasPicks` therefore
name their specifications `WindowsSpec` and `PicksSpec`.

Each `MC*` module extends its specification with a symmetry set and, for `NativeBindings`, `NativeScheduling`, `Pricing`
and `QuotaGate`, with the values of structured constants; constants get their values in the `.cfg`.
Symmetry is used for invariants, action properties and the refinement, never for liveness. The definitions marked as
*broken variants* are plausible mistakes in one operation, unused by the specification: with one in place of the
definition that follows it, TLC finds the property violated that the mistake should break.

### StateStore

* `usage[a]` is the set of requests billed to account `a` in its current period, so that a lost or restored charge
  is visible; `file` is the state file, reduced to usage and key table. Accounts are the native scopes and the
  plugin's own keys.
* Locks. `updateMu` is `op` (who holds it, at which step, with which local copies). `persistMu` is `persist`, with
  what its holder carries. The two runtime locks that a quota reset holds across its write are `LedgerLocked`.
  Critical sections of `s.mu` are single actions.
* One action per critical section or file operation: `FlushLock` - `FlushSample` - `FlushLoad` - `FlushWrite` is
  `FlushUsage` with `SaveUsageOnly`; `BeginUpsert`/`BeginDelete` - `DeleteWipe` - `SaveLock` - `SaveWrite` is a
  mutation with its full save; `BeginReset` - `ResetLock` - `ResetPersist` - `ResetPublish` is a quota reset;
  `BeginConfigure` - `FlusherStopped` - flush - `ConfigLoad` - `ConfigPublish` - `StartUsageFlusher` is
  a reconfiguration. Each write has a failing twin. Writing is atomic: `atomicWriteStateFile` renames a temporary
  file.
* A request takes the ledger pointer (`RecordLookup`) and bills it later (`RecordCost`); when `Configure` replaces
  the ledger in between, the charge goes to a ledger nobody reads (`stale`). The lookup of the key and the
  read of the pointer are two short sections in the code and one action here; nothing distinguishes them except
  a replacement exactly in between, which then bills the new ledger for an old key.
* Not modelled: Shutdown (the first half of Configure without a reload), a change of state path, the baseline save
  of a first boot, bindings changing while requests run.

### PolicyTables

* A key is its secret, its alias references and the derived models; an alias is its set of targets. A mutation is
  a publication (`Publish`, under `mu`) followed by `SaveSucceeds` or `SaveFails`; `updateMu` is `saving`. PATCH
  reads (`PatchRead`) and writes back later, in one of the forms clients use.
* `Upsert` includes the migration of models into aliases that `normalizeConfig` runs inside `UpsertKey`.
* The secrets that an acknowledged deletion or rotation took away are remembered in `revoked`; an operator who
  deliberately sets one again takes it out. `replayed` is the part of it that a PATCH has written back.
* Abstracted: prices (`Pricing`), names, limits, enabled flag, keys in `config.yaml`, the copy of a legacy state file.

### Pricing

* `rows` is the catalogue (`Store.prices`), one row per normalized id with its source, its status and one price for its
  four rates; `deleted` are the tombstones, `health` the outcome of the last attempt at LiteLLM. `aliases` is the alias
  table reduced to pricing mode, billing mode and price; each alias has one target model.
* An edit of a row (`UpsertModelPrice`, `DeleteModelPrice`, `RestoreModelPriceAutomatic`) and a merge (`Apply`) write the
  pricing file and publish afterwards, all under `updateMu`. Only a boot or another holder of that lock reads the
  file, so the two are one step (`WriteAndPublish`).
* An edit of an alias publishes it (`EditAlias`), saves the state file and publishes the rows that the alias owns
  (`SaveAlias`, with `Reconciled`), and writes the pricing file (`WriteAliasPrices`). Either write may fail
  (`WriteFails`); the process may stop between them (`Restart`).
* `Merged` is `ApplyPricingSources`: ageing of rows (`Aged`), the candidate of two answers (`Effective`), which rows a
  candidate may replace (`Replaceable`), removal of the rows that automatic aliases put under their own names
  (`Unshadowed`). A source is down, or gives each id a price, zero, an image rate or nothing.
* A pass is a sync run, or the stamping that `Configure` does. After the merge it copies catalogue and aliases (`Snap`) and
  writes the copies back one by one (`Stamp`, `SaveStamp`), each under `updateMu`, with anything in between.
* History variables: `decided` and `wish` are what operators last decided about rows and aliases; `known` what LiteLLM last
  said; `exposed`, `lost` and `drift` mark the disturbances that the properties except, explained under section 3.
* Abstracted: fetching and parsing (answers are inputs), the preference of providers within a source (`Shadowed` names the
  ids where an alias's provider wins it), which keys refer to an alias (a deletion may always succeed), start and stop
  of the loop.

### Cost and QuotaGate

* `Cost` is the arithmetic of `ComputeCacheCostBreakdown` over natural numbers: fallbacks of the cache rates to the input
  rate, the hits that are part of the input and bounded by it, the two families of providers, the parts that the usage
  report splits off.
* `QuotaGate` is one account, of a native key or an access key, and several requests. The native gate reads the spend
  (`LookNative`) before it takes a slot (`SlotNative`), `Authenticate` the other way around (`SlotAccess`, `LookAccess`). An
  answer copies the first price it needs (`Answer`), the bill reads the rest and adds up (`RecordUsage`); rows and rules
  change in between. Whether there is a slot is left open (`RateLimiter`), as is when the window of the spend ends
  (`UsageWindows`): a reset is possible at any time.
* A native bill looks up the price sheet and the provider of the row separately (`native_quota.go:88-117`). `torn`
  remembers whose row has changed since.
* A call keeps two rows or rules apart: `from` is what the code copied, the rule derived from the alias (`Derived`) for an
  access key, and `alias`, a history field, the alias itself. `BillIsExact` takes its rates from the latter.

### RateLimiter

One bucket: `start` and `count`. `Sample` is the clock reading that `Allow` makes before it takes the mutex, `Allow`
the rest of it. Buckets of different accounts do not touch each other. The clock ticks and may be set back
(`MaxSteps` times). Time starts at 1 and 0 is Go's zero time. History variables: `cleared`, the requests
admitted before the last reset, and `rewinds`, how many windows a reading from before their start has replaced since.

### UsageWindows

`entry` is the ledger entry of one account. A window is its start and the set of charges it adds up: amounts are
floating-point sums, and which charges are in the sum is what the properties are about. `RecordCost` replaces
windows, `Report` (`Summary`) computes them on a copy, `ResetAccount` is `resetNativeQuotaAccounts` for a native account and
`resetUsage` for a key. `Day` divides `Week`, as in the code.

### AliasPicks

One key and one alias, so one queue and one counter. Each of Authenticate, Route and ResponseAlias copies the key's
rules first (`copy`) and then takes the lock: separate actions. The queue entry carries the request that made it as
a history field; the code does not know it. The time of a pick is read just before the lock and is one step with it
here: entries in the real queue can be out of order by that instant, far below the thirty seconds of their life.
Not modelled: the models endpoint, the body rewriting, the pre-charge of image requests.

### ClassifyCache

A pick is `Look`, `Compute`, `Fill`; a rule change `ChangeRules`, `ClearCache`, `Saved`; a reconfiguration `Configure`,
`ConfigureClears`. `rules` is what the current rules say about each candidate; the regular expressions and the
built-in fallback are inside that function. Every pick ends and may begin again (`Again`), about any candidate.

### NativeBindings

* `bindings` and `history` are memory, `file` is both in the state file, `commit` is what a mutation under
  `updateMu` has written and not yet published (`Save`, then `Publish`). A save may fail, the process may restart at
  any point. Single edits are `CreateNativeKeyBinding`, `UpdateNativeKeyBinding`, one field per request, and
  `DeleteNativeKeyBinding`; `ChangeRules` turns classification groups on and off.
* `PlanNativeBindingBatch` and `PlanNativeBindingRollback` are pure: what would change, and whether something
  forbids it. Each reason for a conflict is an operator of its own, in the order of the code. `Preview` computes a
  plan and gives the client its revision; `Apply` computes the plan again and goes on only if the revision is the
  same. The revision is a SHA-256 of the plan's inputs and is here the tuple of those inputs, so it has no collisions.
* `NewHistory` is the rest of the commit: the chain of markers (`MarkChain`), those an undone restore gives back
  (`RestoreMarkers`), newer batches that a restore supersedes (`Supersede`), the new record and the limit.
* Names, limits, model access and the enabled flag are one value per binding (`policy`); templates are whole bindings.
  Identities of records are creation times, which keeps their order. Previews that could not be applied are left out,
  and a client forgets a preview it has applied. The client's catalogue of keys and credentials is an input.
* `RestrictionLog` is the same to an operator who thinks of restrictions only: a table, the table in force, and a log of
  operations that remember what they took from each key they changed. A restore is the operation that gives back what
  another one took, to all its keys. The table is that of the file (`RestrictionsIn`), an operation a record's
  identity with what its changes had before (`OperationsIn`); previews, conflicts, instances, templates, policies and markers
  are not seen.

### NativeScheduling

* A pick is `Begin`, `CheckEnabled`, `Resolve` (copies the binding and checks the route), `Gate` (looks the binding up
  again), `Choose` (matching, priority, rotation under the cursor mutex) and `Return`. Bindings change (`ChangeBinding`,
  then `Prune`, both under `updateMu`), the plugin is switched on and off (`Configure`, then `ConfigureClears` after the
  lock is gone), quotas run out and come back (`ChangeSpent`).
* `cursors` is the map of cursors and `recent` the list that orders them by use, as an order: the pairs of cursors of which
  the first is not behind the second. `Listed` are its members and `Back` its last. A route is the set of providers a
  request is for; there is one model name. Whether a binding allows a provider is part of the binding.
* Abstracted: a group is the set of its credentials (the rules and their cache are `ClassifyCache`), a quota is a flag
  that the gate reads in one step (windows and rates are `UsageWindows` and `RateLimiter`), a candidate with an
  unusable status is one that is not offered. Requests without a caller scope are not picks of this module.
* History variables: `versions`, all that was in force during a pick; `waiting`, which credentials have been
  eligible ever since another was picked; `revived`, cursors written by a pick from a copy that was out of date.

## 3. Runs

Passing:

| Run | Question | Bounds |
|---|---|---|
| `store_safety` | Can any interleaving, disk error or crash undo a reset, lose keys or put spend on disk that memory lacks? Does an operator see the atomic ledger of `NativeLedger`? | 2 scopes, 1 key, 2 requests, 1 crash |
| `store_liveness` | Does every management call return, and does a charge reach the file? | 1 scope, 1 key, 1 request, 1 crash |
| `policy_safety` | Does the file always load, do routes follow the aliases, and does nothing but a PATCH under way bring a revoked secret back? | 2 keys, 2 secrets, 1 alias, 2 targets, 1 PATCH, 1 failure |
| `pricing_safety` | Do operators' decisions about rows and aliases stand, does models.dev only fill gaps, is stale what is old, do automatic aliases follow their targets? | 2 ids, 1 alias, 2 prices, 2 edits or failed writes, 1 run, 1 configure |
| `quota_gate` | By how much can a limit be exceeded, and is every bill the token-by-token price of one sheet? | 3 requests, limit 4, 2 rows, 3 rules, 4 answers |
| `rate_safety` | Does the limit hold, is nobody denied without cause, and is Retry-After enough? | 5 requests, limit 2, minute of 2 ticks, 1 step back |
| `usage_windows` | Is what is read the sum over its window, is a reported deadline kept, does a clock set back rewind or lose a fixed week? | 3 charges, 2 aliases, day 2, week 4, two and a half weeks, 1 step back |
| `picks_safety` | Does no pick serve twice, and do undisturbed requests keep their target? | 3 requests, 2 targets, queue of 2, 1 change |
| `classify_safety` | Which orders of steps leave a stale cache entry? | 3 picks, 2 candidates, capacity 1, 3 changes |
| `native_bindings` | Does a restore return exactly what was recorded and nothing an operator changed since; is what is applied what was shown; do markers survive undo of undo and a full history; does an operator see the atomic operations of `RestrictionLog`? | 2 scopes, 1 key, 2 credentials, 1 group, 2 policies, history of 3, 1 edit, 4 mutations, 1 failure or restart |
| `native_scheduling` | Is every answer allowed by a binding in force during the pick, is a bound key ever left to the host, is rotation fair under changing candidates? | 2 picks at a time, 1 key, 2 routes, 4 credentials of 2 priorities, 1 cursor, 1 change |

Why these bounds: every race found or excluded is between at most two requests, one management call, the flusher
and one failure. Two scopes are needed so that a reset can select one and leave the other, two requests so that one
can be billed before and one after a step. Keys share one alias, so that deleting, changing and merging it meets
references of the other key; a second secret is what rotations need. The limiter needs a minute with admissions of two
windows and one denied: five requests exhaust two windows of two, three of the four within one minute, which is the bound, and
one is denied. With a window replaced the run meets minutes of four; the bound is met only with more requests, and is a
theorem. Windows need two boundaries of each kind and a charge
in each. A history of three is full after three operations and the fourth cuts it; a restore, its undo and an edit
between them need four mutations. Two routes compete for the single cursor, so that eviction happens on most picks.
The queue is full with two picks, the cache with one. Pricing needs an id with an alias of its own name and the id of
its target, two prices to tell a change, and two edits so that a second one meets a sync that copied the first. Three
requests are the least that can be looked at, answered and billed at the same time; the limit is a few of the bills, so
that it is reached and passed. Every bound is a constant of its module
(`MaxCrashes`, `MaxFailures`, `MaxTime`, `MaxSteps`, `MaxChanges`, `MaxEdits`, `MaxOps`, `MaxUpsets`); nothing else is cut.
Deadlock checking is off for `RateLimiter` and `AliasPicks`, whose requests are finite and then over, and for
`NativeBindings`, whose mutations are.
No run states a type invariant, or `LiveIsDurable`, the plainest part of `BindingsInv`; they are proved.

Failing, a disagreement between code and its documentation:

| Run | Property | What happens |
|---|---|---|
| `store_reconfigure_loss` | `ReconfigureKeepsCharges` | a charge billed between the last flush of Configure and the replacement of the ledger is dropped |

Four more configurations state a promise of the documentation without the clause that a passing property carries (below). They
are not runs of `PROJECT.json`: they show behaviours that the clauses name, and TLC violates each in under a minute.

| Configuration | Module | Property | What happens |
|---|---|---|---|
| `AliasPicksExchange.cfg` | `MCAliasPicks` | `RoutedAsAuthenticated` | two requests authenticated in one order and routed in the other get each other's target, against `README.md:68` |
| `PricingManualAlias.cfg` | `MCPricing` | `ManualPricesStay` | an alias set to manual while a sync holds a copy of it is automatic again, at its old price, against `README.md:321` |
| `PricingFallback.cfg` | `MCPricing` | `UnpricedStaysUnpriced` | a failed sync and a reload drop a known-unpriced row, and models.dev fills it in, against `README.md:319` |
| `QuotaGateWriteRate.cfg` | `MCQuotaGate` | `AliasRatesBilled` | tokens an access key writes to a cache are billed at the input rate and not at the alias's rate for them, against `config.go:113-116`, with `config.go:143` |

Several passing properties carry an escape clause that names another imperfection of the code; without the clause
TLC shows it:

* `ChargeReachesFile`, `FlusherLost`: a Configure that fails after it stopped the flusher (`store.go:136`,
  `app.go:94-96`) leaves none running until a later one succeeds.
* `StaleOnlyByRace`, `raced`: a pick that computed groups from replaced rules stores them after the cache was cleared
  (`app.go:566`), and they stay until the next change.
* `RevivedOnlyByPatch`, `replayed`: a PATCH that read a key (`app.go:949`) before it was deleted or rotated writes the whole
  key back afterwards (`app.go:993`), its revoked secret included, although `store.go:253-255` means deletion and
  rotation to be final.
* `SharedWhenAlone`, `calm`: `Route` takes the oldest pick of the queue, whoever made it (`store.go:434`), so concurrent
  requests exchange targets: `AliasPicksExchange.cfg`.
* `CursorsAreLive`, `revived`: a pick that had copied the binding before a route was revoked puts the pruned cursor
  back. It costs a little memory and no authorization: `PickAuthorized` holds.
* `FallbackFillsGaps`, `lost`: the row of LiteLLM that keeps models.dev out may go by an edit or a reload. A row known to
  have no price and marked stale by a failed run is dropped at the next restart (`pricing_file.go:302-304`,
  `PricingFallback.cfg`), and an automatic alias whose target names the same provider, or a preferred one, replaces a sourced row; a run without LiteLLM
  then lets models.dev fill the gap.
* `AliasesStand`, `exposed`: a pass writes back whole copies of aliases (`pricing_sync.go:312-349`), so an alias set to manual or
  deleted between copy and write is automatic again (`PricingManualAlias.cfg`), or back.
* `AliasesFollow`, `drift`: edits, failed writes, reloads and overlapping passes leave prices that only the next
  undisturbed run brings in line; and a run that reaches no source ends before the aliases although its merge may have
  removed the row that an alias's price came from.
* `BillIsExact`, `torn`: where the row changed between the two lookups of a native bill, hits may be counted in the
  way of the other row's provider.
* `BillIsExact`, `ButWrites`: of an alias's rates the one for cache writes is left out, by name, because it never reaches
  the models of an access key (`store.go:914-954`, `QuotaGateWriteRate.cfg`).

`SlidingBound` has no escape clause but counts: a request overtaken between its clock reading and the mutex
(`limiter.go:38`) looks like a clock set back and reopens a full window, and each window so replaced adds as much to what
a minute may admit as a minute may admit without one.

Seen while modelling and not a run:

* A PATCH that replaces only the aliases of a key (`app.go:981`) answers with success and keeps the old ones, because the
  upsert rebuilds aliases from the key's models (`config.go:398-456`), which are never empty in memory.
* Aliases in `config.yaml` replace those of the state file on every load (`store.go:162`), though `README.md:317` calls the
  state file the source of truth. `FileLoads` is therefore stated for a `config.yaml` without aliases.
* Upserting a key with models changes a shared alias (`store.go:1053`) but not the derived models of other keys, so memory
  and a reload differ.
* The response of a request that is not streamed rotates the round-robin counter once more (`store.go:563`).
* "Undo last" may offer a batch whose effect a manual deletion has already undone.
* A clock that is set back over midnight, and returns, empties the day twice (`usage.go:128`).
* An alias switched to automatic at the price of a manual alias that shares its target deletes that alias's row; deleting
  either may leave a row at the other's price.
* An access key with several targets is billed by the provider of the first, and a manual row without a provider counts
  hits as part of the input.
* A native request that is refused for its spend has already used a slot of its rate (`native_quota.go:165-186`).

### Fairness

Only `StateStore` states liveness. Steps of a goroutine that hold no lock others wait for get weak fairness: the Go
scheduler runs every runnable goroutine. Acquisition of `persistMu` gets strong fairness: `sync.Mutex` switches to
starvation mode and hands itself to the waiter. `FlusherExit` gets it because `select` chooses at random between a
tick and `stopCh`. `FlushLoad` and `FlushWrite` get it because a disk that refuses every write for ever voids every
promise about the file; a single refusal, or any finite number, is allowed. Nothing makes requests, operators, the
host or crashes happen.

## 4. Proofs

Every theorem holds for any sets of keys, requests, models and so on, and any bounds; what is assumed of the
constants are the named assumptions of the modules, which TLC evaluates in each run.

`StateStoreProofs`, from `AccountsDisjoint` (no key is named like a native scope), `CrashBound` and `DiskAssumption`:

* `StoreTypeOK`: `TypeOK` always holds.
* `StoreInvHolds`: `StoreInv` always holds. `ResetIsFinal` and the others are not inductive: whether a flush may
  bring a removed charge back depends on what the flush carries and on who may hold `persistMu` at that moment. The
  strengthening is a conjunction, with one step lemma each:
  * `LockDiscipline` - who holds which lock at which step (`LockStep`);
  * `ChargedOnce` - every copy of the ledger holds billed requests, under their own account (`ChargedStep`);
  * `WipedGone` - no copy, in memory, on disk or under way, holds a removed charge (`WipedStep`);
  * `NoneAhead` - every copy of native spend under way is contained in memory, and a reset that holds the runtime
    locks has memory unchanged (`AheadStep`);
  * `KeysKept` - a flush about to write carries the key table the file has (`KeysStep`).
* `ResetFinal`, `FailedResetKeeps`, `FileBehind`, `KeysDurable`: the four safety properties, each from `StoreInv`.
* `StoreRefinesLedger`: `Spec => LedgerSpec`. Mapping: `live` is memory, seen as cleared as soon as a reset has
  reached the file (`EffectiveUsage`); `stored` is the file; `billed` the requests that were billed. `RefineStep` maps
  each action: `RecordCost` to `Charge`, file writes to `Store`, `ResetPersist` to `Reset`, `ConfigPublish` and
  `Crash` to `Reload`, the rest to stuttering.

`RoutingProofs`, about `PolicyTables`:

* `RevokedStayRevoked`: `RevivedOnlyByPatch` is inductive but for the value of a key that has no secret, which is never
  among the revoked ones (`NeverRevoked`).
* `RoutesFollowAliases`: the derived models of a key never exceed the targets of its aliases; an upsert only adds targets,
  and a deletion or a load derives all models anew.
* `FileAlwaysLoads`: references in memory and in the file resolve (`RefsResolve`), and a save writes what memory holds, if
  `config.yaml` defines no alias, which is where the code does not guarantee it.

`RoutingProofs`, about `AliasPicks`, for any requests and targets, length of the queue and life of a pick:

* `PicksHold`: `PicksInv` always holds. `PickUsedOnce` (`PicksServeOnce`) is not inductive alone: a request that takes a pick
  must not remember another, which is `OwnedInv` - only a request past Authenticate has a pick pending or taken - and
  stages never go back over it (`RememberedStay`). The queue is handled in four lemmas on sequences: expiry, the cap and
  taking the oldest pick all leave a suffix (`PrunedIsLater`, `CappedIsLater`, `TakenIsLater`), and a suffix keeps what
  the picks of the queue have in common (`LaterKeeps`).
* `AloneMeansShared`, by `CalmInv`: as long as requests come one at a time, at most one is under way, and the queue holds
  its pick between Authenticate and Route, fresh, and nothing else.

`PricingProofs`:

* `RowDecisionsStand`, by `DecisionInv`: what was decided has an operator's source and no tombstone, and while an alias is being
  saved nothing stands decided that its rows would overrule.
* `AliasDecisionsStand`, by `AliasInv`: no copy that a pass holds of an alias that is not `exposed` contradicts what was
  decided about it or is about to be (`CopiesAgree`).
* `FallbackOnlyFillsGaps` and `StaleRowsAreOld`, by `SourceInv`: no row beside a tombstone, and both catalogues, memory and
  file, agree with what LiteLLM last said. `MergeOutcome` and `ReconcileOutcome` say what a merge and an edit do to it.
* `AliasesFollowTargets`, by `RunInv`: while an undisturbed run is under way, each automatic alias has its price or a copy
  that will give it.

`QuotaProofs`, about `Cost`, for every sheet and every number of tokens: `InputBilledOnce`, `ReportedInputIsBilled`,
`PartsWithinBill`, `HitsNeverCostMore`, and `BilledByToken`: the bill is the sum over the tokens, one by one, that `ByToken`
adds up with a fold. The fold is a function chosen by its recursion. `SumOfRates` shows that the closed form satisfies
the recursion, so that there is such a function, and that it is the only one: a smallest set on which another
differed would differ from itself (`LeastOf`, from the well-foundedness of the naturals).

`QuotaProofs`, about `QuotaGate`, for any requests, limit, prices and answers:

* `OverrunIsBounded`, by `GateInv`. Its core is `RoomInv`: the spend, and one largest bill for each request
  under way, stay below the limit and one largest bill for each of the `crowd`; a request that looks at the spend takes
  its place in the crowd, a bill uses it up. It needs that a bill by any row the catalogue may get meanwhile is
  bounded (`NativeBillBounded`, `AccessBillBounded`, from `BillAssumption`).
* `BillsAreExact`, by `TornInv`: the row copied for a native request is still the one in the catalogue, or the request is
  `torn`. A provider matters to a bill only by how it counts hits (`SameBill`), so the two possible ways of a torn bill
  are all there are.

`QuotaProofs`, about `UsageWindows`, for any charges, aliases, lengths of day and week, and clock:

* `WindowsHold`: `WindowsInv` always holds. While the clock runs forward it says, of the account's day (`DayInv`), its rolling
  week (`RollingInv`), its fixed week (`FixedInv`) and the rows of the breakdown (`AliasDayInv`, `AliasWeekInv`), which charges
  each holds and where each starts. The entry is replaced lazily, so a window is tied to the last charge and not
  to the clock; what a reader is shown follows from it (`WeekReadNow`, `DeadlineNow`). `PromiseInv` does this for the deadlines.
* `DaysAreExact`, `WeeksAreExact`, `DeadlinesStand`, `RowsAddUp`, `FixedWeeksAdvance`: the five properties. `AliasWeekInv` needs no
  running clock, because `Advance` never goes back; hence what the last two say of fixed weeks holds after a step back as well.
* The arithmetic is in lemmas about rounding down: what a day and a fixed week contain, and that they follow each other
  (`DivMonotone`, `DayMonotone`, `FixedStartFacts`, `FixedMonotone`).

`RateLimiterProofs`: `HintsAreEnough`, `SlidingBounded` and `DenialsAreFair`, by `WindowInv`: whatever minute is
taken, `Within` bounds what it has admitted by where it starts: before the window in force and reaching into it, all but the
first request of an earlier window and what the bucket counts; after its start, all but the first of what it counts; after its
end, nothing. Each window replaced by an earlier one is `Forgiven` the most that a minute may hold. One lemma for each way of
being admitted (`JoinRoom`, `OpenRoom`, `FirstRoom`, `RewindRoom`) is arithmetic on these bounds. `DenialsAreFair` needs only that
the window that denies has admitted at least what it counts.

`ClassifyCacheProofs`: `CacheTypeOK` (the cache never exceeds its capacity) and `StaleEntriesAreRaced`, by `ComputedFromSeen`:
what a pick is about to store is right, or was computed before the last change of the rules.

`NativeSchedulingProofs`: `PicksAreAuthorized` and `BoundNeverDelegated`, by `AuthorityInv`: what a pick has copied is among the
versions it has seen. `RotationIsFair`, by `AheadInv`: what has been eligible ever since a credential was picked lies,
around the cycle of ids, between the cursor and that credential. `CursorsLive` takes `LiveInv` (which routes have cursors)
and `OrderInv`: the list is an order of exactly the cursors in the table (`ListOrder`), of which every nonempty set has a
last one, and they are no more than the capacity. Existence of a last one is part of the invariant, so that no induction over
the list is needed to evict it; removing (`ListWithout`) and putting in front (`ListInFront`) preserve it. The run has a
capacity of one; the theorem holds for every capacity.

`NativeBindingsProofs`, for any keys, credentials, groups, policies, catalogues and limit of the history:

* `BindingsTyped`, `NothingLiveIsUnsaved`: `BindingsInv` always holds. It speaks of the state file, where every mutation
  arrives first, and says of memory only that it equals the file when nobody holds `updateMu` (`CommitInv`). In the file,
  no two bindings share an id or a key (`GoodTable`), no record lists an id or a key twice (`GoodHistory`), and what the
  last batch or restore left of a key is what the newest record about the key says (`LatestLeft`). A preview is
  the plan of its own revision (`PreviewInv`).
* `PlansAlwaysValid`, `AppliedAsShown`, from what a plan without conflicts is (`BatchPlanIsGood`, `RestorePlanIsGood`) and what the
  commit makes of it (`StampedTable`, `StampedChangeFacts`).
* `RestoresAreComplete`, `OnlyRecordedIsReplaced`, `PoliciesSurvive`: what a restore puts back and what it leaves alone.
  `LatestLeft` is what the second one is about: `RestoredWasLeft` carries the comparison with the newest record over to the
  binding itself.
* `UndoneRestoresLeaveNoMark`, by `MarksInv`: records are numbered downwards, and the markers of the newest one are exactly the
  differences between the marks before it (`base`) and the marks in the file. The chain that `MarkChain` walks does not
  matter: whatever a restore marked, its own record says what to put back (`UndoneMark`).
* `BindingsKeepTheLog`: `Spec => LogSpec`. `StepRefines` maps a single edit to `Edit` (`EditIsEdit`: at most two keys
  change), a committed batch or restore to `Operation` (`CommitIsOperation`, from what it lists, `BatchLists` and
  `RestoreLists`, and what it leaves, `RestoredTable`), `Publish` and `Restart` to `Publish`, and a failed save, a preview or
  a rule change to stuttering. `MarksInv` is needed because the new identity must not be in the log yet.

Assumptions: those that only give a bound its type or a sentinel its identity (`NoneAssumption`: no binding, restriction, preview or
table is the value that stands for its absence; `BoundAssumption`, `StepBound`, `TimeBound` and the like: bounds are natural
numbers), and those that say what the code says: limits and capacities are positive, `Day` divides `Week`, the default
policy is a policy, a batch asks for at least one credential. Where a theorem needs another condition, it is in its
statement (`FileAlwaysLoads`). The bounds on edits, failures and time are any natural numbers.

Only model-checked:

* liveness (`ManagementReturns`, `ChargeReachesFile`), which needs fairness and ENABLED;
* the counterexamples, each of which is one behaviour.

Every property of a passing run but those two is a theorem.

## 5. Plan

What is left, in this order:

1. The loop of the pricing syncer: that a reconfiguration ends the old loop before it starts another. Two that overlap
   may leave one running that nobody stops.
2. `StateStore`: Shutdown, a change of state path, the first save of a boot; the account of a deleted access key that
   stays on file until the next flush (`store.go:1091`).
3. `AliasPicks` and `NativeScheduling` composed through the group that a plugin key puts into the metadata.

Modules to be proved about hold no RECURSIVE operator and name their assumptions on constants.

## 6. Not modelled

The C interface, HTTP decoding and encoding and the web console keep no policy state. Secrets are values: hashing
and header extraction are pure functions of strings. Regular expressions, model-name normalization and the fetching and
parsing of catalogues are data. Floating-point amounts are sets of charges, or natural numbers in `Cost` and `QuotaGate`.
Functions that only tests call (`ComputeCost`, `ParseTokenUsage`, `RecordResponseCost`, `MergeCatalogPricing`,
`ReplaceCatalogPricing`, `RecordPricingSyncResult`) are left out.
