----------------------------- MODULE QuotaGate -----------------------------
(***************************************************************************)
(* The spend limit of one account and the bills that count against it: the *)
(* gate of a native key (CheckNativeKeyQuota, native_quota.go) or of an    *)
(* access key (Authenticate, store.go), and RecordUsage.                   *)
(*                                                                         *)
(* The native gate reads the spend before it asks the rate limiter, the    *)
(* other one after.  A request is billed when the host reports its answer, *)
(* by prices that may have changed since it was let in and may change      *)
(* while it is billed.                                                     *)
(*                                                                         *)
(* The spend is that of one window; when windows end is UsageWindows.      *)
(* Whether the limiter has a slot is RateLimiter and is left open here.    *)
(***************************************************************************)
EXTENDS Cost, FiniteSetsExt

CONSTANTS
    Requests,   \* at a time; one that is over may begin again
    Kinds,      \* of account: "native", "access"
    Limit,      \* the spend limit; without one the gate does not read the spend
    Rows,       \* rows the catalogue may have for the model: [provider, sheet]
    Rules,      \* rules the alias may have: [mode, provider, sheet, perCall]
    Details,    \* token counts of an answer
    MaxBill,    \* no bill is larger
    NoRow,      \* no usable row: none, known unpriced or of an image model
    NoCall      \* nothing to bill yet

ASSUME LimitAssumption == Limit \in Nat \ {0}
ASSUME KindAssumption == Kinds \subseteq {"native", "access"}
ASSUME PriceAssumption ==
    /\ Rows \subseteq [provider : STRING, sheet : Rates]
    /\ Rules \subseteq [mode : {"tokens", "per_call"}, provider : STRING,
                        sheet : Rates, perCall : Nat]
    /\ Details \subseteq Tokens

\* resolveAliasRefsToModels does not copy the rate of cache writes.
Derived(r) == [r EXCEPT !.sheet = [r.sheet EXCEPT !.write = 0]]

Sheets ==
    {price.sheet : price \in Rows} \cup {Derived(price).sheet : price \in Rules}

ASSUME BillAssumption ==
    /\ MaxBill \in Nat
    /\ \A p \in {"claude", "other"}, sheet \in Sheets, detail \in Details :
          ComputeCacheCost(p, sheet, detail) <= MaxBill
    /\ \A price \in Rules : price.perCall <= MaxBill

VARIABLES
    kind,    \* the account's
    spend,   \* its ledger entry
    stage,   \* per request
    row,     \* the catalogue's row
    rule,    \* the alias's prices
    call,    \* per request: the answer, the prices copied for it and, as
             \* history, the alias's rule they were copied from
    torn,    \* history: requests whose row has changed since it was copied
    crowd    \* history: most requests under way at once since the last reset

vars == <<kind, spend, stage, row, rule, call, torn, crowd>>

\* Broken variant: a limit that may be reached and used again.
OverLimitLate(amount) == amount > Limit

OverLimit(amount) == amount >= Limit

\* Past the look at a spend below the limit, and able to add to it.
Underway(stages) == {r \in Requests : stages[r] \in {"under", "passed", "priced"}}

Init ==
    /\ kind \in Kinds
    /\ spend = 0
    /\ stage = [r \in Requests |-> "idle"]
    /\ row \in Rows \cup {NoRow}
    /\ rule \in Rules
    /\ call = [r \in Requests |-> NoCall]
    /\ torn = {}
    /\ crowd = 0

-----------------------------------------------------------------------------
\* A request moves on; whoever looked at the spend just now counts as under way.
Moves(r, to) ==
    /\ stage' = [stage EXCEPT ![r] = to]
    /\ crowd' = Max({crowd, Cardinality(Underway(stage'))})

\* CheckNativeKeyQuota reads the spend first,
LookNative(r) ==
    /\ kind = "native" /\ stage[r] = "idle"
    /\ Moves(r, IF OverLimit(spend) THEN "over" ELSE "under")
    /\ UNCHANGED <<kind, spend, row, rule, call, torn>>

\* ... takes or misses a slot of the rate limit, and only then judges.
SlotNative(r) ==
    /\ kind = "native" /\ stage[r] \in {"under", "over"}
    /\ \/ stage[r] = "under" /\ Moves(r, "passed")
       \/ Moves(r, "idle")
    /\ UNCHANGED <<kind, spend, row, rule, call, torn>>

\* Authenticate takes a slot first,
SlotAccess(r) ==
    /\ kind = "access" /\ stage[r] = "idle"
    /\ Moves(r, "slotted")
    /\ UNCHANGED <<kind, spend, row, rule, call, torn>>

\* ... and asks OverLimit with the slot taken.
LookAccess(r) ==
    /\ stage[r] = "slotted"
    /\ Moves(r, IF OverLimit(spend) THEN "idle" ELSE "passed")
    /\ UNCHANGED <<kind, spend, row, rule, call, torn>>

-----------------------------------------------------------------------------
HasTokenPrices(sheet) == \E rate \in DOMAIN sheet : sheet[rate] > 0

NoTokens == [input |-> 0, output |-> 0, read |-> 0, cached |-> 0, written |-> 0]

\* The host reports an answer, and RecordUsage copies the first of what it
\* needs: the catalogue's row for a native key, the rule for an access key.
Answer(r, detail) ==
    /\ stage[r] = "passed"
    /\ Moves(r, "priced")
    /\ call' = [call EXCEPT ![r] = [detail |-> detail, alias |-> rule,
                   from |-> IF kind = "native" THEN row ELSE Derived(rule)]]
    /\ UNCHANGED <<kind, spend, row, rule, torn>>

\* Authenticate itself charges image and video requests that are billed per
\* call, for which the host reports no usage; they count no tokens.
PreCharge(r) ==
    /\ kind = "access" /\ rule.mode = "per_call"
    /\ Answer(r, NoTokens)

\* The host reports a failure, or nothing at all.
Fail(r) ==
    /\ stage[r] = "passed"
    /\ Moves(r, "idle")
    /\ UNCHANGED <<kind, spend, row, rule, call, torn>>

\* recordNativeUsage: the sheet copied, and the provider of the row that is
\* there by now.
NativeBill(c) ==
    IF c.from = NoRow THEN 0
    ELSE ComputeCacheCost(IF row = NoRow THEN "" ELSE row.provider,
                          c.from.sheet, c.detail)

\* RecordUsage: the rule's price per call, its rates, or the catalogue's.
AccessBill(c) ==
    IF c.from.mode = "per_call" THEN c.from.perCall
    ELSE ComputeCacheCost(c.from.provider,
                          IF HasTokenPrices(c.from.sheet) \/ row = NoRow THEN c.from.sheet
                          ELSE row.sheet,
                          c.detail)

RecordUsage(r) ==
    /\ stage[r] = "priced"
    /\ spend' = spend + (IF kind = "native" THEN NativeBill(call[r])
                         ELSE AccessBill(call[r]))
    /\ Moves(r, "idle")
    /\ call' = [call EXCEPT ![r] = NoCall]
    /\ torn' = torn \ {r}
    /\ UNCHANGED <<kind, row, rule>>

-----------------------------------------------------------------------------
\* A sync or an edit of the row.
ChangeRow(new) ==
    /\ new # row
    /\ row' = new
    /\ torn' = {r \in Requests : stage[r] = "priced"}
    /\ UNCHANGED <<kind, spend, stage, rule, call, crowd>>

\* An edit of the alias or of the key.
ChangeRule(new) ==
    /\ kind = "access" /\ new # rule
    /\ rule' = new
    /\ UNCHANGED <<kind, spend, stage, row, call, torn, crowd>>

\* ResetNativeKeyQuotas and ResetUsage.
Reset ==
    /\ spend > 0
    /\ spend' = 0
    /\ crowd' = Cardinality(Underway(stage))
    /\ UNCHANGED <<kind, stage, row, rule, call, torn>>

GateStep ==
    \E r \in Requests :
        LookNative(r) \/ SlotNative(r) \/ SlotAccess(r) \/ LookAccess(r)

BillStep ==
    \E r \in Requests :
        \/ \E detail \in Details : Answer(r, detail)
        \/ PreCharge(r) \/ Fail(r) \/ RecordUsage(r)

OperatorStep ==
    \/ \E new \in Rows \cup {NoRow} : ChangeRow(new)
    \/ \E new \in Rules : ChangeRule(new)
    \/ Reset

Next == GateStep \/ BillStep \/ OperatorStep

Spec == Init /\ [][Next]_vars

-----------------------------------------------------------------------------
(* Properties.                                                             *)

\* The price of a call token by token, by the rules of cost.go:13-21: every
\* token that was read in is either a cache hit or plain input, and the hits of
\* the providers that are not additive are among the input.
ByToken(provider, sheet, detail) ==
    LET readIn == detail.input + (IF CacheAdditive(provider) THEN Reported(detail) ELSE 0)
        rate(i) == IF i <= Reported(detail) THEN ReadRate(sheet) ELSE sheet.input
    IN IF Empty(detail) THEN 0
       ELSE MapThenSumSet(rate, 1 .. readIn)
            + detail.written * WriteRate(sheet) + detail.output * sheet.output

\* A native call is billed by one row, the one of its sheet, token by token,
\* unless the row changed between the two lookups; then only the way the
\* provider counts its hits can be another row's.
NativePrices(r) ==
    LET providers == IF r \in torn THEN {"", "claude"}
                     ELSE {call[r].from.provider}
    IN IF call[r].from = NoRow THEN {0}
       ELSE {ByToken(p, call[r].from.sheet, call[r].detail) : p \in providers}

\* An alias's rates but for the one of cache writes, which no key ever gets
\* (AliasRatesBilled); written tokens are then billed at the input rate.
ButWrites(sheet) == [sheet EXCEPT !.write = 0]

\* An access key's call is billed by the alias it was answered under: what the
\* alias costs per call, its rates but for the one of cache writes, or the
\* catalogue's when it has none.
AccessPrices(r) ==
    LET alias == call[r].alias
        own   == ButWrites(alias.sheet)
        free  == alias.mode = "tokens" /\ ~HasTokenPrices(own)
    IN {IF alias.mode = "per_call" THEN alias.perCall
        ELSE ByToken(alias.provider, IF free /\ row # NoRow THEN row.sheet ELSE own,
                     call[r].detail)}

\* Whatever changes while a call is billed, the bill is what the price list it
\* was answered under makes of its tokens one by one (RecordUsage,
\* recordNativeUsage).
BillIsExact ==
    [][\A r \in Requests :
          stage[r] = "priced" /\ stage'[r] = "idle" =>
              spend' - spend \in IF kind = "native" THEN NativePrices(r)
                                 ELSE AccessPrices(r)]_vars

\* config.go:113-116: "CacheWritePricePerMillion is the USD price per 1M
\* cache-creation (write) tokens [...] 0 = bill cache writes at the regular
\* input price", of an alias by config.go:143: "Pricing fields (same semantics
\* as ModelRule)".  An access key's call under an alias that has token prices
\* is billed by all of them, the rate of cache writes included.
AliasRatesBilled ==
    [][\A r \in Requests :
          LET alias == call[r].alias
          IN /\ kind = "access" /\ stage[r] = "priced" /\ stage'[r] = "idle"
             /\ alias.mode = "tokens" /\ HasTokenPrices(alias.sheet)
             => spend' - spend = ByToken(alias.provider, alias.sheet, call[r].detail)]_vars

\* store.go:380-383: "the request that pushes usage over the limit is allowed
\* through, and the next request is rejected".  The spend exceeds the limit by
\* less than one bill for each request that was ever under way together with
\* others since the last reset, and by less than one bill when they come one
\* after another.
OverrunBounded == spend > 0 => spend < Limit + MaxBill * crowd
=============================================================================
