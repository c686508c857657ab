-------------------------------- MODULE Cost --------------------------------
(***************************************************************************)
(* The price of a call (internal/policy/cost.go) and the split of its      *)
(* tokens that the usage report shows (store.go, native_quota.go).         *)
(*                                                                         *)
(* A sheet has the four rates of a row or a rule, as natural numbers: the  *)
(* code multiplies floating-point dollars per million tokens.  A rate of   *)
(* zero for cache reads or writes stands for the input rate.  A detail has *)
(* the token counts that the host reports: input, output, read, cached     *)
(* (cache hits as the other providers name them) and written.              *)
(***************************************************************************)
EXTENDS Naturals

Rates == [input : Nat, output : Nat, read : Nat, write : Nat]
Tokens == [input : Nat, output : Nat, read : Nat, cached : Nat, written : Nat]

\* Providers that report cache hits beside the input tokens; the others count
\* them among the input tokens.
CacheAdditive(provider) == provider = "claude"

Empty(detail) == detail.input = 0 /\ detail.output = 0

ReadRate(sheet) == IF sheet.read = 0 THEN sheet.input ELSE sheet.read
WriteRate(sheet) == IF sheet.write = 0 THEN sheet.input ELSE sheet.write

Reported(detail) == IF detail.read = 0 THEN detail.cached ELSE detail.read

\* Broken variant: cache hits that the input they are part of does not bound.
HitsAll(provider, detail) == Reported(detail)

\* The cache hits that are billed: no more than the input they are part of.
Hits(provider, detail) ==
    IF ~CacheAdditive(provider) /\ Reported(detail) > detail.input THEN detail.input
    ELSE Reported(detail)

\* The tokens billed at the input rate.
PlainInput(provider, detail) ==
    IF CacheAdditive(provider) THEN detail.input
    ELSE detail.input - Hits(provider, detail)

ReadBill(provider, sheet, detail) == Hits(provider, detail) * ReadRate(sheet)
WriteBill(sheet, detail) == detail.written * WriteRate(sheet)

\* ComputeCacheCostBreakdown: the whole bill; a call without input and output
\* is free whatever it read from the cache.
ComputeCacheCost(provider, sheet, detail) ==
    IF Empty(detail) THEN 0
    ELSE PlainInput(provider, detail) * sheet.input
         + ReadBill(provider, sheet, detail) + WriteBill(sheet, detail)
         + detail.output * sheet.output

\* The parts of the bill that the report shows: only explicit cache rates.
ReadCost(provider, sheet, detail) ==
    IF Empty(detail) \/ sheet.read = 0 THEN 0 ELSE ReadBill(provider, sheet, detail)
WriteCost(sheet, detail) ==
    IF Empty(detail) \/ sheet.write = 0 THEN 0 ELSE WriteBill(sheet, detail)

\* The input of the hit rate in the report, computed again by RecordUsage and
\* recordNativeUsage.
NonCacheInput(provider, detail) ==
    IF CacheAdditive(provider) THEN detail.input
    ELSE detail.input - (IF Reported(detail) > detail.input THEN detail.input
                         ELSE Reported(detail))
=============================================================================
