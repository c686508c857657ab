---------------------------- MODULE QuotaProofs ----------------------------
(***************************************************************************)
(* Proofs about the quotas: the bill of a call (Cost), for every rate and  *)
(* every number of tokens; the gate that bills are held against            *)
(* (QuotaGate), for any requests, limit, prices and answers; and the       *)
(* windows that add bills up (UsageWindows), for any charges, aliases,     *)
(* window lengths and clock.                                               *)
(***************************************************************************)
EXTENDS QuotaGate, UsageWindows, FiniteSetTheorems, WellFoundedInduction, TLAPS

-----------------------------------------------------------------------------
(* The bill.                                                               *)

\* More tokens at a rate, and tokens at a higher rate, cost no less.
LEMMA ProductMonotone ==
    ASSUME NEW m \in Nat, NEW n \in Nat, NEW r \in Nat, NEW q \in Nat,
           m <= n, r <= q
    PROVE  /\ m * r \in Nat
           /\ m * r <= n * q
<1>1. PICK d \in Nat : n = m + d
  <2>1. n - m \in Nat /\ n = m + (n - m)
    OBVIOUS
  <2>2. QED
    BY <2>1
<1>2. PICK e \in Nat : q = r + e
  <2>1. q - r \in Nat /\ q = r + (q - r)
    OBVIOUS
  <2>2. QED
    BY <2>1
<1>3. n * q = m * r + (m * e + d * r + d * e)
  BY <1>1, <1>2
<1>4. m * r \in Nat /\ m * e \in Nat /\ d * r \in Nat /\ d * e \in Nat
  BY <1>1, <1>2
<1>5. QED
  BY <1>3, <1>4

\* Billed hits, and the other input, are numbers of tokens.
LEMMA HitsType ==
    ASSUME NEW provider, NEW detail \in Tokens
    PROVE  /\ Hits(provider, detail) \in Nat
           /\ PlainInput(provider, detail) \in Nat
           /\ Hits(provider, detail) <= Reported(detail)
  BY DEF Tokens, Hits, Reported, PlainInput

\* The parts of a bill are amounts.
LEMMA BillType ==
    ASSUME NEW provider, NEW sheet \in Rates, NEW detail \in Tokens
    PROVE  /\ ReadBill(provider, sheet, detail) \in Nat
           /\ WriteBill(sheet, detail) \in Nat
           /\ PlainInput(provider, detail) * sheet.input \in Nat
           /\ detail.output * sheet.output \in Nat
<1>1. ReadRate(sheet) \in Nat /\ WriteRate(sheet) \in Nat
  BY DEF Rates, ReadRate, WriteRate
<1>2. /\ detail.written \in Nat /\ detail.output \in Nat
      /\ sheet.input \in Nat /\ sheet.output \in Nat
  BY DEF Tokens, Rates
<1>3. Hits(provider, detail) \in Nat /\ PlainInput(provider, detail) \in Nat
  BY HitsType
<1>4. \A m \in Nat, r \in Nat : m * r \in Nat
  BY ProductMonotone
<1>5. QED
  BY <1>1, <1>2, <1>3, <1>4 DEF ReadBill, WriteBill

\* Where cache hits are part of the input, every input token is billed exactly
\* once, at one of the two rates, however many hits the upstream claims.
THEOREM InputBilledOnce ==
    ASSUME NEW provider, NEW detail \in Tokens, ~CacheAdditive(provider)
    PROVE  PlainInput(provider, detail) + Hits(provider, detail) = detail.input
<1>1. detail.input \in Nat /\ Reported(detail) \in Nat
  BY DEF Tokens, Reported
<1>2. QED
  BY <1>1 DEF PlainInput, Hits

\* The input that the usage report takes for its hit rate, which the usage
\* code computes again, is the input that the bill charges in full.
THEOREM ReportedInputIsBilled ==
    ASSUME NEW provider, NEW detail \in Tokens
    PROVE  NonCacheInput(provider, detail) = PlainInput(provider, detail)
  BY DEF NonCacheInput, PlainInput, Hits

\* The cache costs that the report splits off are part of the bill: the rest,
\* which the report attributes to other tokens, is never negative.
THEOREM PartsWithinBill ==
    ASSUME NEW provider, NEW sheet \in Rates, NEW detail \in Tokens
    PROVE  /\ ComputeCacheCost(provider, sheet, detail) \in Nat
           /\ ReadCost(provider, sheet, detail) + WriteCost(sheet, detail)
                  <= ComputeCacheCost(provider, sheet, detail)
<1>1. CASE Empty(detail)
  BY <1>1 DEF ComputeCacheCost, ReadCost, WriteCost
<1>2. CASE ~Empty(detail)
  <2>1. /\ ReadCost(provider, sheet, detail) \in {0, ReadBill(provider, sheet, detail)}
        /\ WriteCost(sheet, detail) \in {0, WriteBill(sheet, detail)}
    BY <1>2 DEF ReadCost, WriteCost
  <2>2. ComputeCacheCost(provider, sheet, detail)
            = PlainInput(provider, detail) * sheet.input
              + ReadBill(provider, sheet, detail) + WriteBill(sheet, detail)
              + detail.output * sheet.output
    BY <1>2 DEF ComputeCacheCost
  <2>3. QED
    BY <2>1, <2>2, BillType
<1>3. QED
  BY <1>1, <1>2

\* Cache hits at a discount never make a call dearer where they are part of
\* the input: the bill is at most that of the same call without any hit.
THEOREM HitsNeverCostMore ==
    ASSUME NEW provider, NEW sheet \in Rates, NEW detail \in Tokens,
           ~CacheAdditive(provider), sheet.read <= sheet.input
    PROVE  ComputeCacheCost(provider, sheet, detail)
               <= ComputeCacheCost(provider, sheet,
                                   [detail EXCEPT !.read = 0, !.cached = 0])
<1> DEFINE cold  == [detail EXCEPT !.read = 0, !.cached = 0]
           plain == PlainInput(provider, detail)
           hits  == Hits(provider, detail)
<1>1. /\ cold \in Tokens
      /\ cold.input = detail.input /\ cold.output = detail.output
      /\ cold.written = detail.written /\ cold.read = 0 /\ cold.cached = 0
  BY DEF Tokens
<1>2. plain \in Nat /\ hits \in Nat /\ plain + hits = detail.input
  BY HitsType, InputBilledOnce
<1>3. sheet.input \in Nat /\ ReadRate(sheet) \in Nat /\ ReadRate(sheet) <= sheet.input
  BY DEF Rates, ReadRate
<1> HIDE DEF cold, plain, hits
<1>4. hits * ReadRate(sheet) <= hits * sheet.input
  BY <1>2, <1>3, ProductMonotone
<1>5. plain * sheet.input + hits * sheet.input = detail.input * sheet.input
  BY <1>2, <1>3
<1>6. Hits(provider, cold) = 0 /\ PlainInput(provider, cold) = detail.input
  BY <1>1 DEF Hits, PlainInput, Reported, Tokens
<1>7. ReadBill(provider, sheet, cold) = 0
  BY <1>3, <1>6 DEF ReadBill
<1>8. /\ WriteBill(sheet, cold) = WriteBill(sheet, detail)
      /\ Empty(cold) = Empty(detail)
  BY <1>1 DEF WriteBill, Empty
<1>9. ReadBill(provider, sheet, detail) = hits * ReadRate(sheet)
  BY DEF ReadBill, hits
<1>10. CASE Empty(detail)
  BY <1>8, <1>10 DEF ComputeCacheCost, cold
<1>11. CASE ~Empty(detail)
  <2>1. ComputeCacheCost(provider, sheet, detail)
            = plain * sheet.input + hits * ReadRate(sheet)
              + WriteBill(sheet, detail) + detail.output * sheet.output
    BY <1>9, <1>11 DEF ComputeCacheCost, plain
  <2>2. ComputeCacheCost(provider, sheet, cold)
            = detail.input * sheet.input + 0
              + WriteBill(sheet, detail) + detail.output * sheet.output
    BY <1>1, <1>6, <1>7, <1>8, <1>11 DEF ComputeCacheCost
  <2>3. /\ plain * sheet.input \in Nat /\ hits * ReadRate(sheet) \in Nat
        /\ hits * sheet.input \in Nat /\ detail.input * sheet.input \in Nat
        /\ WriteBill(sheet, detail) \in Nat /\ detail.output * sheet.output \in Nat
    <3>1. \A m \in Nat, r \in Nat : m * r \in Nat
      BY ProductMonotone
    <3>2. detail.input \in Nat
      BY DEF Tokens
    <3>3. QED
      BY <1>2, <1>3, <3>1, <3>2, BillType
  <2>4. QED
    BY <1>4, <1>5, <2>1, <2>2, <2>3 DEF cold
<1>12. QED
  BY <1>10, <1>11

-----------------------------------------------------------------------------
(* The bill, token by token.                                               *)

\* A set of numbers has a least one.
LEMMA LeastOf ==
    ASSUME NEW N \in SUBSET Nat, N # {}
    PROVE  \E n \in N : \A m \in N : n <= m
<1> DEFINE Less == OpToRel(<, Nat)
<1>1. IsWellFoundedOn(Less, Nat)
  BY NatLessThanWellFounded
<1> HIDE DEF Less
<1>2. PICK n \in N : \A m \in N : <<m, n>> \notin Less
  BY <1>1, WFMin
<1>3. \A m \in N : ~(m < n)
  BY <1>2 DEF Less, OpToRel
<1>4. QED
  BY <1>3

\* What the tokens of a set cost, if the first hits of them are priced at one
\* rate and the others at another.
Priced(tokens, hits, low, high) ==
    Cardinality({i \in tokens : i <= hits}) * low
    + Cardinality({i \in tokens : ~(i <= hits)}) * high

LEMMA PricedNat ==
    ASSUME NEW tokens, IsFiniteSet(tokens), NEW hits \in Nat, NEW low \in Nat, NEW high \in Nat
    PROVE  Priced(tokens, hits, low, high) \in Nat
<1> DEFINE first == {i \in tokens : i <= hits}
           rest  == {i \in tokens : ~(i <= hits)}
<1>1. first \in SUBSET tokens /\ rest \in SUBSET tokens
  OBVIOUS
<1> HIDE DEF first, rest
<1>2. IsFiniteSet(first) /\ IsFiniteSet(rest)
  BY <1>1, FS_Subset
<1>3. Cardinality(first) \in Nat /\ Cardinality(rest) \in Nat
  BY <1>2, FS_CardinalityType
<1>4. Cardinality(first) * low \in Nat /\ Cardinality(rest) * high \in Nat
  BY <1>3, ProductMonotone
<1>5. QED
  BY <1>4 DEF Priced, first, rest

\* One token more costs its rate more.
LEMMA PricedStep ==
    ASSUME NEW tokens, IsFiniteSet(tokens), NEW t \in tokens,
           NEW hits \in Nat, NEW low \in Nat, NEW high \in Nat
    PROVE  Priced(tokens, hits, low, high)
               = (IF t <= hits THEN low ELSE high)
                 + Priced(tokens \ {t}, hits, low, high)
<1> DEFINE first == {i \in tokens : i <= hits}
           rest  == {i \in tokens : ~(i <= hits)}
           first2 == {i \in tokens \ {t} : i <= hits}
           rest2  == {i \in tokens \ {t} : ~(i <= hits)}
<1>1. first \in SUBSET tokens /\ rest \in SUBSET tokens
  OBVIOUS
<1>2. IF t <= hits THEN first2 = first \ {t} /\ rest2 = rest /\ t \in first
                   ELSE first2 = first /\ rest2 = rest \ {t} /\ t \in rest
  OBVIOUS
<1>3. /\ Priced(tokens, hits, low, high)
            = Cardinality(first) * low + Cardinality(rest) * high
      /\ Priced(tokens \ {t}, hits, low, high)
            = Cardinality(first2) * low + Cardinality(rest2) * high
  BY DEF Priced
<1> HIDE DEF first, rest, first2, rest2
<1>4. IsFiniteSet(first) /\ IsFiniteSet(rest)
  BY <1>1, FS_Subset
<1>5. Cardinality(first) \in Nat /\ Cardinality(rest) \in Nat
  BY <1>4, FS_CardinalityType
<1>6. \A n \in Nat, r \in Nat : n > 0 => n * r = r + (n - 1) * r
  OBVIOUS
<1>7. \A n \in Nat, r \in Nat : n * r \in Nat
  BY ProductMonotone
<1>8. CASE t <= hits
  <2>1. Cardinality(first2) = Cardinality(first) - 1 /\ rest2 = rest
    BY <1>2, <1>4, <1>8, FS_RemoveElement
  <2>2. IsFiniteSet(first2)
    BY <1>2, <1>4, <1>8, FS_RemoveElement
  <2>3. Cardinality(first2) \in Nat /\ Cardinality(first) > 0
    BY <1>5, <2>1, <2>2, FS_CardinalityType
  <2>4. Cardinality(first) * low = low + Cardinality(first2) * low
    BY <1>5, <1>6, <2>1, <2>3
  <2>5. QED
    BY <1>3, <1>5, <1>7, <1>8, <2>1, <2>3, <2>4
<1>9. CASE ~(t <= hits)
  <2>1. Cardinality(rest2) = Cardinality(rest) - 1 /\ first2 = first
    BY <1>2, <1>4, <1>9, FS_RemoveElement
  <2>2. IsFiniteSet(rest2)
    BY <1>2, <1>4, <1>9, FS_RemoveElement
  <2>3. Cardinality(rest2) \in Nat /\ Cardinality(rest) > 0
    BY <1>5, <2>1, <2>2, FS_CardinalityType
  <2>4. Cardinality(rest) * high = high + Cardinality(rest2) * high
    BY <1>5, <1>6, <2>1, <2>3
  <2>5. QED
    BY <1>3, <1>5, <1>7, <1>9, <2>1, <2>3, <2>4
<1>10. QED
  BY <1>8, <1>9

\* The sum of the rates, token after token, is what the set costs: the fold
\* that adds them up is the one function with this property, and of all sets
\* where it were wrong a smallest one would be no exception.
LEMMA SumOfRates ==
    ASSUME NEW tokens, IsFiniteSet(tokens), NEW hits \in Nat, NEW low \in Nat, NEW high \in Nat
    PROVE  LET rate(i) == IF i <= hits THEN low ELSE high
           IN  MapThenSumSet(rate, tokens) = Priced(tokens, hits, low, high)
<1> DEFINE rate(i) == IF i <= hits THEN low ELSE high
           one(s) == CHOOSE x \in s : TRUE
           C(s) == Priced(s, hits, low, high)
           Folds(f) == f = [s \in SUBSET tokens |->
                              IF s = {} THEN 0 ELSE rate(one(s)) + f[s \ {one(s)}]]
           fold == CHOOSE f : Folds(f)
<1>1. MapThenSumSet(rate, tokens) = fold[tokens]
  BY DEF MapThenSumSet, MapThenFoldSet
<1>2. \A s \in SUBSET tokens : IsFiniteSet(s)
  BY FS_Subset
<1>3. \A s \in SUBSET tokens : s # {} => one(s) \in s
  OBVIOUS
<1>4. \A s \in SUBSET tokens : s # {} => C(s) = rate(one(s)) + C(s \ {one(s)})
  <2>1. \A s \in SUBSET tokens : \A t \in s : C(s) = rate(t) + C(s \ {t})
    BY <1>2, PricedStep
  <2> HIDE DEF C, rate, one
  <2>2. QED
    BY <1>3, <2>1
<1>5. C({}) = 0
  <2>1. {i \in {} : i <= hits} = {} /\ {i \in {} : ~(i <= hits)} = {}
    OBVIOUS
  <2>2. 0 * low = 0 /\ 0 * high = 0
    OBVIOUS
  <2>3. QED
    BY <2>1, <2>2, FS_EmptySet DEF Priced
<1> HIDE DEF C, rate
<1>6. Folds([s \in SUBSET tokens |-> C(s)])
  <2> DEFINE g == [s \in SUBSET tokens |-> C(s)]
  <2>1. \A s \in SUBSET tokens :
           g[s] = IF s = {} THEN 0 ELSE rate(one(s)) + g[s \ {one(s)}]
    <3>1. \A s \in SUBSET tokens : s \ {one(s)} \in SUBSET tokens
      OBVIOUS
    <3>2. QED
      BY <1>4, <1>5, <3>1
  <2>2. g = [s \in SUBSET tokens |-> g[s]]
    OBVIOUS
  <2> HIDE DEF g, one
  <2>3. Folds(g)
    BY <2>1, <2>2
  <2>4. QED
    BY <2>3 DEF g
<1>7. Folds(fold)
  <2> HIDE DEF Folds
  <2>1. QED
    BY <1>6
<1> HIDE DEF fold
<1>8. \A s \in SUBSET tokens :
        fold[s] = IF s = {} THEN 0 ELSE rate(one(s)) + fold[s \ {one(s)}]
  BY <1>7
<1> HIDE DEF Folds, one
<1>9. \A s \in SUBSET tokens : fold[s] = C(s)
  <2>1. SUFFICES ASSUME \E s \in SUBSET tokens : fold[s] # C(s) PROVE FALSE
    OBVIOUS
  <2> DEFINE Sizes == {Cardinality(s) : s \in {u \in SUBSET tokens : fold[u] # C(u)}}
  <2>2. Sizes \in SUBSET Nat /\ Sizes # {}
    BY <1>2, <2>1, FS_CardinalityType
  <2>3. PICK n \in Sizes : \A m \in Sizes : n <= m
    BY <2>2, LeastOf
  <2>4. PICK s \in SUBSET tokens : fold[s] # C(s) /\ n = Cardinality(s)
    BY <2>3
  <2>5. s # {}
    BY <1>5, <1>8, <2>4
  <2>6. one(s) \in s /\ s \ {one(s)} \in SUBSET tokens
    BY <1>3, <2>4, <2>5
  <2>7. Cardinality(s \ {one(s)}) = Cardinality(s) - 1 /\ Cardinality(s) \in Nat
    BY <1>2, <2>6, FS_RemoveElement, FS_CardinalityType
  <2>8. Cardinality(s \ {one(s)}) \notin Sizes
    BY <2>3, <2>4, <2>7
  <2>9. fold[s \ {one(s)}] = C(s \ {one(s)})
    BY <2>6, <2>8
  <2>10. QED
    BY <1>4, <1>8, <2>4, <2>5, <2>9
<1>10. tokens \in SUBSET tokens
  OBVIOUS
<1>11. QED
  BY <1>1, <1>9, <1>10 DEF C, rate

\* How many of the first n tokens are among the first hits.
Early(hits, n) == IF hits <= n THEN hits ELSE n

\* Of the first n tokens of a call those among the hits are priced at the one
\* rate, the rest at the other.
LEMMA FirstTokens ==
    ASSUME NEW n \in Nat, NEW hits \in Nat, NEW low \in Nat, NEW high \in Nat
    PROVE  Priced(1 .. n, hits, low, high)
               = Early(hits, n) * low + (n - Early(hits, n)) * high
<1> DEFINE m == Early(hits, n)
<1>0. m \in Nat /\ m <= n /\ (m = hits \/ (m = n /\ n < hits))
  BY DEF Early
<1> HIDE DEF m
<1>1. {i \in 1 .. n : i <= hits} = 1 .. m
  BY <1>0
<1>2. {i \in 1 .. n : ~(i <= hits)} = m + 1 .. n
  BY <1>0
<1>3. Cardinality(1 .. m) = m
  BY <1>0, FS_Interval
<1>4. Cardinality(m + 1 .. n) = n - m
  <2>1. m + 1 \in Int /\ n \in Int /\ m <= n
    BY <1>0
  <2>2. Cardinality(m + 1 .. n) = IF m + 1 > n THEN 0 ELSE n - (m + 1) + 1
    BY <2>1, FS_Interval
  <2>3. QED
    BY <1>0, <2>1, <2>2
<1>5. QED
  BY <1>1, <1>2, <1>3, <1>4 DEF Priced, m

\* The bill of a call is the price of its tokens one by one: each token that
\* was read in is charged once, as a cache hit or as plain input.
THEOREM BilledByToken ==
    ASSUME NEW provider, NEW sheet \in Rates, NEW detail \in Tokens
    PROVE  ComputeCacheCost(provider, sheet, detail) = ByToken(provider, sheet, detail)
<1> DEFINE readIn == detail.input + (IF CacheAdditive(provider) THEN Reported(detail) ELSE 0)
           low  == ReadRate(sheet)
           high == sheet.input
           hits == Reported(detail)
           rate(i) == IF i <= hits THEN low ELSE high
           m == Hits(provider, detail)
           rest == detail.written * WriteRate(sheet) + detail.output * sheet.output
<1>1. detail.input \in Nat /\ hits \in Nat /\ readIn \in Nat /\ m \in Nat
  BY DEF Tokens, Reported, Hits
<1>2. low \in Nat /\ high \in Nat
  BY DEF Rates, ReadRate
<1>3. /\ m = IF hits <= readIn THEN hits ELSE readIn
      /\ PlainInput(provider, detail) = readIn - m
  BY <1>1 DEF Hits, PlainInput
<1>4. MapThenSumSet(rate, 1 .. readIn) = Priced(1 .. readIn, hits, low, high)
  <2>1. IsFiniteSet(1 .. readIn)
    BY <1>1, FS_Interval
  <2> HIDE DEF readIn, low, high, hits
  <2>2. QED
    BY <1>1, <1>2, <2>1, SumOfRates
<1>5. Priced(1 .. readIn, hits, low, high) = m * low + (readIn - m) * high
  <2>1. m = Early(hits, readIn)
    BY <1>3 DEF Early
  <2> HIDE DEF readIn, low, high, hits, m
  <2>2. QED
    BY <1>1, <1>2, <2>1, FirstTokens
<1>6. CASE Empty(detail)
  BY <1>6 DEF ComputeCacheCost, ByToken
<1>7. CASE ~Empty(detail)
  <2>1. ByToken(provider, sheet, detail)
            = MapThenSumSet(rate, 1 .. readIn)
              + detail.written * WriteRate(sheet) + detail.output * sheet.output
    BY <1>7 DEF ByToken
  <2>2. ComputeCacheCost(provider, sheet, detail)
            = (readIn - m) * high + m * low
              + detail.written * WriteRate(sheet) + detail.output * sheet.output
    BY <1>3, <1>7 DEF ComputeCacheCost, ReadBill, WriteBill
  <2>3. /\ m * low \in Nat /\ (readIn - m) * high \in Nat
    <3>1. readIn - m \in Nat
      BY <1>1, <1>3
    <3>2. \A x \in Nat, y \in Nat : x * y \in Nat
      BY ProductMonotone
    <3> HIDE DEF readIn, low, high, m
    <3>3. QED
      BY <1>1, <1>2, <3>1, <3>2
  <2>4. m * low + (readIn - m) * high = (readIn - m) * high + m * low
    BY <2>3
  <2>5. QED
    BY <1>4, <1>5, <2>1, <2>2, <2>4
<1>8. QED
  BY <1>6, <1>7

-----------------------------------------------------------------------------
(* The gate.                                                               *)

Stages == {"idle", "under", "over", "slotted", "passed", "priced"}

\* What is copied for a bill: a row for a native key, an alias's price for an
\* access key, and tokens unless the price is per call.
PricedNative(c) == c.from \in Rows \cup {NoRow} /\ c.detail \in Details
PricedAccess(c) ==
    /\ c.alias \in Rules /\ c.from = Derived(c.alias)
    /\ c.detail \in Details \/ c.from.mode = "per_call"

GateType ==
    /\ spend \in Nat /\ crowd \in Nat
    /\ stage \in [Requests -> Stages]
    /\ DOMAIN call = Requests
    /\ row \in Rows \cup {NoRow} /\ rule \in Rules
    /\ \A r \in Requests : stage[r] = "priced" =>
          IF kind = "native" THEN PricedNative(call[r]) ELSE PricedAccess(call[r])

Busy == Underway(stage)

\* Requests come one at a time, so those under way are finitely many, and the
\* crowd has seen them all.
CrowdInv == IsFiniteSet(Busy) /\ Cardinality(Busy) <= crowd

\* Every request under way has kept free one bill of what the crowd may add.
RoomInv == spend + MaxBill * Cardinality(Busy) < Limit + MaxBill * crowd

GateInv == GateType /\ CrowdInv /\ RoomInv

-----------------------------------------------------------------------------
LEMMA MaxBillNat == MaxBill \in Nat
  BY BillAssumption DEF BillAssumption

\* An alias's price loses its rate of cache writes and nothing else.
LEMMA DerivedType ==
    ASSUME NEW price \in Rules
    PROVE  /\ Derived(price).mode = price.mode
           /\ price.mode \in {"tokens", "per_call"}
           /\ Derived(price).provider = price.provider
           /\ Derived(price).perCall = price.perCall /\ price.perCall \in Nat
           /\ Derived(price).sheet = ButWrites(price.sheet)
           /\ Derived(price).sheet \in Rates
<1>1. price \in [mode : {"tokens", "per_call"}, provider : STRING,
                 sheet : Rates, perCall : Nat]
  BY PriceAssumption
<1>2. [price.sheet EXCEPT !.write = 0] \in Rates
  BY <1>1 DEF Rates
<1>3. Derived(price) = [mode |-> price.mode, provider |-> price.provider,
                        sheet |-> [price.sheet EXCEPT !.write = 0],
                        perCall |-> price.perCall]
  BY <1>1 DEF Derived
<1>4. QED
  BY <1>1, <1>2, <1>3 DEF ButWrites

\* What a bill is: with any row in the catalogue, of a request that was priced.
LEMMA SheetBill ==
    ASSUME NEW provider, NEW sheet \in Sheets, NEW detail \in Details
    PROVE  ComputeCacheCost(provider, sheet, detail) \in 0 .. MaxBill
<1>1. PICK p \in {"claude", "other"} : CacheAdditive(provider) <=> CacheAdditive(p)
  BY DEF CacheAdditive
<1>2. ComputeCacheCost(provider, sheet, detail) = ComputeCacheCost(p, sheet, detail)
  BY <1>1 DEF ComputeCacheCost, PlainInput, ReadBill, Hits
<1>3. ComputeCacheCost(p, sheet, detail) <= MaxBill
  BY BillAssumption
<1>4. sheet \in Rates /\ detail \in Tokens
  BY PriceAssumption, DerivedType DEF Sheets
<1>5. ComputeCacheCost(p, sheet, detail) \in Nat
  BY <1>4, PartsWithinBill
<1>6. ComputeCacheCost(p, sheet, detail) \in 0 .. MaxBill
  BY <1>3, <1>5, MaxBillNat
<1>7. QED
  BY <1>2, <1>6

LEMMA NativeBillBounded ==
    ASSUME row \in Rows \cup {NoRow}, NEW c, PricedNative(c)
    PROVE  NativeBill(c) \in 0 .. MaxBill
<1>1. CASE c.from = NoRow
  BY <1>1, MaxBillNat DEF NativeBill
<1>2. CASE c.from # NoRow
  <2>1. c.from.sheet \in Sheets /\ c.detail \in Details
    BY <1>2 DEF PricedNative, Sheets
  <2>2. QED
    BY <1>2, <2>1, SheetBill DEF NativeBill
<1>3. QED
  BY <1>1, <1>2

LEMMA AccessBillBounded ==
    ASSUME row \in Rows \cup {NoRow}, NEW c, PricedAccess(c)
    PROVE  AccessBill(c) \in 0 .. MaxBill
<1> DEFINE price == c.alias
<1>1. price \in Rules /\ c.from = Derived(price)
  BY DEF PricedAccess
<1>2. /\ c.from.mode = price.mode /\ c.from.perCall = price.perCall
      /\ c.from.sheet \in Sheets
  BY <1>1, DerivedType DEF Sheets
<1>3. CASE c.from.mode = "per_call"
  <2>1. price.perCall <= MaxBill /\ price.perCall \in Nat
    BY <1>1, BillAssumption, DerivedType
  <2>2. QED
    BY <1>2, <1>3, <2>1, MaxBillNat DEF AccessBill
<1>4. CASE c.from.mode # "per_call"
  <2>1. c.detail \in Details
    BY <1>4 DEF PricedAccess
  <2>2. row # NoRow => row.sheet \in Sheets
    BY DEF Sheets
  <2>3. QED
    BY <1>2, <1>4, <2>1, <2>2, SheetBill DEF AccessBill
<1>5. QED
  BY <1>3, <1>4

-----------------------------------------------------------------------------
LEMMA CrowdIsMax ==
    ASSUME NEW a \in Nat, NEW b \in Nat
    PROVE  Max({a, b}) \in {a, b} /\ a <= Max({a, b}) /\ b <= Max({a, b})
<1>1. \E x \in {a, b} : \A y \in {a, b} : x >= y
  OBVIOUS
<1>2. QED
  BY <1>1 DEF Max

\* A request that moves changes who is under way by itself only.
LEMMA MoveStep ==
    ASSUME GateType, CrowdInv, NEW r \in Requests, NEW to \in Stages, Moves(r, to)
    PROVE  LET n == Cardinality(Busy)
               m == Cardinality(Busy')
           IN  /\ stage' = [stage EXCEPT ![r] = to]
               /\ stage' \in [Requests -> Stages]
               /\ IsFiniteSet(Busy')
               /\ n \in Nat /\ m \in Nat /\ crowd' \in Nat
               /\ m <= crowd' /\ crowd <= crowd'
               /\ m <= n + 1
               /\ to \notin {"under", "passed", "priced"} \/ r \in Busy => m <= n
               /\ to \notin {"under", "passed", "priced"} /\ r \in Busy => m = n - 1
<1>1. stage' = [stage EXCEPT ![r] = to] /\ stage' \in [Requests -> Stages]
  BY DEF Moves, GateType
<1>2. Busy' = IF to \in {"under", "passed", "priced"} THEN Busy \cup {r} ELSE Busy \ {r}
  BY <1>1 DEF Busy, Underway, GateType
<1>3. IsFiniteSet(Busy) /\ Cardinality(Busy) \in Nat
  BY FS_CardinalityType DEF CrowdInv
<1>4. /\ IsFiniteSet(Busy \cup {r}) /\ IsFiniteSet(Busy \ {r})
      /\ Cardinality(Busy \cup {r}) =
            IF r \in Busy THEN Cardinality(Busy) ELSE Cardinality(Busy) + 1
      /\ Cardinality(Busy \ {r}) =
            IF r \in Busy THEN Cardinality(Busy) - 1 ELSE Cardinality(Busy)
  BY <1>3, FS_AddElement, FS_RemoveElement
<1>5. IsFiniteSet(Busy') /\ Cardinality(Busy') \in Nat
  BY <1>2, <1>4, FS_CardinalityType
<1>6. crowd' = Max({crowd, Cardinality(Busy')})
  BY DEF Moves, Busy, Underway
<1>7. crowd' \in Nat /\ Cardinality(Busy') <= crowd' /\ crowd <= crowd'
  BY <1>5, <1>6, CrowdIsMax DEF GateType
<1>8. QED
  BY <1>1, <1>2, <1>3, <1>4, <1>5, <1>7

\* A request that adds nothing to the spend and takes no place leaves room.
LEMMA RoomKept ==
    ASSUME NEW s \in Nat, NEW n \in Nat, NEW m \in Nat, NEW c \in Nat, NEW d \in Nat,
           m <= n, c <= d, s + MaxBill * n < Limit + MaxBill * c
    PROVE  s + MaxBill * m < Limit + MaxBill * d
<1>1. /\ MaxBill * m <= MaxBill * n /\ MaxBill * c <= MaxBill * d
      /\ MaxBill * m \in Nat /\ MaxBill * n \in Nat
      /\ MaxBill * c \in Nat /\ MaxBill * d \in Nat
  BY MaxBillNat, ProductMonotone
<1>2. QED
  BY <1>1, LimitAssumption

\* A request that found the spend below the limit takes a place.
LEMMA RoomTaken ==
    ASSUME NEW s \in Nat, NEW m \in Nat, NEW d \in Nat, m <= d, s < Limit
    PROVE  s + MaxBill * m < Limit + MaxBill * d
<1>1. MaxBill * m <= MaxBill * d /\ MaxBill * m \in Nat /\ MaxBill * d \in Nat
  BY MaxBillNat, ProductMonotone
<1>2. QED
  BY <1>1, LimitAssumption

\* A bill uses the room that its request gives up.
LEMMA RoomUsed ==
    ASSUME NEW s \in Nat, NEW bill \in 0 .. MaxBill,
           NEW n \in Nat, NEW m \in Nat, NEW c \in Nat, NEW d \in Nat,
           m = n - 1, c <= d, s + MaxBill * n < Limit + MaxBill * c
    PROVE  (s + bill) + MaxBill * m < Limit + MaxBill * d
<1>1. MaxBill * n = MaxBill * m + MaxBill
  BY MaxBillNat
<1>2. /\ MaxBill * c <= MaxBill * d
      /\ MaxBill * m \in Nat /\ MaxBill * c \in Nat /\ MaxBill * d \in Nat
  BY MaxBillNat, ProductMonotone
<1>3. QED
  BY <1>1, <1>2, MaxBillNat, LimitAssumption

-----------------------------------------------------------------------------
THEOREM GateHolds == Spec => []GateInv
<1> USE MaxBillNat, LimitAssumption
<1>1. Init => GateInv
  <2> SUFFICES ASSUME Init PROVE GateInv
    OBVIOUS
  <2>1. GateType
    BY DEF Init, GateType, Stages
  <2>2. Busy = {}
    BY DEF Init, Busy, Underway
  <2>3. IsFiniteSet(Busy) /\ Cardinality(Busy) = 0
    BY <2>2, FS_EmptySet
  <2>4. MaxBill * 0 = 0
    OBVIOUS
  <2>5. QED
    BY <2>1, <2>3, <2>4 DEF Init, GateInv, CrowdInv, RoomInv
<1>2. GateInv /\ [Next]_vars => GateInv'
  <2> SUFFICES ASSUME GateInv, [Next]_vars PROVE GateInv'
    OBVIOUS
  <2> USE DEF GateInv
  \* A move of a request that is not billed.
  <2>1. ASSUME NEW r \in Requests, NEW to \in Stages, Moves(r, to), spend' = spend,
               to \in {"under", "passed", "priced"} /\ r \notin Busy => spend < Limit
        PROVE  CrowdInv' /\ RoomInv'
    <3> DEFINE n == Cardinality(Busy)
               m == Cardinality(Busy')
    <3>1. /\ IsFiniteSet(Busy') /\ n \in Nat /\ m \in Nat /\ crowd' \in Nat
          /\ crowd \in Nat /\ spend \in Nat
          /\ m <= crowd' /\ crowd <= crowd' /\ m <= n + 1
          /\ to \notin {"under", "passed", "priced"} \/ r \in Busy => m <= n
      BY <2>1, MoveStep DEF GateType
    <3>2. spend + MaxBill * n < Limit + MaxBill * crowd
      BY DEF RoomInv
    <3> HIDE DEF n, m
    <3>3. CASE m <= n
      BY <3>1, <3>2, <3>3, <2>1, RoomKept DEF CrowdInv, RoomInv, m
    <3>4. CASE ~(m <= n)
      <4>1. spend < Limit
        BY <2>1, <3>1, <3>4
      <4>2. QED
        BY <2>1, <3>1, <4>1, RoomTaken DEF CrowdInv, RoomInv, m
    <3>5. QED
      BY <3>3, <3>4
  <2>2. ASSUME NEW r \in Requests, LookNative(r) PROVE GateInv'
    <3>1. PICK to \in {"over", "under"} : Moves(r, to) /\ (to = "under" => spend < Limit)
      BY <2>2 DEF LookNative, OverLimit, GateType
    <3>2. CrowdInv' /\ RoomInv'
      BY <2>1, <2>2, <3>1 DEF LookNative, Stages
    <3>3. GateType'
      BY <2>2, <3>1, MoveStep DEF LookNative, GateType, Stages
    <3>4. QED
      BY <3>2, <3>3
  <2>3. ASSUME NEW r \in Requests, SlotNative(r) PROVE GateInv'
    <3>1. PICK to \in {"passed", "idle"} :
              Moves(r, to) /\ (to = "passed" => stage[r] = "under")
      BY <2>3 DEF SlotNative
    <3>2. CrowdInv' /\ RoomInv'
      BY <2>1, <2>3, <3>1 DEF SlotNative, Stages, Busy, Underway
    <3>3. GateType'
      BY <2>3, <3>1, MoveStep DEF SlotNative, GateType, Stages
    <3>4. QED
      BY <3>2, <3>3
  <2>4. ASSUME NEW r \in Requests, SlotAccess(r) PROVE GateInv'
    <3>1. CrowdInv' /\ RoomInv'
      BY <2>1, <2>4 DEF SlotAccess, Stages
    <3>2. GateType'
      BY <2>4, MoveStep DEF SlotAccess, GateType, Stages
    <3>3. QED
      BY <3>1, <3>2
  <2>5. ASSUME NEW r \in Requests, LookAccess(r) PROVE GateInv'
    <3>1. PICK to \in {"idle", "passed"} : Moves(r, to) /\ (to = "passed" => spend < Limit)
      BY <2>5 DEF LookAccess, OverLimit, GateType
    <3>2. CrowdInv' /\ RoomInv'
      BY <2>1, <2>5, <3>1 DEF LookAccess, Stages
    <3>3. GateType'
      BY <2>5, <3>1, MoveStep DEF LookAccess, GateType, Stages
    <3>4. QED
      BY <3>2, <3>3
  <2>6. ASSUME NEW r \in Requests, NEW detail, Answer(r, detail),
               detail \in Details \/ (kind # "native" /\ rule.mode = "per_call")
        PROVE GateInv'
    <3> DEFINE copy == [detail |-> detail, alias |-> rule,
                        from |-> IF kind = "native" THEN row ELSE Derived(rule)]
    <3>1. CrowdInv' /\ RoomInv'
      BY <2>1, <2>6 DEF Answer, Stages, Busy, Underway
    <3>2. IF kind = "native" THEN PricedNative(copy) ELSE PricedAccess(copy)
      BY <2>6, DerivedType DEF GateType, PricedNative, PricedAccess
    <3>3. call' = [call EXCEPT ![r] = copy] /\ UNCHANGED <<kind, spend, row, rule>>
      BY <2>6 DEF Answer
    <3> HIDE DEF copy
    <3>4. GateType'
      BY <2>6, <3>2, <3>3, MoveStep DEF Answer, GateType, Stages, PricedNative, PricedAccess
    <3>5. QED
      BY <3>1, <3>4
  <2>7. ASSUME NEW r \in Requests, Fail(r) PROVE GateInv'
    <3>1. CrowdInv' /\ RoomInv'
      BY <2>1, <2>7 DEF Fail, Stages
    <3>2. GateType'
      BY <2>7, MoveStep DEF Fail, GateType, Stages
    <3>3. QED
      BY <3>1, <3>2
  <2>8. ASSUME NEW r \in Requests, RecordUsage(r) PROVE GateInv'
    <3> DEFINE bill == IF kind = "native" THEN NativeBill(call[r]) ELSE AccessBill(call[r])
               n == Cardinality(Busy)
               m == Cardinality(Busy')
    <3>1. bill \in 0 .. MaxBill
      BY <2>8, NativeBillBounded, AccessBillBounded DEF RecordUsage, GateType
    <3>2. spend' = spend + bill /\ stage[r] = "priced" /\ Moves(r, "idle")
      BY <2>8 DEF RecordUsage
    <3> HIDE DEF bill
    <3>3. r \in Busy
      BY <3>2 DEF Busy, Underway
    <3>4. /\ IsFiniteSet(Busy') /\ n \in Nat /\ m \in Nat /\ crowd' \in Nat
          /\ crowd \in Nat /\ spend \in Nat
          /\ m <= crowd' /\ crowd <= crowd' /\ m = n - 1
      BY <3>2, <3>3, MoveStep DEF GateType, Stages
    <3>5. spend + MaxBill * n < Limit + MaxBill * crowd
      BY DEF RoomInv
    <3> HIDE DEF n, m
    <3>6. (spend + bill) + MaxBill * m < Limit + MaxBill * crowd'
      BY <3>1, <3>4, <3>5, RoomUsed
    <3>7. CrowdInv' /\ RoomInv'
      BY <3>2, <3>4, <3>6 DEF CrowdInv, RoomInv, m
    <3>8. GateType'
      <4>1. spend' \in Nat
        BY <3>1, <3>2, <3>4
      <4>2. stage' \in [Requests -> Stages] /\ stage' = [stage EXCEPT ![r] = "idle"]
        BY <3>2, MoveStep DEF Stages
      <4>3. UNCHANGED <<kind, row, rule>> /\ call' = [call EXCEPT ![r] = NoCall]
        BY <2>8 DEF RecordUsage
      <4>4. QED
        BY <3>4, <4>1, <4>2, <4>3 DEF GateType, PricedNative, PricedAccess
    <3>9. QED
      BY <3>7, <3>8
  \* Steps that leave the requests where they are.
  <2>9. ASSUME UNCHANGED <<kind, spend, stage, call, crowd>>,
               row' \in Rows \cup {NoRow}, rule' \in Rules
        PROVE  GateInv'
    BY <2>9 DEF GateType, CrowdInv, RoomInv, Busy, Underway, PricedNative, PricedAccess
  <2>10. CASE Reset
    <3>1. Busy' = Busy /\ crowd' = Cardinality(Busy) /\ spend' = 0
      BY <2>10 DEF Reset, Busy, Underway
    <3>2. IsFiniteSet(Busy) /\ Cardinality(Busy) \in Nat
      BY FS_CardinalityType DEF CrowdInv
    <3>3. MaxBill * Cardinality(Busy) \in Nat
      BY <3>2, ProductMonotone
    <3>4. CrowdInv' /\ RoomInv'
      BY <3>1, <3>2, <3>3 DEF CrowdInv, RoomInv
    <3>5. GateType'
      BY <2>10, <3>1, <3>2 DEF Reset, GateType, PricedNative, PricedAccess
    <3>6. QED
      BY <3>4, <3>5
  <2>11. CASE UNCHANGED vars
    BY <2>9, <2>11 DEF vars, GateType
  <2>12. CASE GateStep
    BY <2>2, <2>3, <2>4, <2>5, <2>12 DEF GateStep
  <2>13. CASE BillStep
    <3>1. PICK r \in Requests : \/ \E detail \in Details : Answer(r, detail)
                                \/ PreCharge(r) \/ Fail(r) \/ RecordUsage(r)
      BY <2>13 DEF BillStep
    <3>2. CASE \E detail \in Details : Answer(r, detail)
      <4>1. PICK detail \in Details : Answer(r, detail)
        BY <3>2
      <4>2. QED
        BY <2>6, <4>1
    <3>3. CASE PreCharge(r)
      BY <2>6, <3>3 DEF PreCharge
    <3>4. QED
      BY <2>7, <2>8, <3>1, <3>2, <3>3
  <2>14. CASE OperatorStep
    <3>1. CASE \E new \in Rows \cup {NoRow} : ChangeRow(new)
      BY <2>9, <3>1 DEF ChangeRow, GateType
    <3>2. CASE \E new \in Rules : ChangeRule(new)
      BY <2>9, <3>2 DEF ChangeRule, GateType
    <3>3. QED
      BY <2>10, <2>14, <3>1, <3>2 DEF OperatorStep
  <2>15. QED
    BY <2>11, <2>12, <2>13, <2>14 DEF Next
<1>3. QED
  BY <1>1, <1>2, PTL DEF Spec

\* The spend exceeds the limit by less than one bill for each request that was
\* ever under way together with others since the last reset, for any number of
\* requests and whatever the prices become while they are answered.
THEOREM OverrunIsBounded == Spec => []OverrunBounded
<1>1. GateInv => OverrunBounded
  <2> SUFFICES ASSUME GateInv PROVE spend < Limit + MaxBill * crowd
    BY DEF OverrunBounded
  <2>1. Cardinality(Busy) \in Nat
    BY FS_CardinalityType DEF GateInv, CrowdInv
  <2>2. MaxBill * Cardinality(Busy) \in Nat /\ MaxBill * crowd \in Nat
    BY <2>1, MaxBillNat, ProductMonotone DEF GateInv, GateType
  <2>3. QED
    BY <2>2, LimitAssumption DEF GateInv, GateType, RoomInv
<1>2. QED
  BY <1>1, GateHolds, PTL

-----------------------------------------------------------------------------
(* What a request is billed.                                               *)

\* The row copied for a native key is the one in the catalogue, unless that
\* has changed since.
TornInv ==
    kind = "native" =>
        \A r \in Requests : stage[r] = "priced" /\ r \notin torn => call[r].from = row

LEMMA TornHolds == Spec => []TornInv
<1>1. Init => TornInv
  BY DEF Init, TornInv
<1>2. GateInv /\ TornInv /\ [Next]_vars => TornInv'
  <2> SUFFICES ASSUME GateInv, TornInv, [Next]_vars PROVE TornInv'
    OBVIOUS
  <2> USE DEF GateInv
  \* A move of a request that is not priced.
  <2>1. ASSUME NEW r \in Requests, NEW to \in Stages, Moves(r, to), to # "priced",
               UNCHANGED <<kind, row, call, torn>>
        PROVE  TornInv'
    <3>1. \A q \in Requests : stage'[q] = "priced" => stage[q] = "priced"
      BY <2>1 DEF Moves, GateType
    <3>2. QED
      BY <2>1, <3>1 DEF TornInv
  <2>2. ASSUME NEW r \in Requests, LookNative(r) PROVE TornInv'
    <3>1. PICK to \in {"over", "under"} : Moves(r, to)
      BY <2>2 DEF LookNative
    <3>2. QED
      BY <2>1, <2>2, <3>1 DEF LookNative, Stages
  <2>3. ASSUME NEW r \in Requests, SlotNative(r) PROVE TornInv'
    <3>1. PICK to \in {"passed", "idle"} : Moves(r, to)
      BY <2>3 DEF SlotNative
    <3>2. QED
      BY <2>1, <2>3, <3>1 DEF SlotNative, Stages
  <2>4. ASSUME NEW r \in Requests, SlotAccess(r) PROVE TornInv'
    BY <2>1, <2>4 DEF SlotAccess, Stages
  <2>5. ASSUME NEW r \in Requests, LookAccess(r) PROVE TornInv'
    <3>1. PICK to \in {"idle", "passed"} : Moves(r, to)
      BY <2>5 DEF LookAccess
    <3>2. QED
      BY <2>1, <2>5, <3>1 DEF LookAccess, Stages
  <2>6. ASSUME NEW r \in Requests, NEW detail, Answer(r, detail) PROVE TornInv'
    <3>1. CASE kind = "native"
      <4>1. /\ call' = [call EXCEPT ![r] =
                           [detail |-> detail, alias |-> rule, from |-> row]]
            /\ stage' = [stage EXCEPT ![r] = "priced"]
            /\ UNCHANGED <<kind, row, torn>>
        BY <2>6, <3>1 DEF Answer, Moves
      <4>2. call'[r].from = row
        BY <4>1 DEF GateType
      <4>3. \A q \in Requests \ {r} : call'[q] = call[q] /\ stage'[q] = stage[q]
        BY <4>1 DEF GateType
      <4>4. QED
        BY <4>1, <4>2, <4>3 DEF TornInv
    <3>2. CASE kind # "native"
      BY <2>6, <3>2 DEF Answer, TornInv
    <3>3. QED
      BY <3>1, <3>2
  <2>7. ASSUME NEW r \in Requests, Fail(r) PROVE TornInv'
    BY <2>1, <2>7 DEF Fail, Stages
  <2>8. ASSUME NEW r \in Requests, RecordUsage(r) PROVE TornInv'
    <3>1. /\ stage' = [stage EXCEPT ![r] = "idle"]
          /\ call' = [call EXCEPT ![r] = NoCall]
          /\ torn' = torn \ {r}
          /\ UNCHANGED <<kind, row>>
      BY <2>8 DEF RecordUsage, Moves
    <3>2. stage'[r] # "priced"
      BY <3>1 DEF GateType
    <3>3. \A q \in Requests \ {r} : call'[q] = call[q] /\ stage'[q] = stage[q]
      BY <3>1 DEF GateType
    <3>4. QED
      BY <3>1, <3>2, <3>3 DEF TornInv
  <2>9. ASSUME NEW new, ChangeRow(new) PROVE TornInv'
    BY <2>9 DEF ChangeRow, TornInv
  <2>10. ASSUME UNCHANGED <<kind, stage, row, call, torn>> PROVE TornInv'
    BY <2>10 DEF TornInv
  <2>11. CASE GateStep
    BY <2>2, <2>3, <2>4, <2>5, <2>11 DEF GateStep
  <2>12. CASE BillStep
    BY <2>6, <2>7, <2>8, <2>12 DEF BillStep, PreCharge
  <2>13. CASE OperatorStep
    BY <2>9, <2>10, <2>13 DEF OperatorStep, ChangeRule, Reset
  <2>14. QED
    BY <2>10, <2>11, <2>12, <2>13 DEF Next, vars
<1>3. QED
  BY <1>1, <1>2, GateHolds, PTL DEF Spec

\* Of a provider a bill only depends on how it counts its hits.
LEMMA SameBill ==
    ASSUME NEW p, NEW q, NEW sheet \in Rates, NEW detail \in Tokens,
           CacheAdditive(p) <=> CacheAdditive(q)
    PROVE  ComputeCacheCost(p, sheet, detail) = ByToken(q, sheet, detail)
<1>1. ComputeCacheCost(p, sheet, detail) = ComputeCacheCost(q, sheet, detail)
  BY DEF ComputeCacheCost, PlainInput, ReadBill, Hits
<1>2. QED
  BY <1>1, BilledByToken

LEMMA NativeBillExact ==
    ASSUME GateType, TornInv, kind = "native", NEW r \in Requests, stage[r] = "priced"
    PROVE  NativeBill(call[r]) \in NativePrices(r)
<1> DEFINE c == call[r]
<1>1. c.from \in Rows \cup {NoRow} /\ c.detail \in Tokens
  BY PriceAssumption DEF GateType, PricedNative
<1>2. CASE c.from = NoRow
  BY <1>2 DEF NativeBill, NativePrices
<1>3. CASE c.from # NoRow
  <2> DEFINE p == IF row = NoRow THEN "" ELSE row.provider
             providers == IF r \in torn THEN {"", "claude"} ELSE {c.from.provider}
  <2>1. c.from.sheet \in Rates
    BY <1>1, <1>3, PriceAssumption
  <2>2. NativeBill(c) = ComputeCacheCost(p, c.from.sheet, c.detail)
    BY <1>3 DEF NativeBill
  <2>3. NativePrices(r) = {ByToken(q, c.from.sheet, c.detail) : q \in providers}
    BY <1>3 DEF NativePrices
  <2>4. \E q \in providers : CacheAdditive(p) <=> CacheAdditive(q)
    <3>1. CASE r \notin torn
      <4>1. c.from = row
        BY <3>1 DEF TornInv
      <4>2. p = c.from.provider /\ providers = {c.from.provider}
        BY <1>3, <3>1, <4>1
      <4>3. QED
        BY <4>2
    <3>2. CASE r \in torn
      <4>1. providers = {"", "claude"}
        BY <3>2
      <4>2. CacheAdditive("claude") /\ ~CacheAdditive("")
        BY DEF CacheAdditive
      <4>3. QED
        BY <4>1, <4>2
    <3>3. QED
      BY <3>1, <3>2
  <2> HIDE DEF p, providers
  <2>5. PICK q \in providers : CacheAdditive(p) <=> CacheAdditive(q)
    BY <2>4
  <2>6. NativeBill(c) = ByToken(q, c.from.sheet, c.detail)
    BY <1>1, <2>1, <2>2, <2>5, SameBill
  <2>7. QED
    BY <2>3, <2>6
<1>4. QED
  BY <1>2, <1>3

LEMMA AccessBillExact ==
    ASSUME GateType, kind # "native", NEW r \in Requests, stage[r] = "priced"
    PROVE  AccessBill(call[r]) \in AccessPrices(r)
<1> DEFINE c == call[r]
           alias == c.alias
           own == ButWrites(alias.sheet)
<1>1. alias \in Rules /\ c.from = Derived(alias)
  BY DEF GateType, PricedAccess
<1>2. /\ c.from.mode = alias.mode /\ alias.mode \in {"tokens", "per_call"}
      /\ c.from.provider = alias.provider /\ c.from.perCall = alias.perCall
      /\ c.from.sheet = own /\ own \in Rates
  BY <1>1, DerivedType
<1>3. CASE alias.mode = "per_call"
  BY <1>2, <1>3 DEF AccessBill, AccessPrices
<1>4. CASE alias.mode # "per_call"
  <2> DEFINE sheet == IF HasTokenPrices(own) \/ row = NoRow THEN own ELSE row.sheet
             free == alias.mode = "tokens" /\ ~HasTokenPrices(own)
             sheet2 == IF free /\ row # NoRow THEN row.sheet ELSE own
  <2>1. c.detail \in Tokens
    BY <1>2, <1>4, PriceAssumption DEF GateType, PricedAccess
  <2>2. row # NoRow => row.sheet \in Rates
    BY PriceAssumption DEF GateType
  <2>3. sheet \in Rates /\ sheet2 = sheet
    BY <1>2, <1>4, <2>2
  <2>4. AccessBill(c) = ComputeCacheCost(alias.provider, sheet, c.detail)
    BY <1>2, <1>4 DEF AccessBill
  <2>5. AccessPrices(r) = {ByToken(alias.provider, sheet2, c.detail)}
    BY <1>4 DEF AccessPrices
  <2> HIDE DEF sheet, sheet2
  <2>6. ComputeCacheCost(alias.provider, sheet, c.detail)
            = ByToken(alias.provider, sheet, c.detail)
    BY <2>1, <2>3, BilledByToken
  <2>7. QED
    BY <2>3, <2>4, <2>5, <2>6
<1>5. QED
  BY <1>3, <1>4

\* Only RecordUsage ends a request that has been priced.
LEMMA PricedEnds ==
    ASSUME GateType, [Next]_vars, NEW r \in Requests,
           stage[r] = "priced", stage'[r] = "idle"
    PROVE  RecordUsage(r)
<1>1. ASSUME NEW q, NEW to, Moves(q, to), stage[q] # "priced" PROVE FALSE
  BY <1>1 DEF Moves, GateType
<1>2. ASSUME NEW q \in Requests, RecordUsage(q) PROVE q = r
  BY <1>2 DEF RecordUsage, Moves, GateType
<1>3. UNCHANGED stage => FALSE
  OBVIOUS
<1>4. CASE GateStep
  <2>1. PICK q \in Requests :
            LookNative(q) \/ SlotNative(q) \/ SlotAccess(q) \/ LookAccess(q)
    BY <1>4 DEF GateStep
  <2>2. CASE LookNative(q)
    BY <1>1, <2>2 DEF LookNative
  <2>3. CASE SlotNative(q)
    BY <1>1, <2>3 DEF SlotNative
  <2>4. CASE SlotAccess(q)
    BY <1>1, <2>4 DEF SlotAccess
  <2>5. CASE LookAccess(q)
    BY <1>1, <2>5 DEF LookAccess
  <2>6. QED
    BY <2>1, <2>2, <2>3, <2>4, <2>5
<1>5. CASE BillStep
  <2>1. PICK q \in Requests : \/ \E detail \in Details : Answer(q, detail)
                              \/ PreCharge(q) \/ Fail(q) \/ RecordUsage(q)
    BY <1>5 DEF BillStep
  <2>2. ASSUME NEW detail, Answer(q, detail) PROVE FALSE
    BY <1>1, <2>2 DEF Answer
  <2>3. CASE Fail(q)
    BY <1>1, <2>3 DEF Fail
  <2>4. QED
    BY <1>2, <2>1, <2>2, <2>3 DEF PreCharge
<1>6. CASE OperatorStep
  BY <1>3, <1>6 DEF OperatorStep, ChangeRow, ChangeRule, Reset
<1>7. QED
  BY <1>3, <1>4, <1>5, <1>6 DEF Next, vars

\* Every bill is the price of its tokens one by one, by the row or the alias
\* that the request was answered under, whatever changes while it is billed.
THEOREM BillsAreExact == Spec => BillIsExact
<1>1. ASSUME GateType, TornInv, [Next]_vars
      PROVE  \A r \in Requests :
                stage[r] = "priced" /\ stage'[r] = "idle" =>
                    spend' - spend \in IF kind = "native" THEN NativePrices(r)
                                       ELSE AccessPrices(r)
  <2>1. SUFFICES ASSUME NEW r \in Requests, stage[r] = "priced", stage'[r] = "idle"
                 PROVE  spend' - spend \in IF kind = "native" THEN NativePrices(r)
                                           ELSE AccessPrices(r)
    OBVIOUS
  <2> DEFINE bill == IF kind = "native" THEN NativeBill(call[r]) ELSE AccessBill(call[r])
  <2>2. spend' = spend + bill
    BY <1>1, <2>1, PricedEnds DEF RecordUsage
  <2>3. bill \in 0 .. MaxBill
    BY <1>1, <2>1, NativeBillBounded, AccessBillBounded DEF GateType
  <2>4. bill \in IF kind = "native" THEN NativePrices(r) ELSE AccessPrices(r)
    BY <1>1, <2>1, NativeBillExact, AccessBillExact
  <2>5. spend \in Nat /\ MaxBill \in Nat
    BY <1>1, MaxBillNat DEF GateType
  <2> HIDE DEF bill
  <2>6. spend' - spend = bill
    BY <2>2, <2>3, <2>5
  <2>7. QED
    BY <2>4, <2>6
<1>2. GateInv => GateType
  BY DEF GateInv
<1>3. GateInv /\ TornInv /\ [Next]_vars =>
        [\A r \in Requests :
            stage[r] = "priced" /\ stage'[r] = "idle" =>
                spend' - spend \in IF kind = "native" THEN NativePrices(r)
                                   ELSE AccessPrices(r)]_vars
  BY <1>1, <1>2
<1>4. QED
  BY <1>3, GateHolds, TornHolds, PTL DEF Spec, BillIsExact

-----------------------------------------------------------------------------
(* The windows: what holds of them in every state.                         *)

Window == [start : Nat, billed : SUBSET Charges]

Entries ==
    [anchor : Nat, daily : Window, weekly : Window,
     byAlias : [Aliases -> [daily : Window, weekly : Window]]]

WindowsType ==
    /\ native \in BOOLEAN
    /\ clock \in Nat /\ clock >= Day
    /\ entry \in Entries
    /\ at \in [Charges -> Nat]
    /\ live \in SUBSET Charges
    /\ promised \in Nat
    /\ steps \in Nat

Fixed == entry.anchor # ZeroTime

\* A window that no charge has opened holds none, the week of an account with
\* an entry is open, and that of a fixed account never starts before its anchor.
OpenInv ==
    /\ \A c \in live : at[c] >= Day
    /\ \A c \in entry.weekly.billed : c \in live
    /\ entry.daily.start = ZeroTime => entry.daily.billed = {}
    /\ \A a \in Aliases :
          /\ entry.byAlias[a].daily.start = ZeroTime => entry.byAlias[a].daily.billed = {}
          /\ entry.byAlias[a].weekly.start = ZeroTime => entry.byAlias[a].weekly.billed = {}
    /\ entry = NoEntry \/ entry.weekly.start # ZeroTime
    /\ Fixed => entry.weekly.start >= entry.anchor

\* Nothing was charged after now.
PastInv == Forward => \A c \in live : at[c] <= clock

\* The day of the account is the latest in which a charge fell, or later, and
\* holds the charges of that day.
DayInv ==
    Forward =>
        /\ entry.daily.start <= StartOfDay(clock)
        /\ \A c \in live :
              /\ StartOfDay(at[c]) <= entry.daily.start
              /\ StartOfDay(at[c]) = entry.daily.start => c \in entry.daily.billed
        /\ \A c \in entry.daily.billed : c \in live /\ StartOfDay(at[c]) = entry.daily.start

\* A rolling week starts with the first charge it holds.
RollingInv ==
    Forward /\ ~Fixed =>
        /\ entry.weekly.start <= clock
        /\ \A c \in entry.weekly.billed : at[c] >= entry.weekly.start

\* A fixed week does for the weeks since the anchor what the day does for days.
FixedInv ==
    Forward /\ Fixed =>
        /\ entry.anchor <= clock
        /\ entry.weekly.start <= FixedStart(entry.anchor, clock)
        /\ \A c \in live :
              /\ entry.anchor <= at[c]
              /\ FixedStart(entry.anchor, at[c]) <= entry.weekly.start
              /\ FixedStart(entry.anchor, at[c]) = entry.weekly.start
                    => c \in entry.weekly.billed
        /\ \A c \in entry.weekly.billed :
              FixedStart(entry.anchor, at[c]) = entry.weekly.start

\* No alias is ahead of the account, and the charges of the account's day are
\* those of the aliases that are as far.
AliasDayInv ==
    Forward =>
        /\ \A a \in Aliases : entry.byAlias[a].daily.start <= entry.daily.start
        /\ \A c \in entry.daily.billed :
              \E a \in Aliases : /\ entry.byAlias[a].daily.start = entry.daily.start
                                 /\ c \in entry.byAlias[a].daily.billed
        /\ \A a \in Aliases :
              entry.byAlias[a].daily.start = entry.daily.start
                  => entry.byAlias[a].daily.billed \subseteq entry.daily.billed

\* The same for a fixed week, whatever the clock did.
AliasWeekInv ==
    Fixed =>
        /\ \A a \in Aliases : entry.byAlias[a].weekly.start <= entry.weekly.start
        /\ \A c \in entry.weekly.billed :
              \E a \in Aliases : /\ entry.byAlias[a].weekly.start = entry.weekly.start
                                 /\ c \in entry.byAlias[a].weekly.billed
        /\ \A a \in Aliases :
              entry.byAlias[a].weekly.start = entry.weekly.start
                  => entry.byAlias[a].weekly.billed \subseteq entry.weekly.billed

\* The week of the entry is the current one, and when it ends for a native key.
Current ==
    IF Fixed THEN entry.weekly.start = FixedStart(entry.anchor, clock)
    ELSE clock < entry.weekly.start + Week

Due ==
    IF entry = NoEntry \/ (~Fixed /\ ~Current) THEN 0
    ELSE (IF Fixed THEN FixedStart(entry.anchor, clock) ELSE entry.weekly.start) + Week

\* DeadlineStands, in these terms.
PromiseInv ==
    Forward /\ native /\ promised # 0 =>
        IF clock < promised THEN Due = promised
        ELSE \A c \in entry.weekly.billed : Current => at[c] >= promised

WindowsInv ==
    /\ WindowsType /\ OpenInv /\ PastInv /\ DayInv
    /\ RollingInv /\ FixedInv /\ AliasDayInv /\ AliasWeekInv
    /\ PromiseInv

-----------------------------------------------------------------------------
(* The windows: rounding down, days and fixed weeks.                       *)
\* Rounding down to a multiple of d loses less than d.
LEMMA DivFacts ==
    ASSUME NEW t \in Nat, NEW d \in Nat \ {0}
    PROVE  /\ t \div d \in Nat
           /\ (t \div d) * d \in Nat
           /\ (t \div d) * d <= t
           /\ t < (t \div d) * d + d
  OBVIOUS

\* The multiples of d are d apart.
LEMMA ProductStep ==
    ASSUME NEW x \in Nat, NEW y \in Nat, NEW d \in Nat, x < y
    PROVE  x * d + d <= y * d
<1>1. PICK e \in Nat : y = x + 1 + e
  <2>1. y - (x + 1) \in Nat /\ y = x + 1 + (y - (x + 1))
    OBVIOUS
  <2>2. QED
    BY <2>1
<1>2. y * d = x * d + d + e * d
  BY <1>1
<1>3. e * d \in Nat
  BY <1>1
<1>4. QED
  BY <1>2, <1>3

\* A later instant does not round down to an earlier multiple; it rounds down to
\* the same one until d after it.
LEMMA DivMonotone ==
    ASSUME NEW t \in Nat, NEW u \in Nat, NEW d \in Nat \ {0}, t <= u
    PROVE  /\ (t \div d) * d <= (u \div d) * d
           /\ u < (t \div d) * d + d => u \div d = t \div d
           /\ (t \div d) * d = (u \div d) * d => t \div d = u \div d
<1> DEFINE x == t \div d
           y == u \div d
<1>1. /\ x \in Nat /\ y \in Nat /\ x * d \in Nat /\ y * d \in Nat
      /\ x * d <= t /\ t < x * d + d /\ y * d <= u /\ u < y * d + d
  BY DivFacts
<1>2. x < y => x * d + d <= y * d
  BY <1>1, ProductStep
<1>3. y < x => y * d + d <= x * d
  BY <1>1, ProductStep
<1> HIDE DEF x, y
<1>4. ~(y < x)
  BY <1>1, <1>3
<1>5. x = y \/ x < y
  BY <1>1, <1>4
<1>6. QED
  BY <1>1, <1>2, <1>5 DEF x, y

LEMMA DayNat == Day \in Nat /\ Day > 0
  BY DayAssumption

LEMMA WeekNat == Week \in Nat /\ Week > 0
  BY WeekAssumption

\* The day of an instant, which the zero time is not.
LEMMA DayStart ==
    ASSUME NEW t \in Nat, t >= Day
    PROVE  /\ StartOfDay(t) \in Nat /\ StartOfDay(t) <= t
           /\ StartOfDay(t) # ZeroTime
<1>1. Day \in Nat \ {0}
  BY DayNat
<1>2. (t \div Day) * Day \in Nat /\ (t \div Day) * Day <= t /\ t < (t \div Day) * Day + Day
  BY <1>1, DivFacts
<1>3. QED
  BY <1>1, <1>2 DEF StartOfDay, ZeroTime

\* Days follow each other.
LEMMA DayMonotone ==
    ASSUME NEW t \in Nat, NEW u \in Nat, t <= u
    PROVE  StartOfDay(t) <= StartOfDay(u)
  BY DayNat, DivMonotone DEF StartOfDay

\* The fixed week of an instant holds it, from the anchor on.
LEMMA FixedStartFacts ==
    ASSUME NEW anchor \in Nat, NEW t \in Nat
    PROVE  /\ FixedStart(anchor, t) \in Nat /\ FixedStart(anchor, t) >= anchor
           /\ anchor <= t => /\ FixedStart(anchor, t) <= t
                             /\ t < FixedStart(anchor, t) + Week
           /\ FixedStart(anchor, anchor) = anchor
<1>1. Week \in Nat \ {0}
  BY WeekNat
<1>2. CASE t < anchor
  <2>1. FixedStart(anchor, t) = anchor
    BY <1>2 DEF FixedStart
  <2>2. QED
    BY <1>1, <1>2, <2>1, DivFacts DEF FixedStart
<1>3. CASE anchor <= t
  <2> DEFINE d == ((t - anchor) \div Week) * Week
  <2>1. t - anchor \in Nat
    BY <1>3
  <2>2. d \in Nat /\ d <= t - anchor /\ t - anchor < d + Week
    BY <1>1, <2>1, DivFacts
  <2>3. FixedStart(anchor, t) = anchor + d
    BY <1>3 DEF FixedStart
  <2>4. FixedStart(anchor, anchor) = anchor
    <3>1. (anchor - anchor) \div Week = 0
      BY <1>1
    <3>2. QED
      BY <1>1, <3>1 DEF FixedStart
  <2> HIDE DEF d
  <2>5. QED
    BY <1>1, <1>3, <2>2, <2>3, <2>4
<1>4. QED
  BY <1>2, <1>3

\* Fixed weeks follow each other, and each lasts until the next.
LEMMA FixedMonotone ==
    ASSUME NEW anchor \in Nat, NEW t \in Nat, NEW u \in Nat, anchor <= t, t <= u
    PROVE  /\ FixedStart(anchor, t) <= FixedStart(anchor, u)
           /\ u < FixedStart(anchor, t) + Week
                 => FixedStart(anchor, u) = FixedStart(anchor, t)
           /\ FixedStart(anchor, t) = FixedStart(anchor, u)
                 <=> (t - anchor) \div Week = (u - anchor) \div Week
<1> DEFINE m == t - anchor
           n == u - anchor
<1>1. m \in Nat /\ n \in Nat /\ m <= n /\ t = anchor + m /\ u = anchor + n
  OBVIOUS
<1>2. Week \in Nat \ {0}
  BY WeekNat
<1>3. /\ FixedStart(anchor, t) = anchor + (m \div Week) * Week
      /\ FixedStart(anchor, u) = anchor + (n \div Week) * Week
  BY DEF FixedStart
<1> HIDE DEF m, n
<1>4. /\ (m \div Week) * Week <= (n \div Week) * Week
      /\ n < (m \div Week) * Week + Week => n \div Week = m \div Week
      /\ (m \div Week) * Week = (n \div Week) * Week => m \div Week = n \div Week
  BY <1>1, <1>2, DivMonotone
<1>5. (m \div Week) * Week \in Nat /\ (n \div Week) * Week \in Nat
  BY <1>1, <1>2, DivFacts
<1>6. FixedStart(anchor, t) <= FixedStart(anchor, u)
  BY <1>3, <1>4, <1>5
<1>7. ASSUME u < FixedStart(anchor, t) + Week
      PROVE  FixedStart(anchor, u) = FixedStart(anchor, t)
  <2>1. n < (m \div Week) * Week + Week
    BY <1>1, <1>2, <1>3, <1>5, <1>7
  <2>2. QED
    BY <1>3, <1>4, <2>1
<1>8. FixedStart(anchor, t) = FixedStart(anchor, u) <=> m \div Week = n \div Week
  BY <1>3, <1>4, <1>5
<1>9. QED
  BY <1>6, <1>7, <1>8 DEF m, n

-----------------------------------------------------------------------------
(* What the windows are at an instant.                                     *)

LEMMA OpenedFacts ==
    ASSUME NEW t \in Nat
    PROVE  Opened(t) \in Window /\ Opened(t).start = t /\ Opened(t).billed = {}
  BY DEF Opened, Window

LEMMA BilledFacts ==
    ASSUME NEW w \in Window, NEW c \in Charges
    PROVE  /\ Billed(w, c) \in Window
           /\ Billed(w, c).start = w.start
           /\ Billed(w, c).billed = w.billed \cup {c}
  BY DEF Billed, Window

LEMMA DailyFacts ==
    ASSUME NEW w \in Window, NEW t \in Nat, t >= Day
    PROVE  /\ Daily(w, t) \in Window
           /\ Daily(w, t).start = StartOfDay(t)
           /\ w.start = StartOfDay(t) => Daily(w, t).billed = w.billed
           /\ w.start # StartOfDay(t) => Daily(w, t).billed = {}
<1>1. Opened(StartOfDay(t)) \in Window /\ Opened(StartOfDay(t)).start = StartOfDay(t)
      /\ Opened(StartOfDay(t)).billed = {}
  BY DayStart, OpenedFacts
<1>2. QED
  BY <1>1, DayStart DEF Daily

LEMMA RollingFacts ==
    ASSUME NEW w \in Window, NEW t \in Nat
    PROVE  /\ Rolling(w, t) \in Window
           /\ Rolling(w, t).start \in Nat
           /\ \/ Rolling(w, t).start = t /\ Rolling(w, t).billed = {}
              \/ /\ w.start # ZeroTime /\ t < w.start + Week
                 /\ Rolling(w, t).start = w.start /\ Rolling(w, t).billed = w.billed
           /\ w.start # ZeroTime /\ t < w.start + Week
                 => Rolling(w, t).start = w.start /\ Rolling(w, t).billed = w.billed
<1>1. w.start \in Nat /\ Week \in Nat /\ Opened(t) \in Window
      /\ Opened(t).start = t /\ Opened(t).billed = {}
  BY WeekNat, OpenedFacts DEF Window
<1>2. CASE w.start = ZeroTime \/ t >= w.start + Week
  BY <1>1, <1>2 DEF Rolling
<1>3. CASE ~(w.start = ZeroTime \/ t >= w.start + Week)
  <2>1. Rolling(w, t) = w /\ t < w.start + Week
    BY <1>1, <1>3 DEF Rolling
  <2>2. QED
    BY <1>1, <1>3, <2>1
<1>4. QED
  BY <1>2, <1>3

LEMMA AdvanceFacts ==
    ASSUME NEW w \in Window, NEW s \in Nat
    PROVE  /\ Advance(w, s) \in Window
           /\ Advance(w, s).start \in Nat
           /\ \/ Advance(w, s).start = s /\ Advance(w, s).billed = {}
              \/ /\ w.start # ZeroTime /\ s <= w.start
                 /\ Advance(w, s).start = w.start /\ Advance(w, s).billed = w.billed
           /\ w.start = ZeroTime \/ w.start < s
                 => Advance(w, s).start = s /\ Advance(w, s).billed = {}
           /\ w.start # ZeroTime /\ s <= w.start
                 => Advance(w, s).start = w.start /\ Advance(w, s).billed = w.billed
<1>1. w.start \in Nat /\ Opened(s) \in Window
      /\ Opened(s).start = s /\ Opened(s).billed = {}
  BY OpenedFacts DEF Window
<1>2. CASE w.start = ZeroTime \/ w.start < s
  BY <1>1, <1>2 DEF Advance
<1>3. CASE ~(w.start = ZeroTime \/ w.start < s)
  <2>1. Advance(w, s) = w /\ s <= w.start
    BY <1>1, <1>3 DEF Advance
  <2>2. QED
    BY <1>1, <1>3, <2>1
<1>4. QED
  BY <1>2, <1>3

LEMMA EntryParts ==
    ASSUME NEW st \in Entries
    PROVE  /\ st.anchor \in Nat /\ st.daily \in Window /\ st.weekly \in Window
           /\ st.byAlias \in [Aliases -> [daily : Window, weekly : Window]]
           /\ \A a \in Aliases : /\ st.byAlias[a] \in [daily : Window, weekly : Window]
                                 /\ st.byAlias[a].daily \in Window
                                 /\ st.byAlias[a].weekly \in Window
  BY DEF Entries

LEMMA WeeklyFacts ==
    ASSUME NEW st \in Entries, NEW t \in Nat
    PROVE  /\ Weekly(st, t) \in Window
           /\ st.anchor = ZeroTime => Weekly(st, t) = Rolling(st.weekly, t)
           /\ st.anchor # ZeroTime =>
                 Weekly(st, t) = Advance(st.weekly, FixedStart(st.anchor, t))
  BY EntryParts, RollingFacts, AdvanceFacts, FixedStartFacts DEF Weekly

LEMMA AliasWeekFacts ==
    ASSUME NEW anchor \in Nat, NEW w \in Window, NEW s \in Nat, NEW t \in Nat
    PROVE  /\ AliasWeek(anchor, w, s, t) \in Window
           /\ anchor # ZeroTime => AliasWeek(anchor, w, s, t) = Advance(w, s)
  BY RollingFacts, AdvanceFacts DEF AliasWeek

LEMMA NoEntryFacts ==
    /\ NoEntry \in Entries
    /\ NoEntry.anchor = ZeroTime
    /\ NoEntry.daily = NoWindow /\ NoEntry.weekly = NoWindow
    /\ \A a \in Aliases : /\ NoEntry.byAlias[a].daily = NoWindow
                          /\ NoEntry.byAlias[a].weekly = NoWindow
    /\ NoWindow.start = ZeroTime /\ NoWindow.billed = {}
<1>1. NoWindow \in Window /\ NoWindow.start = ZeroTime /\ NoWindow.billed = {}
  BY DEF NoWindow, Opened, Window, ZeroTime
<1>2. QED
  BY <1>1 DEF NoEntry, Entries, ZeroTime

LEMMA ResetFacts ==
    ASSUME NEW t \in Nat, t >= Day
    PROVE  /\ ResetEntry(t) \in Entries
           /\ ResetEntry(t).anchor = t
           /\ ResetEntry(t).daily = Opened(StartOfDay(t))
           /\ ResetEntry(t).weekly = Opened(t)
           /\ ResetEntry(t).byAlias = NoEntry.byAlias
<1>1. Opened(StartOfDay(t)) \in Window /\ Opened(t) \in Window
  BY DayStart, OpenedFacts
<1>2. QED
  BY <1>1, NoEntryFacts DEF ResetEntry, NoEntry, Entries

-----------------------------------------------------------------------------
(* What is read now.                                                       *)

\* While no clock was set back, a fixed week is never ahead of the current one.
LEMMA FixedWeekNow ==
    ASSUME WindowsInv, Forward, Fixed
    PROVE  /\ Weekly(entry, clock).start = FixedStart(entry.anchor, clock)
           /\ Weekly(entry, clock).billed = IF Current THEN entry.weekly.billed ELSE {}
<1>1. entry \in Entries /\ clock \in Nat
  BY DEF WindowsInv, WindowsType
<1>2. /\ entry.weekly \in Window /\ entry.anchor \in Nat /\ entry.weekly.start \in Nat
      /\ entry.anchor # ZeroTime
  BY <1>1, EntryParts DEF Window, Fixed
<1>3. FixedStart(entry.anchor, clock) \in Nat
  BY <1>1, <1>2, FixedStartFacts
<1>4. /\ entry.weekly.start <= FixedStart(entry.anchor, clock)
      /\ entry.weekly.start # ZeroTime
  BY <1>2 DEF WindowsInv, OpenInv, FixedInv, ZeroTime
<1>5. Weekly(entry, clock) = Advance(entry.weekly, FixedStart(entry.anchor, clock))
  BY <1>2 DEF Weekly
<1>6. QED
  BY <1>2, <1>3, <1>4, <1>5 DEF Advance, Opened, Current

\* The charges of the week that is read are those of the entry's, if it is
\* current.
LEMMA WeekReadNow ==
    ASSUME WindowsInv, Forward
    PROVE  Weekly(entry, clock).billed = IF Current THEN entry.weekly.billed ELSE {}
<1>1. CASE Fixed
  BY <1>1, FixedWeekNow
<1>2. CASE ~Fixed
  <2>1. entry \in Entries /\ clock \in Nat /\ clock >= Day
    BY DEF WindowsInv, WindowsType
  <2>2. entry.weekly \in Window /\ entry.weekly.start \in Nat /\ Week \in Nat
    BY <2>1, EntryParts, WeekNat DEF Window
  <2>3. Weekly(entry, clock) = Rolling(entry.weekly, clock)
    BY <1>2 DEF Weekly, Fixed
  <2>4. CASE entry = NoEntry
    BY <2>3, <2>4, NoEntryFacts DEF Rolling, Opened
  <2>5. CASE entry # NoEntry
    <3>1. entry.weekly.start # ZeroTime
      BY <2>5 DEF WindowsInv, OpenInv
    <3>2. QED
      BY <1>2, <2>1, <2>2, <2>3, <3>1 DEF Rolling, Opened, Current
  <2>6. QED
    BY <2>4, <2>5
<1>3. QED
  BY <1>1, <1>2

\* The deadline that is reported.
LEMMA DeadlineNow ==
    ASSUME WindowsInv, Forward, native
    PROVE  Deadline(entry, clock) = Due
<1>1. entry \in Entries /\ clock \in Nat
  BY DEF WindowsInv, WindowsType
<1>2. entry.weekly \in Window /\ entry.weekly.start \in Nat /\ Week \in Nat
  BY <1>1, EntryParts, WeekNat DEF Window
<1>3. CASE Fixed
  <2>1. entry # NoEntry
    BY <1>3, NoEntryFacts DEF Fixed
  <2>2. QED
    BY <1>3, <2>1, FixedWeekNow DEF Deadline, Due, Fixed
<1>4. CASE ~Fixed
  <2>1. CASE entry = NoEntry
    BY <2>1 DEF Deadline, Due
  <2>2. CASE entry # NoEntry /\ Current
    <3>1. entry.weekly.start # ZeroTime
      BY <2>2 DEF WindowsInv, OpenInv
    <3>2. Weekly(entry, clock).start = entry.weekly.start
      BY <1>1, <1>2, <1>4, <2>2, <3>1 DEF Weekly, Rolling, Fixed, Current
    <3>3. QED
      BY <1>1, <1>2, <1>4, <2>2, <3>2 DEF Deadline, Due, Current, Fixed
  <2>3. CASE entry # NoEntry /\ ~Current
    BY <1>1, <1>2, <1>4, <2>3 DEF Deadline, Due, Current, Fixed
  <2>4. QED
    BY <2>1, <2>2, <2>3
<1>5. QED
  BY <1>3, <1>4

-----------------------------------------------------------------------------
(* The steps.                                                              *)

\* What a charge does to the entry.
LEMMA RecordEffect ==
    ASSUME WindowsType, NEW c \in Charges, NEW a \in Aliases, RecordCost(c, a)
    PROVE  /\ entry'.anchor = entry.anchor
           /\ entry'.daily = Billed(Daily(entry.daily, clock), c)
           /\ entry'.weekly = Billed(Weekly(entry, clock), c)
           /\ entry'.byAlias[a].daily = Billed(Daily(entry.byAlias[a].daily, clock), c)
           /\ entry'.byAlias[a].weekly =
                 Billed(AliasWeek(entry.anchor, entry.byAlias[a].weekly,
                                  Weekly(entry, clock).start, clock), c)
           /\ \A b \in Aliases \ {a} : entry'.byAlias[b] = entry.byAlias[b]
           /\ entry' \in Entries
<1> DEFINE week == Weekly(entry, clock)
           new  == [daily  |-> Billed(Daily(entry.byAlias[a].daily, clock), c),
                    weekly |-> Billed(AliasWeek(entry.anchor, entry.byAlias[a].weekly,
                                                week.start, clock), c)]
           day  == Billed(Daily(entry.daily, clock), c)
<1>1. clock \in Nat /\ clock >= Day /\ entry \in Entries
  BY DEF WindowsType
<1>2. entry' = [entry EXCEPT !.daily = day, !.weekly = Billed(week, c),
                             !.byAlias = [entry.byAlias EXCEPT ![a] = new]]
  BY DEF RecordCost
<1>3. day \in Window
  BY <1>1, EntryParts, DailyFacts, BilledFacts
<1>4. week \in Window /\ Billed(week, c) \in Window
  BY <1>1, WeeklyFacts, BilledFacts
<1>5. new \in [daily : Window, weekly : Window]
  <2>1. Billed(Daily(entry.byAlias[a].daily, clock), c) \in Window
    BY <1>1, EntryParts, DailyFacts, BilledFacts
  <2>2. week.start \in Nat
    BY <1>4 DEF Window
  <2>3. Billed(AliasWeek(entry.anchor, entry.byAlias[a].weekly, week.start, clock), c)
            \in Window
    BY <1>1, <2>2, EntryParts, AliasWeekFacts, BilledFacts
  <2>4. QED
    BY <2>1, <2>3
<1> HIDE DEF day, week, new
<1>6. [entry.byAlias EXCEPT ![a] = new] \in [Aliases -> [daily : Window, weekly : Window]]
  BY <1>1, <1>5, EntryParts
<1>7. /\ entry'.anchor = entry.anchor /\ entry'.daily = day /\ entry'.weekly = Billed(week, c)
      /\ entry'.byAlias = [entry.byAlias EXCEPT ![a] = new]
      /\ entry' \in Entries
  BY <1>1, <1>2, <1>3, <1>4, <1>6 DEF Entries
<1>8. entry'.byAlias[a] = new /\ \A b \in Aliases \ {a} : entry'.byAlias[b] = entry.byAlias[b]
  BY <1>1, <1>7, EntryParts
<1>9. QED
  BY <1>7, <1>8 DEF day, week, new

LEMMA RecordKeepsType ==
    ASSUME WindowsType, NEW c \in Charges, NEW a \in Aliases, RecordCost(c, a)
    PROVE  WindowsType'
  BY RecordEffect DEF WindowsType, RecordCost

\* A charge is new, and recorded at the time of the clock.
LEMMA RecordHistory ==
    ASSUME WindowsInv, NEW c \in Charges, NEW a \in Aliases, RecordCost(c, a)
    PROVE  /\ c \notin live
           /\ \A d \in live : at'[d] = at[d] /\ at[d] \in Nat
           /\ at'[c] = clock /\ clock \in Nat /\ clock >= Day
           /\ live' = live \cup {c}
           /\ clock' = clock /\ (Forward' <=> Forward)
           /\ c \notin entry.weekly.billed
<1>1. WindowsType /\ OpenInv
  BY DEF WindowsInv
<1>2. at \in [Charges -> Nat] /\ live \in SUBSET Charges /\ clock \in Nat /\ clock >= Day
  BY <1>1 DEF WindowsType
<1>3. at[c] = 0 /\ at' = [at EXCEPT ![c] = clock]
  BY DEF RecordCost
<1>4. c \notin live
  BY <1>1, <1>3, DayNat DEF OpenInv
<1>5. \A d \in live : at'[d] = at[d] /\ at[d] \in Nat
  BY <1>2, <1>3, <1>4
<1>6. at'[c] = clock
  BY <1>2, <1>3
<1>7. live' = live \cup {c} /\ clock' = clock /\ (Forward' <=> Forward)
  BY DEF RecordCost, Forward
<1>8. c \notin entry.weekly.billed
  BY <1>1, <1>4 DEF OpenInv
<1>9. QED
  BY <1>2, <1>4, <1>5, <1>6, <1>7, <1>8

LEMMA RecordKeepsDays ==
    ASSUME WindowsInv, NEW c \in Charges, NEW a \in Aliases, RecordCost(c, a)
    PROVE  PastInv' /\ DayInv' /\ AliasDayInv'
<1> SUFFICES ASSUME Forward
             PROVE  PastInv' /\ DayInv' /\ AliasDayInv'
  BY RecordHistory DEF PastInv, DayInv, AliasDayInv
<1> DEFINE today == StartOfDay(clock)
<1>1. /\ entry \in Entries /\ clock \in Nat /\ clock >= Day
      /\ live \in SUBSET Charges
      /\ \A d \in live : at[d] <= clock /\ at[d] \in Nat /\ at[d] >= Day
  BY DEF WindowsInv, WindowsType, PastInv, OpenInv
<1>2. /\ \A d \in live : at'[d] = at[d]
      /\ at'[c] = clock /\ live' = live \cup {c} /\ clock' = clock /\ c \notin live
  BY RecordHistory
<1>3. PastInv'
  BY <1>1, <1>2 DEF PastInv
<1>4. today \in Nat /\ today # ZeroTime
  BY <1>1, DayStart
<1>5. \A d \in live : StartOfDay(at[d]) \in Nat /\ StartOfDay(at[d]) <= today
  BY <1>1, DayStart, DayMonotone
<1>6. /\ entry.daily.start \in Nat /\ entry.daily.billed \subseteq Charges
      /\ entry.daily.start <= today
  BY <1>1, EntryParts DEF Window, WindowsInv, DayInv
<1>7. /\ entry'.daily.start = today
      /\ entry'.daily.billed =
            (IF entry.daily.start = today THEN entry.daily.billed ELSE {}) \cup {c}
  <2>1. entry.daily \in Window /\ Daily(entry.daily, clock) \in Window
    BY <1>1, EntryParts, DailyFacts
  <2>2. QED
    BY <1>1, <2>1, RecordEffect, DailyFacts, BilledFacts DEF WindowsInv
<1>8. \A d \in live : /\ StartOfDay(at[d]) <= entry.daily.start
                      /\ StartOfDay(at[d]) = entry.daily.start => d \in entry.daily.billed
  BY DEF WindowsInv, DayInv
<1>9. \A d \in entry.daily.billed : d \in live /\ StartOfDay(at[d]) = entry.daily.start
  BY DEF WindowsInv, DayInv
<1>10. DayInv'
  <2>1. StartOfDay(clock') = today
    BY <1>2
  <2>2. ASSUME NEW d \in live'
        PROVE  /\ StartOfDay(at'[d]) <= today
               /\ StartOfDay(at'[d]) = today => d \in entry'.daily.billed
    <3>1. CASE d = c
      BY <1>2, <1>4, <1>7, <3>1
    <3>2. CASE d \in live
      BY <1>2, <1>4, <1>5, <1>6, <1>7, <1>8, <3>2
    <3>3. QED
      BY <1>2, <2>2, <3>1, <3>2
  <2>3. ASSUME NEW d \in entry'.daily.billed
        PROVE  d \in live' /\ StartOfDay(at'[d]) = today
    BY <1>2, <1>7, <1>9, <2>3
  <2>4. QED
    BY <1>4, <1>7, <2>1, <2>2, <2>3 DEF DayInv
<1>11. /\ \A b \in Aliases : entry.byAlias[b].daily.start \in Nat
                             /\ entry.byAlias[b].daily.start <= entry.daily.start
       /\ \A d \in entry.daily.billed :
             \E b \in Aliases : /\ entry.byAlias[b].daily.start = entry.daily.start
                                /\ d \in entry.byAlias[b].daily.billed
       /\ \A b \in Aliases :
             entry.byAlias[b].daily.start = entry.daily.start
                 => entry.byAlias[b].daily.billed \subseteq entry.daily.billed
  BY <1>1, EntryParts DEF Window, WindowsInv, AliasDayInv
<1>12. /\ entry'.byAlias[a].daily.start = today
       /\ entry'.byAlias[a].daily.billed =
             (IF entry.byAlias[a].daily.start = today THEN entry.byAlias[a].daily.billed
              ELSE {}) \cup {c}
       /\ \A b \in Aliases \ {a} : entry'.byAlias[b].daily = entry.byAlias[b].daily
  <2>1. /\ entry.byAlias[a].daily \in Window
        /\ Daily(entry.byAlias[a].daily, clock) \in Window
    BY <1>1, EntryParts, DailyFacts
  <2>2. QED
    BY <1>1, <2>1, RecordEffect, DailyFacts, BilledFacts DEF WindowsInv
<1> HIDE DEF today
<1>13. AliasDayInv'
  <2>1. ASSUME NEW b \in Aliases
        PROVE  entry'.byAlias[b].daily.start <= entry'.daily.start
    BY <1>4, <1>6, <1>7, <1>11, <1>12
  <2>2. ASSUME NEW d \in entry'.daily.billed
        PROVE  \E b \in Aliases : /\ entry'.byAlias[b].daily.start = entry'.daily.start
                                  /\ d \in entry'.byAlias[b].daily.billed
    <3>1. CASE d = c
      BY <1>7, <1>12, <3>1
    <3>2. CASE d # c
      <4>1. entry.daily.start = today /\ d \in entry.daily.billed
        BY <1>7, <2>2, <3>2
      <4>2. PICK b \in Aliases : /\ entry.byAlias[b].daily.start = today
                                 /\ d \in entry.byAlias[b].daily.billed
        BY <1>11, <4>1
      <4>3. /\ entry'.byAlias[b].daily.start = today
            /\ d \in entry'.byAlias[b].daily.billed
        BY <1>12, <4>2
      <4>4. QED
        BY <1>7, <4>3
    <3>3. QED
      BY <3>1, <3>2
  <2>3. ASSUME NEW b \in Aliases, entry'.byAlias[b].daily.start = entry'.daily.start
        PROVE  entry'.byAlias[b].daily.billed \subseteq entry'.daily.billed
    <3>1. CASE entry.byAlias[b].daily.start = today
      <4>1. entry.daily.start = today
        BY <1>4, <1>6, <1>11, <3>1
      <4>2. entry.byAlias[b].daily.billed \subseteq entry.daily.billed
        BY <1>11, <3>1, <4>1
      <4>3. QED
        BY <1>7, <1>12, <3>1, <4>1, <4>2
    <3>2. CASE entry.byAlias[b].daily.start # today
      BY <1>7, <1>12, <2>3, <3>2
    <3>3. QED
      BY <3>1, <3>2
  <2>4. QED
    BY <2>1, <2>2, <2>3 DEF AliasDayInv
<1>14. QED
  BY <1>3, <1>10, <1>13

\* The week a charge falls into.
LEMMA RecordWeek ==
    ASSUME WindowsInv, NEW c \in Charges, NEW a \in Aliases, RecordCost(c, a)
    PROVE  /\ entry \in Entries
           /\ entry.weekly \in Window /\ Weekly(entry, clock) \in Window
           /\ entry'.anchor = entry.anchor /\ (Fixed' <=> Fixed)
           /\ entry'.weekly.start = Weekly(entry, clock).start
           /\ entry'.weekly.billed = Weekly(entry, clock).billed \cup {c}
           /\ Weekly(entry, clock).billed \subseteq entry.weekly.billed
           /\ entry'.weekly.start # ZeroTime
<1>1. WindowsType /\ entry \in Entries /\ clock \in Nat /\ clock >= Day
  BY DEF WindowsInv, WindowsType
<1>2. entry.weekly \in Window /\ Weekly(entry, clock) \in Window /\ entry.anchor \in Nat
  BY <1>1, EntryParts, WeeklyFacts
<1>3. /\ entry'.anchor = entry.anchor
      /\ entry'.weekly.start = Weekly(entry, clock).start
      /\ entry'.weekly.billed = Weekly(entry, clock).billed \cup {c}
  BY <1>1, <1>2, RecordEffect, BilledFacts
<1>4. /\ Weekly(entry, clock).billed \subseteq entry.weekly.billed
      /\ Weekly(entry, clock).start # ZeroTime
  <2>1. CASE Fixed
    <3>1. /\ FixedStart(entry.anchor, clock) \in Nat
          /\ FixedStart(entry.anchor, clock) >= entry.anchor
      BY <1>1, <1>2, FixedStartFacts
    <3>2. Weekly(entry, clock) = Advance(entry.weekly, FixedStart(entry.anchor, clock))
      BY <1>1, <2>1, WeeklyFacts DEF Fixed
    <3>3. FixedStart(entry.anchor, clock) # ZeroTime
      BY <1>2, <2>1, <3>1 DEF Fixed, ZeroTime
    <3>4. QED
      BY <3>2, <3>3 DEF Advance, Opened
  <2>2. CASE ~Fixed
    <3>1. Weekly(entry, clock) = Rolling(entry.weekly, clock)
      BY <1>1, <2>2, WeeklyFacts DEF Fixed
    <3>2. clock # ZeroTime
      BY <1>1, DayNat DEF ZeroTime
    <3>3. QED
      BY <3>1, <3>2 DEF Rolling, Opened
  <2>3. QED
    BY <2>1, <2>2
<1>5. QED
  BY <1>1, <1>2, <1>3, <1>4 DEF Fixed

LEMMA RecordKeepsOpen ==
    ASSUME WindowsInv, NEW c \in Charges, NEW a \in Aliases, RecordCost(c, a)
    PROVE  OpenInv'
<1>1. WindowsType /\ OpenInv /\ entry \in Entries /\ clock \in Nat /\ clock >= Day
  BY DEF WindowsInv, WindowsType
<1>2. \A d \in live' : at'[d] >= Day
  BY <1>1, RecordHistory DEF OpenInv
<1>3. \A d \in entry'.weekly.billed : d \in live'
  BY <1>1, RecordHistory, RecordWeek DEF OpenInv
<1>4. entry'.daily.start # ZeroTime
  <2>1. entry.daily \in Window /\ Daily(entry.daily, clock) \in Window
    BY <1>1, EntryParts, DailyFacts
  <2>2. QED
    BY <1>1, <2>1, RecordEffect, DailyFacts, DayStart, BilledFacts
<1>5. ASSUME NEW b \in Aliases
      PROVE  /\ entry'.byAlias[b].daily.start = ZeroTime => entry'.byAlias[b].daily.billed = {}
             /\ entry'.byAlias[b].weekly.start = ZeroTime => entry'.byAlias[b].weekly.billed = {}
  <2>1. CASE b # a
    BY <1>1, <2>1, RecordEffect DEF OpenInv
  <2>2. CASE b = a
    <3>1. /\ entry.byAlias[a].daily \in Window /\ entry.byAlias[a].weekly \in Window
          /\ Daily(entry.byAlias[a].daily, clock) \in Window
          /\ entry.anchor \in Nat
      BY <1>1, EntryParts, DailyFacts
    <3>2. entry'.byAlias[a].daily.start # ZeroTime
      BY <1>1, <3>1, RecordEffect, DailyFacts, DayStart, BilledFacts
    <3> DEFINE s == Weekly(entry, clock).start
               w == AliasWeek(entry.anchor, entry.byAlias[a].weekly, s, clock)
    <3>3. s \in Nat /\ s # ZeroTime
      BY RecordWeek DEF Window
    <3>4. w \in Window /\ (Fixed => w = Advance(entry.byAlias[a].weekly, s))
      BY <1>1, <3>1, <3>3, AliasWeekFacts DEF Fixed
    <3>5. entry'.byAlias[a].weekly.start = w.start
      BY <1>1, <3>4, RecordEffect, BilledFacts
    <3>6. w.start # ZeroTime
      <4>1. CASE Fixed
        <5> HIDE DEF s
        <5>1. QED
          BY <3>1, <3>3, <3>4, <4>1 DEF Window, Advance, Opened
      <4>2. CASE ~Fixed
        <5>1. w = Rolling(entry.byAlias[a].weekly, clock)
          BY <4>2 DEF AliasWeek, Fixed
        <5>2. clock # ZeroTime
          BY <1>1, DayNat DEF ZeroTime
        <5>3. QED
          BY <1>1, <3>1, <5>1, <5>2 DEF Window, Rolling, Opened
      <4>3. QED
        BY <4>1, <4>2
    <3>7. QED
      BY <2>2, <3>2, <3>5, <3>6
  <2>3. QED
    BY <2>1, <2>2
<1>6. entry'.weekly.start # ZeroTime
  BY RecordWeek
<1>7. Fixed' => entry'.weekly.start >= entry'.anchor
  <2> SUFFICES ASSUME Fixed
               PROVE  Weekly(entry, clock).start >= entry.anchor
    BY RecordWeek
  <2>1. entry.weekly \in Window /\ entry.anchor \in Nat /\ entry.weekly.start >= entry.anchor
    BY <1>1, EntryParts DEF OpenInv
  <2>2. /\ FixedStart(entry.anchor, clock) \in Nat
        /\ FixedStart(entry.anchor, clock) >= entry.anchor
    BY <1>1, <2>1, FixedStartFacts
  <2>3. Weekly(entry, clock) = Advance(entry.weekly, FixedStart(entry.anchor, clock))
    BY <1>1, WeeklyFacts DEF Fixed
  <2>4. QED
    BY <2>1, <2>2, <2>3 DEF Advance, Opened, Window
<1>8. QED
  BY <1>2, <1>3, <1>4, <1>5, <1>6, <1>7 DEF OpenInv

LEMMA RecordKeepsRolling ==
    ASSUME WindowsInv, NEW c \in Charges, NEW a \in Aliases, RecordCost(c, a)
    PROVE  RollingInv'
<1> SUFFICES ASSUME Forward, ~Fixed
             PROVE  RollingInv'
  BY RecordHistory, RecordWeek DEF RollingInv
<1>1. clock \in Nat /\ entry.weekly \in Window
  BY RecordHistory, RecordWeek
<1>2. /\ entry.weekly.start <= clock
      /\ \A d \in entry.weekly.billed : d \in live /\ at[d] >= entry.weekly.start
  BY DEF WindowsInv, RollingInv, OpenInv
<1>3. Weekly(entry, clock) = Rolling(entry.weekly, clock)
  BY RecordWeek, RecordHistory, WeeklyFacts DEF Fixed
<1>4. /\ Weekly(entry, clock).start <= clock
      /\ \A d \in Weekly(entry, clock).billed : d \in live /\ at[d] >= Weekly(entry, clock).start
  BY <1>1, <1>2, <1>3, RollingFacts DEF Window
<1>5. QED
  BY <1>4, RecordHistory, RecordWeek DEF RollingInv

LEMMA RecordKeepsFixed ==
    ASSUME WindowsInv, NEW c \in Charges, NEW a \in Aliases, RecordCost(c, a)
    PROVE  FixedInv'
<1> SUFFICES ASSUME Forward, Fixed
             PROVE  FixedInv'
  BY RecordHistory, RecordWeek DEF FixedInv
<1> DEFINE now == FixedStart(entry.anchor, clock)
<1>1. /\ clock \in Nat /\ entry.weekly \in Window /\ entry.anchor \in Nat
      /\ entry.weekly.start \in Nat
      /\ \A d \in live : at[d] \in Nat /\ at[d] <= clock
  BY RecordHistory, RecordWeek, EntryParts DEF Window, WindowsInv, PastInv
<1>2. /\ entry.anchor <= clock /\ entry.weekly.start <= now
      /\ \A d \in live :
            /\ entry.anchor <= at[d]
            /\ FixedStart(entry.anchor, at[d]) <= entry.weekly.start
            /\ FixedStart(entry.anchor, at[d]) = entry.weekly.start
                  => d \in entry.weekly.billed
      /\ \A d \in entry.weekly.billed :
            d \in live /\ FixedStart(entry.anchor, at[d]) = entry.weekly.start
  BY DEF WindowsInv, FixedInv, OpenInv
<1>3. now \in Nat
  BY <1>1, FixedStartFacts
<1>4. Weekly(entry, clock) = Advance(entry.weekly, now)
  BY <1>1, RecordWeek, WeeklyFacts DEF Fixed
<1>5. entry.weekly.start # ZeroTime
  BY <1>1 DEF WindowsInv, OpenInv, Fixed, ZeroTime
<1>6. /\ entry'.weekly.start = now
      /\ entry'.weekly.billed =
            (IF entry.weekly.start = now THEN entry.weekly.billed ELSE {}) \cup {c}
  <2> HIDE DEF now
  <2>1. QED
    BY <1>1, <1>2, <1>3, <1>4, <1>5, RecordWeek DEF Window, Advance, Opened
<1>7. \A d \in live : /\ FixedStart(entry.anchor, at[d]) \in Nat
                      /\ FixedStart(entry.anchor, at[d]) <= now
  BY <1>1, <1>2, FixedStartFacts, FixedMonotone
<1>8. /\ \A d \in live : at'[d] = at[d]
      /\ at'[c] = clock /\ live' = live \cup {c} /\ clock' = clock /\ c \notin live
  BY RecordHistory
<1>9. entry'.anchor = entry.anchor
  BY RecordWeek
<1>10. entry'.anchor <= clock' /\ entry'.weekly.start <= FixedStart(entry'.anchor, clock')
  BY <1>2, <1>3, <1>6, <1>8, <1>9
<1>11. ASSUME NEW d \in live'
       PROVE  /\ entry.anchor <= at'[d]
              /\ FixedStart(entry.anchor, at'[d]) <= now
              /\ FixedStart(entry.anchor, at'[d]) = now => d \in entry'.weekly.billed
  <2>1. CASE d = c
    BY <1>2, <1>3, <1>6, <1>8, <2>1
  <2>2. CASE d \in live
    <3> HIDE DEF now
    <3>1. QED
      BY <1>1, <1>2, <1>3, <1>6, <1>7, <1>8, <2>2
  <2>3. QED
    BY <1>8, <1>11, <2>1, <2>2
<1>12. ASSUME NEW d \in entry'.weekly.billed
       PROVE  FixedStart(entry.anchor, at'[d]) = now
  BY <1>2, <1>6, <1>8, <1>12
<1>13. QED
  BY <1>6, <1>9, <1>10, <1>11, <1>12 DEF FixedInv

LEMMA RecordKeepsAliasWeek ==
    ASSUME WindowsInv, NEW c \in Charges, NEW a \in Aliases, RecordCost(c, a)
    PROVE  AliasWeekInv'
<1> SUFFICES ASSUME Fixed
             PROVE  AliasWeekInv'
  BY RecordWeek DEF AliasWeekInv
<1> DEFINE s   == Weekly(entry, clock).start
           old == entry.weekly
<1>1. /\ clock \in Nat /\ entry.anchor \in Nat /\ old \in Window /\ entry \in Entries
      /\ old.start \in Nat
      /\ \A b \in Aliases : /\ entry.byAlias[b].weekly \in Window
                            /\ entry.byAlias[b].weekly.start \in Nat
  BY RecordHistory, RecordWeek, EntryParts DEF Window
<1>2. /\ \A b \in Aliases : entry.byAlias[b].weekly.start <= old.start
      /\ \A d \in old.billed :
            \E b \in Aliases : /\ entry.byAlias[b].weekly.start = old.start
                               /\ d \in entry.byAlias[b].weekly.billed
      /\ \A b \in Aliases : entry.byAlias[b].weekly.start = old.start
                               => entry.byAlias[b].weekly.billed \subseteq old.billed
  BY DEF WindowsInv, AliasWeekInv
<1>3. old.start # ZeroTime
  BY <1>1 DEF WindowsInv, OpenInv, Fixed, ZeroTime
<1>4. /\ s \in Nat /\ s # ZeroTime /\ old.start <= s
      /\ entry'.weekly.start = s
      /\ entry'.weekly.billed = (IF old.start = s THEN old.billed ELSE {}) \cup {c}
  <2>1. Weekly(entry, clock) = Advance(old, FixedStart(entry.anchor, clock))
    BY <1>1, WeeklyFacts DEF Fixed
  <2>2. FixedStart(entry.anchor, clock) \in Nat
    BY <1>1, FixedStartFacts
  <2>3. s \in Nat /\ s # ZeroTime
    BY RecordWeek DEF Window
  <2>4. QED
    BY <1>1, <1>3, <2>1, <2>2, <2>3, RecordWeek DEF Window, Advance, Opened
<1> DEFINE w == AliasWeek(entry.anchor, entry.byAlias[a].weekly, s, clock)
<1>5. w \in Window /\ w = Advance(entry.byAlias[a].weekly, s)
  <2> HIDE DEF s
  <2>1. w = Advance(entry.byAlias[a].weekly, s)
    BY DEF Fixed, AliasWeek
  <2>2. QED
    BY <1>1, <1>4, <2>1 DEF Window, Advance, Opened
<1>6. /\ entry'.byAlias[a].weekly.start = w.start
      /\ entry'.byAlias[a].weekly.billed = w.billed \cup {c}
      /\ \A b \in Aliases \ {a} : entry'.byAlias[b] = entry.byAlias[b]
  BY <1>5, RecordEffect, BilledFacts DEF WindowsInv
<1> HIDE DEF s, w, old
<1>7. /\ entry'.byAlias[a].weekly.start = s
      /\ entry'.byAlias[a].weekly.billed =
            (IF entry.byAlias[a].weekly.start = s THEN entry.byAlias[a].weekly.billed
             ELSE {}) \cup {c}
  BY <1>1, <1>2, <1>4, <1>5, <1>6 DEF Window, Advance, Opened
<1>8. \A b \in Aliases : entry'.byAlias[b].weekly.start <= s
  BY <1>1, <1>2, <1>4, <1>6, <1>7
<1>9. ASSUME NEW d \in entry'.weekly.billed
      PROVE  \E b \in Aliases : /\ entry'.byAlias[b].weekly.start = s
                                /\ d \in entry'.byAlias[b].weekly.billed
  <2>1. CASE d = c
    BY <1>7, <2>1
  <2>2. CASE d # c
    <3>1. old.start = s /\ d \in old.billed
      BY <1>4, <1>9, <2>2
    <3>2. PICK b \in Aliases : /\ entry.byAlias[b].weekly.start = s
                               /\ d \in entry.byAlias[b].weekly.billed
      BY <1>2, <3>1
    <3>3. QED
      BY <1>6, <1>7, <3>2
  <2>3. QED
    BY <2>1, <2>2
<1>10. ASSUME NEW b \in Aliases, entry'.byAlias[b].weekly.start = s
       PROVE  entry'.byAlias[b].weekly.billed \subseteq entry'.weekly.billed
  <2>1. CASE entry.byAlias[b].weekly.start = s
    <3>1. old.start = s
      BY <1>1, <1>2, <1>4, <2>1
    <3>2. entry.byAlias[b].weekly.billed \subseteq old.billed
      BY <1>2, <2>1, <3>1
    <3>3. QED
      BY <1>4, <1>6, <1>7, <2>1, <3>1, <3>2
  <2>2. CASE entry.byAlias[b].weekly.start # s
    BY <1>4, <1>6, <1>7, <1>10, <2>2
  <2>3. QED
    BY <2>1, <2>2
<1>11. QED
  BY <1>4, <1>8, <1>9, <1>10 DEF AliasWeekInv

LEMMA RecordKeepsPromise ==
    ASSUME WindowsInv, NEW c \in Charges, NEW a \in Aliases, RecordCost(c, a)
    PROVE  PromiseInv'
<1> SUFFICES ASSUME Forward, native, promised # 0
             PROVE  IF clock < promised THEN Due' = promised
                    ELSE \A d \in entry'.weekly.billed : Current' => at'[d] >= promised
  BY RecordHistory DEF PromiseInv, RecordCost
<1>1. /\ clock \in Nat /\ promised \in Nat /\ Week \in Nat
      /\ entry.weekly.start \in Nat
      /\ clock' = clock /\ entry'.anchor = entry.anchor /\ (Fixed' <=> Fixed)
  BY RecordHistory, RecordWeek, WeekNat DEF WindowsInv, WindowsType, Window
<1>2. CASE clock < promised
  <2>1. Due = promised
    BY <1>2 DEF WindowsInv, PromiseInv
  <2>2. entry # NoEntry /\ (Fixed \/ Current)
    BY <2>1 DEF Due
  <2>3. entry' # NoEntry
    BY RecordWeek, NoEntryFacts
  <2>4. CASE Fixed
    BY <1>1, <1>2, <2>1, <2>2, <2>3, <2>4 DEF Due
  <2>5. CASE ~Fixed
    <3>1. entry.weekly.start # ZeroTime
      BY <2>2 DEF WindowsInv, OpenInv
    <3>2. Weekly(entry, clock).start = entry.weekly.start
      BY <1>1, <2>2, <2>5, <3>1 DEF Weekly, Rolling, Fixed, Current
    <3>3. entry'.weekly.start = entry.weekly.start
      BY <3>2, RecordWeek
    <3>4. Current'
      BY <1>1, <2>2, <2>5, <3>3 DEF Current
    <3>5. QED
      BY <1>1, <1>2, <2>1, <2>2, <2>3, <2>5, <3>3, <3>4 DEF Due
  <2>6. QED
    BY <1>2, <2>4, <2>5
<1>3. CASE ~(clock < promised)
  <2>1. \A d \in entry.weekly.billed : Current => at[d] >= promised
    BY <1>3 DEF WindowsInv, PromiseInv
  <2>2. \A d \in entry.weekly.billed : d \in live
    BY DEF WindowsInv, OpenInv
  <2>3. \A d \in Weekly(entry, clock).billed : d \in entry.weekly.billed /\ Current
    BY WeekReadNow
  <2>4. ASSUME NEW d \in entry'.weekly.billed
        PROVE  at'[d] >= promised
    <3>1. CASE d = c
      BY <1>1, <1>3, <3>1, RecordHistory
    <3>2. CASE d # c
      <4>1. d \in Weekly(entry, clock).billed
        BY <2>4, <3>2, RecordWeek
      <4>2. QED
        BY <2>1, <2>2, <2>3, <4>1, RecordHistory
    <3>3. QED
      BY <3>1, <3>2
  <2>5. QED
    BY <1>3, <2>4
<1>4. QED
  BY <1>2, <1>3

LEMMA RecordKeepsInv ==
    ASSUME WindowsInv, NEW c \in Charges, NEW a \in Aliases, RecordCost(c, a)
    PROVE  WindowsInv'
<1>1. WindowsType
  BY DEF WindowsInv
<1>2. QED
  BY <1>1, RecordKeepsType, RecordKeepsOpen, RecordKeepsDays, RecordKeepsRolling,
     RecordKeepsFixed, RecordKeepsAliasWeek, RecordKeepsPromise
     DEF WindowsInv

LEMMA ReportKeepsInv ==
    ASSUME WindowsInv, Report
    PROVE  WindowsInv'
<1>1. UNCHANGED <<native, clock, entry, at, live, steps>>
  BY DEF Report
<1>2. Deadline(entry, clock) \in Nat
  <2>1. entry \in Entries /\ clock \in Nat
    BY DEF WindowsInv, WindowsType
  <2>2. Weekly(entry, clock).start \in Nat
    BY <2>1, WeeklyFacts DEF Window
  <2>3. QED
    BY <2>2, WeekNat DEF Deadline
<1>3. WindowsType' /\ OpenInv' /\ PastInv'
  BY <1>1, <1>2 DEF WindowsInv, WindowsType, OpenInv, PastInv, Fixed, Forward, Report
<1>4. DayInv' /\ RollingInv' /\ FixedInv' /\ AliasDayInv' /\ AliasWeekInv'
  BY <1>1 DEF WindowsInv, DayInv, RollingInv, FixedInv, AliasDayInv, AliasWeekInv,
              Fixed, Forward
<1>5. PromiseInv'
  <2> SUFFICES ASSUME Forward, native, promised' # 0
               PROVE  clock < promised' /\ Due' = promised'
    BY <1>1 DEF PromiseInv, Forward
  <2>1. promised' = Due /\ Due' = Due
    BY <1>1, DeadlineNow DEF Report, Due, Fixed, Current
  <2>2. clock < Due
    <3>1. entry # NoEntry /\ (Fixed \/ Current)
      BY <2>1 DEF Due
    <3>2. CASE Fixed
      <4>1. clock \in Nat /\ entry.anchor \in Nat /\ entry.anchor <= clock
        BY <3>2, EntryParts DEF WindowsInv, WindowsType, FixedInv
      <4>2. QED
        BY <3>1, <3>2, <4>1, FixedStartFacts DEF Due
    <3>3. CASE ~Fixed
      BY <3>1, <3>3 DEF Due, Current
    <3>4. QED
      BY <3>2, <3>3
  <2>3. QED
    BY <2>1, <2>2
<1>6. QED
  BY <1>3, <1>4, <1>5 DEF WindowsInv

LEMMA ResetKeepsInv ==
    ASSUME WindowsInv, ResetAccount
    PROVE  WindowsInv'
<1>1. /\ clock' = clock /\ native' = native /\ at' = at /\ steps' = steps
      /\ live' = {} /\ promised' = 0
      /\ native \in BOOLEAN /\ clock \in Nat /\ clock >= Day
      /\ at \in [Charges -> Nat] /\ steps \in Nat
  BY DEF WindowsInv, WindowsType, ResetAccount
<1>2. PromiseInv'
  BY <1>1 DEF PromiseInv
<1>3. CASE native
  <2>1. /\ entry' \in Entries /\ entry'.anchor = clock
        /\ entry'.daily = Opened(StartOfDay(clock)) /\ entry'.weekly = Opened(clock)
        /\ \A a \in Aliases : /\ entry'.byAlias[a].daily = NoWindow
                              /\ entry'.byAlias[a].weekly = NoWindow
    BY <1>1, <1>3, ResetFacts, NoEntryFacts DEF ResetAccount
  <2>2. /\ StartOfDay(clock) \in Nat /\ StartOfDay(clock) # ZeroTime
        /\ FixedStart(clock, clock) = clock /\ clock # ZeroTime
    BY <1>1, DayNat, DayStart, FixedStartFacts DEF ZeroTime
  <2>3. /\ entry'.daily.start = StartOfDay(clock) /\ entry'.daily.billed = {}
        /\ entry'.weekly.start = clock /\ entry'.weekly.billed = {}
        /\ \A a \in Aliases :
              /\ entry'.byAlias[a].daily.start = 0 /\ entry'.byAlias[a].daily.billed = {}
              /\ entry'.byAlias[a].weekly.start = 0 /\ entry'.byAlias[a].weekly.billed = {}
    BY <2>1, NoEntryFacts DEF Opened, ZeroTime
  <2>4. Fixed'
    BY <2>1, <2>2 DEF Fixed
  <2>5. WindowsType' /\ OpenInv' /\ PastInv'
    BY <1>1, <2>1, <2>2, <2>3 DEF WindowsType, OpenInv, PastInv
  <2>6. DayInv' /\ AliasDayInv'
    BY <1>1, <2>2, <2>3 DEF DayInv, AliasDayInv, ZeroTime
  <2>7. RollingInv' /\ FixedInv' /\ AliasWeekInv'
    BY <1>1, <2>1, <2>2, <2>3, <2>4 DEF RollingInv, FixedInv, AliasWeekInv, ZeroTime
  <2>8. QED
    BY <1>2, <2>5, <2>6, <2>7 DEF WindowsInv
<1>4. CASE ~native
  <2>1. entry' = NoEntry
    BY <1>4 DEF ResetAccount
  <2>2. /\ entry' \in Entries /\ entry'.anchor = ZeroTime
        /\ entry'.daily.start = 0 /\ entry'.daily.billed = {}
        /\ entry'.weekly.start = 0 /\ entry'.weekly.billed = {}
        /\ \A a \in Aliases :
              /\ entry'.byAlias[a].daily.start = 0 /\ entry'.byAlias[a].daily.billed = {}
              /\ entry'.byAlias[a].weekly.start = 0 /\ entry'.byAlias[a].weekly.billed = {}
    BY <2>1, NoEntryFacts DEF ZeroTime
  <2>3. ~Fixed'
    BY <2>2 DEF Fixed
  <2>4. StartOfDay(clock) \in Nat
    BY <1>1, DayStart
  <2>5. WindowsType' /\ OpenInv' /\ PastInv'
    BY <1>1, <2>1, <2>2, <2>3 DEF WindowsType, OpenInv, PastInv
  <2>6. DayInv' /\ AliasDayInv'
    BY <1>1, <2>2, <2>4 DEF DayInv, AliasDayInv
  <2>7. RollingInv' /\ FixedInv' /\ AliasWeekInv'
    BY <1>1, <2>2, <2>3 DEF RollingInv, FixedInv, AliasWeekInv
  <2>8. QED
    BY <1>2, <2>5, <2>6, <2>7 DEF WindowsInv
<1>5. QED
  BY <1>3, <1>4

\* Time moves no window; it only makes a later one current.
LEMMA TickKeepsInv ==
    ASSUME WindowsInv, Tick
    PROVE  WindowsInv'
<1>1. /\ UNCHANGED <<native, entry, at, live, promised, steps>>
      /\ clock' = clock + 1
      /\ clock \in Nat /\ clock >= Day /\ Week \in Nat /\ promised \in Nat
      /\ (Fixed' <=> Fixed) /\ (Forward' <=> Forward)
  BY WeekNat DEF Tick, WindowsInv, WindowsType, Fixed, Forward
<1>2. /\ entry \in Entries /\ entry.anchor \in Nat /\ entry.weekly.start \in Nat
      /\ entry.daily.start \in Nat
      /\ \A c \in live : at[c] \in Nat
  BY EntryParts DEF WindowsInv, WindowsType, Window
<1>3. /\ StartOfDay(clock) \in Nat /\ StartOfDay(clock') \in Nat
      /\ StartOfDay(clock) <= StartOfDay(clock')
  BY <1>1, DayNat, DayStart, DayMonotone
<1>4. WindowsType' /\ OpenInv'
  BY <1>1, DayNat DEF WindowsInv, WindowsType, OpenInv, Fixed
<1>5. PastInv' /\ DayInv' /\ AliasDayInv'
  BY <1>1, <1>2, <1>3 DEF WindowsInv, PastInv, DayInv, AliasDayInv
<1>6. RollingInv' /\ AliasWeekInv'
  BY <1>1, <1>2 DEF WindowsInv, RollingInv, AliasWeekInv
<1>7. Forward /\ Fixed =>
         /\ entry.anchor <= clock
         /\ FixedStart(entry.anchor, clock) \in Nat
         /\ FixedStart(entry.anchor, clock') \in Nat
         /\ FixedStart(entry.anchor, clock) <= FixedStart(entry.anchor, clock')
         /\ clock' < FixedStart(entry.anchor, clock) + Week =>
               FixedStart(entry.anchor, clock') = FixedStart(entry.anchor, clock)
         /\ clock' < FixedStart(entry.anchor, clock') + Week
         /\ entry.weekly.start <= FixedStart(entry.anchor, clock)
  <2> SUFFICES ASSUME Forward, Fixed
               PROVE  <1>7!2
    OBVIOUS
  <2>1. entry.anchor <= clock /\ entry.weekly.start <= FixedStart(entry.anchor, clock)
    BY DEF WindowsInv, FixedInv
  <2>2. clock' \in Nat /\ clock <= clock' /\ entry.anchor <= clock'
    BY <1>1, <1>2, <2>1
  <2> DEFINE s == FixedStart(entry.anchor, clock)
             n == FixedStart(entry.anchor, clock')
  <2>3. s \in Nat /\ n \in Nat /\ clock' < n + Week
    BY <1>1, <1>2, <2>1, <2>2, FixedStartFacts
  <2>4. s <= n /\ (clock' < s + Week => n = s)
    BY <1>1, <1>2, <2>1, <2>2, FixedMonotone
  <2>5. QED
    BY <2>1, <2>3, <2>4
<1>8. FixedInv'
  BY <1>1, <1>2, <1>7 DEF WindowsInv, FixedInv
<1>9. PromiseInv'
  <2> SUFFICES ASSUME Forward, native, promised # 0
               PROVE  IF clock' < promised THEN Due' = promised
                      ELSE \A c \in entry.weekly.billed : Current' => at[c] >= promised
    BY <1>1 DEF PromiseInv
  <2>1. CASE clock < promised
    <3>1. Due = promised
      BY <2>1 DEF WindowsInv, PromiseInv
    <3>2. entry # NoEntry /\ (Fixed \/ Current)
      BY <3>1 DEF Due
    <3>3. CASE Fixed
      <4>1. promised = FixedStart(entry.anchor, clock) + Week
        BY <3>1, <3>2, <3>3 DEF Due
      <4>2. CASE clock' < promised
        BY <1>1, <1>7, <3>2, <3>3, <4>1, <4>2 DEF Due
      <4>3. CASE ~(clock' < promised)
        <5>1. ~Current'
          BY <1>1, <1>2, <1>7, <3>3, <4>1, <4>3, WeekNat DEF Current
        <5>2. QED
          BY <4>3, <5>1
      <4>4. QED
        BY <4>2, <4>3
    <3>4. CASE ~Fixed
      <4>1. promised = entry.weekly.start + Week
        BY <3>1, <3>2, <3>4 DEF Due
      <4>2. Current' <=> clock' < promised
        BY <1>1, <3>4, <4>1 DEF Current
      <4>3. QED
        BY <1>1, <3>2, <3>4, <4>1, <4>2 DEF Due
    <3>5. QED
      BY <3>3, <3>4
  <2>2. CASE ~(clock < promised)
    <3>1. \A c \in entry.weekly.billed : Current => at[c] >= promised
      BY <2>2 DEF WindowsInv, PromiseInv
    <3>2. Current' => Current
      <4>1. CASE Fixed
        BY <1>1, <1>2, <1>7, <4>1 DEF Current
      <4>2. CASE ~Fixed
        BY <1>1, <1>2, <4>2 DEF Current
      <4>3. QED
        BY <4>1, <4>2
    <3>3. ~(clock' < promised)
      BY <1>1, <2>2
    <3>4. QED
      BY <3>1, <3>2, <3>3
  <2>3. QED
    BY <2>1, <2>2
<1>10. QED
  BY <1>4, <1>5, <1>6, <1>8, <1>9 DEF WindowsInv

LEMMA StepBackKeepsInv ==
    ASSUME WindowsInv, NEW t \in Day .. MaxTime, StepBack(t)
    PROVE  WindowsInv'
<1>1. /\ UNCHANGED <<native, entry, at, live, promised>>
      /\ clock' = t /\ t \in Nat /\ t >= Day /\ steps' = steps + 1 /\ steps \in Nat
  BY DayNat DEF StepBack, WindowsInv, WindowsType
<1>2. ~Forward'
  BY <1>1 DEF Forward
<1>3. WindowsType' /\ OpenInv' /\ AliasWeekInv'
  BY <1>1 DEF WindowsInv, WindowsType, OpenInv, AliasWeekInv, Fixed
<1>4. QED
  BY <1>2, <1>3 DEF WindowsInv, PastInv, DayInv, AliasDayInv, RollingInv, FixedInv,
                    PromiseInv

-----------------------------------------------------------------------------
(* Results.                                                                *)

LEMMA InitWindows == WindowsInit => WindowsInv
<1> SUFFICES ASSUME WindowsInit
             PROVE  WindowsInv
  OBVIOUS
<1>1. /\ entry = NoEntry /\ live = {} /\ promised = 0 /\ steps = 0 /\ clock = Day
      /\ at = [c \in Charges |-> 0] /\ native \in BOOLEAN
  BY DEF WindowsInit
<1>2. /\ entry \in Entries /\ ~Fixed
      /\ entry.daily.start = 0 /\ entry.daily.billed = {}
      /\ entry.weekly.start = 0 /\ entry.weekly.billed = {}
      /\ \A a \in Aliases :
            /\ entry.byAlias[a].daily.start = 0 /\ entry.byAlias[a].daily.billed = {}
            /\ entry.byAlias[a].weekly.start = 0 /\ entry.byAlias[a].weekly.billed = {}
  BY <1>1, NoEntryFacts DEF Fixed, ZeroTime
<1>3. StartOfDay(clock) \in Nat
  BY <1>1, DayNat, DayStart
<1>4. WindowsType /\ OpenInv /\ PastInv /\ PromiseInv
  BY <1>1, <1>2, DayNat DEF WindowsType, OpenInv, PastInv, PromiseInv
<1>5. DayInv /\ AliasDayInv
  BY <1>1, <1>2, <1>3 DEF DayInv, AliasDayInv
<1>6. RollingInv /\ FixedInv /\ AliasWeekInv
  BY <1>1, <1>2, DayNat DEF RollingInv, FixedInv, AliasWeekInv
<1>7. QED
  BY <1>4, <1>5, <1>6 DEF WindowsInv

LEMMA StepWindows == WindowsInv /\ [WindowsNext]_windowVars => WindowsInv'
<1> SUFFICES ASSUME WindowsInv, [WindowsNext]_windowVars
             PROVE  WindowsInv'
  OBVIOUS
<1>1. ASSUME NEW c \in Charges, NEW a \in Aliases, RecordCost(c, a)
      PROVE  WindowsInv'
  BY <1>1, RecordKeepsInv
<1>2. CASE Report
  BY <1>2, ReportKeepsInv
<1>3. CASE ResetAccount
  BY <1>3, ResetKeepsInv
<1>4. CASE Tick
  BY <1>4, TickKeepsInv
<1>5. ASSUME NEW t \in Day .. MaxTime, StepBack(t)
      PROVE  WindowsInv'
  BY <1>5, StepBackKeepsInv
<1>6. CASE UNCHANGED windowVars
  <2>1. UNCHANGED <<native, clock, entry, at, live, promised, steps>>
    BY <1>6 DEF windowVars
  <2>2. WindowsType' /\ OpenInv' /\ PastInv' /\ DayInv' /\ RollingInv'
    BY <2>1 DEF WindowsInv, WindowsType, OpenInv, PastInv, DayInv, RollingInv,
                Fixed, Forward
  <2>3. FixedInv' /\ AliasDayInv' /\ AliasWeekInv'
    BY <2>1 DEF WindowsInv, FixedInv, AliasDayInv, AliasWeekInv, Fixed, Forward
  <2>4. PromiseInv'
    BY <2>1 DEF WindowsInv, PromiseInv, Due, Current, Fixed, Forward
  <2>5. QED
    BY <2>2, <2>3, <2>4 DEF WindowsInv
<1>7. QED
  BY <1>1, <1>2, <1>3, <1>4, <1>5, <1>6 DEF WindowsNext

\* The windows keep their types, and what they hold stays tied to the history
\* of charges, resets and the clock, for any charges, aliases and lengths.
THEOREM WindowsHold == WindowsSpec => []WindowsInv
  BY InitWindows, StepWindows, PTL DEF WindowsSpec

\* The day a reader sees adds up exactly the charges of this UTC day since the
\* last reset.
THEOREM DaysAreExact == WindowsSpec => []DailyExact
<1>1. WindowsInv => DailyExact
  <2> SUFFICES ASSUME WindowsInv, Forward
               PROVE  DayRead = {c \in live : StartOfDay(at[c]) = StartOfDay(clock)}
    BY DEF DailyExact
  <2>1. /\ entry.daily \in Window /\ clock \in Nat /\ clock >= Day
        /\ entry.daily.start \in Nat
        /\ \A c \in live : at[c] \in Nat /\ at[c] >= Day
    BY EntryParts DEF WindowsInv, WindowsType, OpenInv, Window
  <2>2. /\ StartOfDay(clock) \in Nat
        /\ \A c \in live : StartOfDay(at[c]) \in Nat
    BY <2>1, DayStart
  <2>3. /\ entry.daily.start <= StartOfDay(clock)
        /\ \A c \in live :
              /\ StartOfDay(at[c]) <= entry.daily.start
              /\ StartOfDay(at[c]) = entry.daily.start => c \in entry.daily.billed
        /\ \A c \in entry.daily.billed : c \in live /\ StartOfDay(at[c]) = entry.daily.start
    BY DEF WindowsInv, DayInv
  <2>4. CASE entry.daily.start = StartOfDay(clock)
    <3>1. DayRead = entry.daily.billed
      BY <2>1, <2>4, DailyFacts DEF DayRead
    <3>2. QED
      BY <2>3, <2>4, <3>1
  <2>5. CASE entry.daily.start # StartOfDay(clock)
    <3>1. DayRead = {}
      BY <2>1, <2>5, DailyFacts DEF DayRead
    <3>2. \A c \in live : StartOfDay(at[c]) # StartOfDay(clock)
      BY <2>1, <2>2, <2>3, <2>5
    <3>3. QED
      BY <3>1, <3>2
  <2>6. QED
    BY <2>4, <2>5
<1>2. QED
  BY <1>1, WindowsHold, PTL

\* The week a reader sees holds only charges of the trailing seven days; after
\* a quota reset it adds up exactly those of the current fixed week.
THEOREM WeeksAreExact == WindowsSpec => []WeekExact
<1>1. WindowsInv => WeekExact
  <2> SUFFICES ASSUME WindowsInv, Forward
               PROVE  IF entry.anchor = ZeroTime
                      THEN \A c \in WeekRead : c \in live /\ clock < at[c] + Week
                      ELSE WeekRead = {c \in live : (at[c] - entry.anchor) \div Week
                                              = (clock - entry.anchor) \div Week}
    BY DEF WeekExact
  <2>1. WeekRead = IF Current THEN entry.weekly.billed ELSE {}
    BY WeekReadNow DEF WeekRead
  <2>2. /\ clock \in Nat /\ entry.anchor \in Nat /\ Week \in Nat
        /\ entry.weekly.start \in Nat
        /\ \A c \in live : at[c] \in Nat /\ at[c] <= clock
        /\ \A c \in entry.weekly.billed : c \in live
    BY EntryParts, WeekNat DEF WindowsInv, WindowsType, Window, OpenInv, PastInv
  <2>3. CASE ~Fixed
    <3>1. \A c \in entry.weekly.billed : at[c] >= entry.weekly.start
      BY <2>3 DEF WindowsInv, RollingInv
    <3>2. Current <=> clock < entry.weekly.start + Week
      BY <2>3 DEF Current
    <3>3. QED
      BY <2>1, <2>2, <2>3, <3>1, <3>2 DEF Fixed
  <2>4. CASE Fixed
    <3> DEFINE now == FixedStart(entry.anchor, clock)
    <3>1. /\ entry.anchor <= clock /\ entry.weekly.start <= now
          /\ \A c \in live :
                /\ entry.anchor <= at[c]
                /\ FixedStart(entry.anchor, at[c]) <= entry.weekly.start
                /\ FixedStart(entry.anchor, at[c]) = entry.weekly.start
                      => c \in entry.weekly.billed
          /\ \A c \in entry.weekly.billed :
                FixedStart(entry.anchor, at[c]) = entry.weekly.start
      BY <2>4 DEF WindowsInv, FixedInv
    <3>2. now \in Nat /\ \A c \in live : FixedStart(entry.anchor, at[c]) \in Nat
      BY <2>2, FixedStartFacts
    <3>3. \A c \in live : FixedStart(entry.anchor, at[c]) = now
                             <=> (at[c] - entry.anchor) \div Week
                                   = (clock - entry.anchor) \div Week
      BY <2>2, <3>1, FixedMonotone
    <3>4. Current <=> entry.weekly.start = now
      BY <2>4 DEF Current
    <3> HIDE DEF now
    <3>5. \A c \in live : c \in WeekRead <=> FixedStart(entry.anchor, at[c]) = now
      BY <2>1, <2>2, <3>1, <3>2, <3>4
    <3>6. \A c \in WeekRead : c \in live
      BY <2>1, <2>2
    <3>7. WeekRead = {c \in live : (at[c] - entry.anchor) \div Week
                                      = (clock - entry.anchor) \div Week}
      BY <3>3, <3>5, <3>6
    <3>8. QED
      BY <2>4, <3>7 DEF Fixed
  <2>5. QED
    BY <2>3, <2>4
<1>2. QED
  BY <1>1, WindowsHold, PTL

\* A deadline that was reported for a native key stands until it passes, and
\* then nothing that was charged before is left in the week.
THEOREM DeadlinesStand == WindowsSpec => []DeadlineStands
<1>1. WindowsInv => DeadlineStands
  <2> SUFFICES ASSUME WindowsInv, Forward, native, promised # 0
               PROVE  IF clock < promised THEN Deadline(entry, clock) = promised
                      ELSE \A c \in WeekRead : at[c] >= promised
    BY DEF DeadlineStands
  <2>1. IF clock < promised THEN Due = promised
        ELSE \A c \in entry.weekly.billed : Current => at[c] >= promised
    BY DEF WindowsInv, PromiseInv
  <2>2. QED
    BY <2>1, DeadlineNow, WeekReadNow DEF WeekRead
<1>2. QED
  BY <1>1, WindowsHold, PTL

\* The rows of the breakdown add up to the account's day, and to its week when
\* its weeks are fixed, even after the clock was set back.
THEOREM RowsAddUp == WindowsSpec => []BreakdownAddsUp
<1>1. WindowsInv => BreakdownAddsUp
  <2> SUFFICES ASSUME WindowsInv
               PROVE  BreakdownAddsUp
    OBVIOUS
  <2>1. /\ entry \in Entries /\ clock \in Nat /\ clock >= Day
        /\ entry.anchor \in Nat
        /\ entry.daily \in Window /\ entry.daily.start \in Nat
        /\ entry.weekly \in Window /\ entry.weekly.start \in Nat
        /\ \A a \in Aliases :
              /\ entry.byAlias[a].daily \in Window /\ entry.byAlias[a].daily.start \in Nat
              /\ entry.byAlias[a].weekly \in Window /\ entry.byAlias[a].weekly.start \in Nat
    BY EntryParts DEF WindowsInv, WindowsType, Window
  <2>2. ASSUME Forward
        PROVE  DayRead = UNION {Daily(entry.byAlias[a].daily, clock).billed : a \in Aliases}
    <3> DEFINE today == StartOfDay(clock)
               Row(a) == Daily(entry.byAlias[a].daily, clock).billed
    <3>1. today \in Nat /\ entry.daily.start <= today
      BY <2>1, <2>2, DayStart DEF WindowsInv, DayInv
    <3>2. /\ entry.daily.start = today => DayRead = entry.daily.billed
          /\ entry.daily.start # today => DayRead = {}
      BY <2>1, DailyFacts DEF DayRead
    <3>3. \A a \in Aliases :
             /\ entry.byAlias[a].daily.start = today => Row(a) = entry.byAlias[a].daily.billed
             /\ entry.byAlias[a].daily.start # today => Row(a) = {}
      BY <2>1, DailyFacts
    <3>4. /\ \A a \in Aliases : entry.byAlias[a].daily.start <= entry.daily.start
          /\ \A c \in entry.daily.billed :
                \E a \in Aliases : /\ entry.byAlias[a].daily.start = entry.daily.start
                                   /\ c \in entry.byAlias[a].daily.billed
          /\ \A a \in Aliases :
                entry.byAlias[a].daily.start = entry.daily.start
                    => entry.byAlias[a].daily.billed \subseteq entry.daily.billed
      BY <2>2 DEF WindowsInv, AliasDayInv
    <3> HIDE DEF today, Row
    <3>5. \A c \in DayRead : \E a \in Aliases : c \in Row(a)
      BY <3>2, <3>3, <3>4
    <3>6. ASSUME NEW a \in Aliases, NEW c \in Row(a)
          PROVE  c \in DayRead
      <4>1. entry.byAlias[a].daily.start = today
        BY <3>3, <3>6
      <4>2. entry.daily.start = today
        BY <2>1, <3>1, <3>4, <4>1
      <4>3. QED
        BY <3>2, <3>3, <3>4, <3>6, <4>1, <4>2
    <3>7. DayRead = UNION {Row(a) : a \in Aliases}
      BY <3>5, <3>6
    <3>8. QED
      BY <3>7 DEF Row
  <2>3. ASSUME entry.anchor # ZeroTime
        PROVE  WeekRead = UNION {AliasWeek(entry.anchor, entry.byAlias[a].weekly,
                                   Weekly(entry, clock).start, clock).billed : a \in Aliases}
    <3> DEFINE now == FixedStart(entry.anchor, clock)
               week == Weekly(entry, clock)
               Row(a) == AliasWeek(entry.anchor, entry.byAlias[a].weekly,
                                   week.start, clock).billed
    <3>1. now \in Nat
      BY <2>1, FixedStartFacts
    <3>2. entry.weekly.start # ZeroTime
      BY <2>1, <2>3 DEF WindowsInv, OpenInv, Fixed, ZeroTime
    <3>3. week = Advance(entry.weekly, now)
      BY <2>3 DEF Weekly
    <3> HIDE DEF now
    <3>4. /\ week.start \in Nat /\ week.start # ZeroTime /\ entry.weekly.start <= week.start
          /\ entry.weekly.start = week.start => week.billed = entry.weekly.billed
          /\ entry.weekly.start # week.start => week.billed = {}
      <4> HIDE DEF week
      <4>1. QED
        BY <2>1, <3>1, <3>2, <3>3 DEF Advance, Opened, ZeroTime
    <3>5. \A a \in Aliases : entry.byAlias[a].weekly.start <= entry.weekly.start
      BY <2>3 DEF WindowsInv, AliasWeekInv, Fixed
    <3>6. ASSUME NEW a \in Aliases
          PROVE  /\ entry.byAlias[a].weekly.start = week.start
                       => Row(a) = entry.byAlias[a].weekly.billed
                 /\ entry.byAlias[a].weekly.start # week.start => Row(a) = {}
      <4>1. Row(a) = Advance(entry.byAlias[a].weekly, week.start).billed
        BY <2>3 DEF AliasWeek
      <4> HIDE DEF week, Row
      <4>2. QED
        BY <2>1, <3>4, <3>5, <4>1 DEF Advance, Opened
    <3>7. /\ \A c \in entry.weekly.billed :
                \E a \in Aliases : /\ entry.byAlias[a].weekly.start = entry.weekly.start
                                   /\ c \in entry.byAlias[a].weekly.billed
          /\ \A a \in Aliases :
                entry.byAlias[a].weekly.start = entry.weekly.start
                    => entry.byAlias[a].weekly.billed \subseteq entry.weekly.billed
      BY <2>3 DEF WindowsInv, AliasWeekInv, Fixed
    <3>8. WeekRead = week.billed
      BY DEF WeekRead
    <3> HIDE DEF week, Row
    <3>9. \A c \in WeekRead : \E a \in Aliases : c \in Row(a)
      BY <3>4, <3>6, <3>7, <3>8
    <3>10. ASSUME NEW a \in Aliases, NEW c \in Row(a)
           PROVE  c \in WeekRead
      <4>1. entry.byAlias[a].weekly.start = week.start
        BY <3>6, <3>10
      <4>2. entry.weekly.start = week.start
        BY <2>1, <3>4, <3>5, <4>1
      <4>3. QED
        BY <3>4, <3>6, <3>7, <3>8, <3>10, <4>1, <4>2
    <3>11. WeekRead = UNION {Row(a) : a \in Aliases}
      BY <3>9, <3>10
    <3>12. QED
      BY <3>11 DEF Row, week
  <2>4. QED
    BY <2>2, <2>3 DEF BreakdownAddsUp
<1>2. QED
  BY <1>1, WindowsHold, PTL

\* A clock set back never rewinds a fixed week, nor does it lose a charge of
\* one, as long as the account is not reset.
THEOREM FixedWeeksAdvance == WindowsSpec => PeriodNeverRewinds
<1> DEFINE Kept ==
      entry.anchor # ZeroTime /\ entry'.anchor = entry.anchor /\ live' # {} =>
          \/ entry'.weekly.start > entry.weekly.start
          \/ /\ entry'.weekly.start = entry.weekly.start
             /\ entry.weekly.billed \subseteq entry'.weekly.billed
<1>1. WindowsInv /\ [WindowsNext]_windowVars => [Kept]_windowVars
  <2> SUFFICES ASSUME WindowsInv, WindowsNext, entry.anchor # ZeroTime, live' # {}
               PROVE  \/ entry'.weekly.start > entry.weekly.start
                      \/ /\ entry'.weekly.start = entry.weekly.start
                         /\ entry.weekly.billed \subseteq entry'.weekly.billed
    OBVIOUS
  <2>1. ASSUME NEW c \in Charges, NEW a \in Aliases, RecordCost(c, a)
        PROVE  \/ entry'.weekly.start > entry.weekly.start
               \/ /\ entry'.weekly.start = entry.weekly.start
                  /\ entry.weekly.billed \subseteq entry'.weekly.billed
    <3>1. /\ entry'.weekly.start = Weekly(entry, clock).start
          /\ entry'.weekly.billed = Weekly(entry, clock).billed \cup {c}
      BY <2>1, RecordWeek
    <3>2. /\ clock \in Nat /\ entry.anchor \in Nat /\ entry.weekly.start \in Nat
          /\ entry.weekly.start # ZeroTime
      BY EntryParts DEF WindowsInv, WindowsType, OpenInv, Fixed, Window, ZeroTime
    <3>3. FixedStart(entry.anchor, clock) \in Nat
      BY <3>2, FixedStartFacts
    <3>4. Weekly(entry, clock) = Advance(entry.weekly, FixedStart(entry.anchor, clock))
      BY DEF Weekly
    <3>5. QED
      BY <3>1, <3>2, <3>3, <3>4 DEF Advance, Opened
  <2>2. CASE Report \/ Tick \/ \E t \in Day .. MaxTime : StepBack(t)
    BY <2>2 DEF Report, Tick, StepBack
  <2>3. CASE ResetAccount
    BY <2>3 DEF ResetAccount
  <2>4. QED
    BY <2>1, <2>2, <2>3 DEF WindowsNext
<1>2. [][Kept]_windowVars => PeriodNeverRewinds
  BY DEF PeriodNeverRewinds
<1>3. QED
  BY <1>1, <1>2, WindowsHold, PTL DEF WindowsSpec
=============================================================================
