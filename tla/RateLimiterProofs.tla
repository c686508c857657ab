------------------------- MODULE RateLimiterProofs -------------------------
(***************************************************************************)
(* Proofs about RateLimiter, for any requests, any limit, any length of a  *)
(* window and any clock that may be set back.                              *)
(***************************************************************************)
EXTENDS RateLimiter, FiniteSetTheorems, TLAPS

\* Counted requests whose reading is at least lo and below hi.
Admitted(lo, hi) == {r \in Counted : lo <= at[r] /\ at[r] < hi}

Stages == {"idle", "sampled", "allowed", "denied", "told"}

LimiterType ==
    /\ clock \in 1 .. MaxTime
    /\ start \in 0 .. MaxTime
    /\ count \in 0 .. Rpm
    /\ stage \in [Requests -> Stages]
    /\ at \in [Requests -> 0 .. MaxTime]
    /\ \A r \in Requests : stage[r] # "idle" => at[r] >= 1
    /\ hint \in [Requests -> Nat]
    /\ cleared \subseteq {r \in Requests : stage[r] = "allowed"}
    /\ rewinds \in Nat
    /\ steps \in Nat

\* The bucket of an account has its shape and never counts above the limit.
THEOREM LimiterTyped == Spec => []LimiterType
<1> USE RpmAssumption, MinuteAssumption, TimeBound, StepBound
<1>1. Init => LimiterType
  <2> SUFFICES ASSUME Init PROVE LimiterType
    OBVIOUS
  <2>1. clock \in 1 .. MaxTime /\ start \in 0 .. MaxTime /\ count \in 0 .. Rpm
    BY DEF Init, ZeroTime
  <2>2. /\ stage \in [Requests -> Stages] /\ at \in [Requests -> 0 .. MaxTime]
        /\ hint \in [Requests -> Nat]
    BY DEF Init, Stages
  <2>3. QED
    BY <2>1, <2>2 DEF Init, LimiterType
<1>2. LimiterType /\ [Next]_vars => LimiterType'
  <2> SUFFICES ASSUME LimiterType, [Next]_vars PROVE LimiterType'
    OBVIOUS
  <2> USE DEF LimiterType, Stages
  <2>1. ASSUME NEW r \in Requests, Sample(r) PROVE LimiterType'
    BY <2>1 DEF Sample
  <2>2. ASSUME NEW r \in Requests, Allow(r) PROVE LimiterType'
    <3>1. /\ start' \in 0 .. MaxTime
          /\ count' \in 0 .. Rpm
          /\ rewinds' \in Nat
      BY <2>2 DEF Allow, WindowOver, Exhausted, ZeroTime
    <3>2. PICK to \in {"allowed", "denied"} : stage' = [stage EXCEPT ![r] = to]
      BY <2>2 DEF Allow
    <3>3. stage[r] = "sampled" /\ UNCHANGED <<clock, at, hint, cleared, steps>>
      BY <2>2 DEF Allow
    <3>4. QED
      BY <3>1, <3>2, <3>3
  <2>3. ASSUME NEW r \in Requests, RetryAfter(r) PROVE LimiterType'
    <3>1. Remaining \in Nat
      BY DEF Remaining
    <3>2. QED
      BY <2>3, <3>1 DEF RetryAfter
  <2>4. CASE Reset
    BY <2>4 DEF Reset, ZeroTime
  <2>5. CASE Tick
    BY <2>5 DEF Tick
  <2>6. ASSUME NEW t \in 1 .. MaxTime, StepBack(t) PROVE LimiterType'
    BY <2>6 DEF StepBack
  <2>7. CASE UNCHANGED vars
    BY <2>7 DEF vars
  <2>8. QED
    BY <2>1, <2>2, <2>3, <2>4, <2>5, <2>6, <2>7 DEF Next
<1>3. QED
  BY <1>1, <1>2, PTL DEF Spec

-----------------------------------------------------------------------------
\* While the clock runs forward, nothing has been read ahead of it.
ForwardInv == steps = 0 => start <= clock /\ \A r \in Requests : at[r] <= clock

LEMMA ForwardHolds == Spec => []ForwardInv
<1> USE RpmAssumption, MinuteAssumption, TimeBound, StepBound
<1>1. Init => ForwardInv
  BY DEF Init, ForwardInv, ZeroTime
<1>2. LimiterType /\ ForwardInv /\ [Next]_vars => ForwardInv'
  <2> SUFFICES ASSUME LimiterType, ForwardInv, [Next]_vars PROVE ForwardInv'
    OBVIOUS
  <2> USE DEF LimiterType, ForwardInv
  <2>1. ASSUME NEW r \in Requests, Sample(r) PROVE ForwardInv'
    BY <2>1 DEF Sample
  <2>2. ASSUME NEW r \in Requests, Allow(r) PROVE ForwardInv'
    BY <2>2 DEF Allow
  <2>3. ASSUME NEW r \in Requests, RetryAfter(r) PROVE ForwardInv'
    BY <2>3 DEF RetryAfter
  <2>4. CASE Reset
    BY <2>4 DEF Reset, ZeroTime
  <2>5. CASE Tick
    BY <2>5 DEF Tick
  <2>6. ASSUME NEW t \in 1 .. MaxTime, StepBack(t) PROVE ForwardInv'
    BY <2>6 DEF StepBack
  <2>7. CASE UNCHANGED vars
    BY <2>7 DEF vars
  <2>8. QED
    BY <2>1, <2>2, <2>3, <2>4, <2>5, <2>6, <2>7 DEF Next
<1>3. QED
  BY <1>1, <1>2, LimiterTyped, PTL DEF Spec

\* A client that waits as long as it was told to is past the window that
\* denied it: Retry-After and Allow agree about where a window ends.
THEOREM HintsAreEnough == Spec => HintIsEnough
<1>1. ASSUME LimiterType, ForwardInv, [Next]_vars, NEW r \in Requests,
             stage[r] = "denied", stage'[r] = "told", steps = 0
      PROVE  hint'[r] <= Minute /\ WindowOver(clock + hint'[r])
  <2> USE MinuteAssumption, TimeBound DEF LimiterType
  <2>1. hint'[r] = Remaining
    <3>1. CASE \E q \in Requests : Sample(q) \/ Allow(q)
      BY <1>1, <3>1 DEF Sample, Allow
    <3>2. CASE \E q \in Requests : RetryAfter(q)
      BY <1>1, <3>2 DEF RetryAfter
    <3>3. CASE UNCHANGED stage
      BY <1>1, <3>3
    <3>4. QED
      BY <1>1, <3>1, <3>2, <3>3 DEF Next, vars, Reset, Tick, StepBack
  <2>2. start <= clock
    BY <1>1 DEF ForwardInv
  <2>3. QED
    BY <1>1, <2>1, <2>2 DEF Remaining, WindowOver, ZeroTime
<1>2. LimiterType /\ ForwardInv /\ [Next]_vars =>
        [\A r \in Requests :
             stage[r] = "denied" /\ stage'[r] = "told" /\ steps = 0 =>
                 /\ hint'[r] <= Minute
                 /\ WindowOver(clock + hint'[r])]_vars
  BY <1>1
<1>3. QED
  BY <1>2, LimiterTyped, ForwardHolds, PTL DEF Spec, HintIsEnough

-----------------------------------------------------------------------------
\* What a step does to the requests that count.
LEMMA CountedSteps ==
    ASSUME LimiterType, Next
    PROVE  \/ /\ Counted' = {}
              /\ start' = ZeroTime /\ count' = 0 /\ rewinds' = 0
           \/ /\ Counted' = Counted /\ \A r \in Counted : at'[r] = at[r]
              /\ UNCHANGED <<start, count, rewinds>>
           \/ \E r \in Requests :
                 /\ Allow(r) /\ r \notin Counted /\ at' = at
                 /\ Counted' = IF stage'[r] = "allowed" THEN Counted \cup {r}
                               ELSE Counted
<1> USE DEF LimiterType, Stages
<1>1. ASSUME NEW r \in Requests, Sample(r) \/ RetryAfter(r)
      PROVE  /\ Counted' = Counted /\ \A q \in Counted : at'[q] = at[q]
             /\ UNCHANGED <<start, count, rewinds>>
  <2>1. \A q \in Requests : stage'[q] = "allowed" <=> stage[q] = "allowed"
    BY <1>1 DEF Sample, RetryAfter
  <2>2. cleared' = cleared
    BY <1>1 DEF Sample, RetryAfter
  <2>3. QED
    BY <1>1, <2>1, <2>2 DEF Sample, RetryAfter, Counted
<1>2. ASSUME NEW r \in Requests, Allow(r)
      PROVE  /\ r \notin Counted /\ at' = at
             /\ Counted' = IF stage'[r] = "allowed" THEN Counted \cup {r}
                           ELSE Counted
  <2>1. /\ stage[r] = "sampled" /\ at' = at /\ cleared' = cleared
        /\ \A q \in Requests \ {r} : stage'[q] = stage[q]
    BY <1>2 DEF Allow
  <2>2. r \notin Counted /\ r \notin cleared
    BY <2>1 DEF Counted
  <2>3. QED
    BY <2>1, <2>2 DEF Counted
<1>3. CASE Reset
  BY <1>3 DEF Reset, Counted
<1>4. ASSUME Tick \/ \E t \in 1 .. MaxTime : StepBack(t)
      PROVE  /\ Counted' = Counted /\ \A r \in Counted : at'[r] = at[r]
             /\ UNCHANGED <<start, count, rewinds>>
  BY <1>4 DEF Tick, StepBack, Counted
<1>5. QED
  BY <1>1, <1>2, <1>3, <1>4 DEF Next

\* Requests are admitted one at a time, so those that count are finitely many.
FiniteInv == IsFiniteSet(Counted)

LEMMA FiniteHolds == Spec => []FiniteInv
<1>1. Init => FiniteInv
  <2>1. Init => Counted = {}
    BY DEF Init, Counted
  <2>2. QED
    BY <2>1, FS_EmptySet DEF FiniteInv
<1>2. LimiterType /\ FiniteInv /\ [Next]_vars => FiniteInv'
  <2> SUFFICES ASSUME LimiterType, FiniteInv, [Next]_vars PROVE FiniteInv'
    OBVIOUS
  <2>1. CASE UNCHANGED vars
    BY <2>1 DEF vars, Counted, FiniteInv
  <2>2. CASE Next
    <3>1. \A r : IsFiniteSet(Counted \cup {r})
      BY FS_AddElement DEF FiniteInv
    <3>2. QED
      BY <2>2, <3>1, CountedSteps, FS_EmptySet DEF FiniteInv
  <2>3. QED
    BY <2>1, <2>2
<1>3. QED
  BY <1>1, <1>2, LimiterTyped, PTL DEF Spec

LEMMA AdmittedFinite ==
    ASSUME FiniteInv, NEW lo, NEW hi
    PROVE  IsFiniteSet(Admitted(lo, hi)) /\ Cardinality(Admitted(lo, hi)) \in Nat
BY FS_Subset, FS_CardinalityType DEF Admitted, FiniteInv

LEMMA MinuteIsSpan == \A t : InMinute(t) = Admitted(t, t + Minute)
BY DEF InMinute, Admitted

-----------------------------------------------------------------------------
\* What the windows replaced by an earlier one are allowed for.
Forgiven == rewinds * PerMinute

\* What the minute from t may hold when the window in force opened at s and
\* counts c, k being forgiven: never more than PerMinute; when it reaches into
\* that window from before, all but the first request of the window that came
\* before, and c; when it starts later, all but the first of c; when it starts
\* after the end of the window, nothing.
Within(k, s, c, t, n) ==
    /\ n <= k + PerMinute
    /\ s # ZeroTime =>
          /\ t <= s /\ s < t + Minute => n <= k + (Rpm - 1) + c
          /\ t > s => n <= k + (c - 1)
          /\ t >= s + Minute => n <= k

\* The window in force has admitted what the bucket counts, at least.
WindowInv ==
    /\ start = ZeroTime => Counted = {} /\ count = 0
    /\ start # ZeroTime => count >= 1
    /\ count <= Cardinality(InMinute(start))
    /\ \A t \in Nat :
          Within(Forgiven, start, count, t, Cardinality(Admitted(t, t + Minute)))

LEMMA PerMinuteFacts == PerMinute \in Nat /\ PerMinute = 2 * Rpm - 1 /\ PerMinute >= 1
BY RpmAssumption DEF PerMinute

\* One more window replaced, one PerMinute more forgiven.
LEMMA ForgivenGrows ==
    ASSUME NEW k \in Nat
    PROVE  k * PerMinute \in Nat /\ (k + 1) * PerMinute = k * PerMinute + PerMinute
<1>1. PerMinute \in Nat
  BY PerMinuteFacts
<1> HIDE DEF PerMinute
<1>2. QED
  BY <1>1

-----------------------------------------------------------------------------
(* One admission at a, of which the minute from t holds m - n more.         *)

\* It joins the window in force.
LEMMA JoinRoom ==
    ASSUME NEW k \in Nat, NEW s \in Nat, NEW c \in Nat, NEW t \in Nat, NEW a \in Nat,
           NEW n \in Nat, NEW m \in Nat, s # ZeroTime, s <= a, a < s + Minute,
           c >= 1, c < Rpm, Within(k, s, c, t, n),
           m = n \/ (m = n + 1 /\ t <= a /\ a < t + Minute)
    PROVE  Within(k, s, c + 1, t, m)
BY RpmAssumption, MinuteAssumption, PerMinuteFacts DEF Within

\* It opens the window after the one in force.
LEMMA OpenRoom ==
    ASSUME NEW k \in Nat, NEW s \in Nat, NEW c \in Nat, NEW t \in Nat, NEW a \in Nat,
           NEW n \in Nat, NEW m \in Nat, s # ZeroTime, a >= s + Minute,
           c <= Rpm, Within(k, s, c, t, n),
           m = n \/ (m = n + 1 /\ t <= a /\ a < t + Minute)
    PROVE  Within(k, a, 1, t, m)
BY RpmAssumption, MinuteAssumption, PerMinuteFacts DEF Within

\* It opens the first window of a bucket.
LEMMA FirstRoom ==
    ASSUME NEW k \in Nat, NEW t \in Nat, NEW a \in Nat, NEW m \in Nat,
           m = 0 \/ (m = 1 /\ t <= a /\ a < t + Minute)
    PROVE  Within(k, a, 1, t, m)
BY RpmAssumption, MinuteAssumption, PerMinuteFacts DEF Within

\* It replaces the window in force by an earlier one.
LEMMA RewindRoom ==
    ASSUME NEW k \in Nat, NEW s \in Nat, NEW c \in Nat, NEW t \in Nat, NEW a \in Nat,
           NEW n \in Nat, NEW m \in Nat, Within(k, s, c, t, n),
           m = n \/ (m = n + 1 /\ t <= a /\ a < t + Minute)
    PROVE  Within(k + PerMinute, a, 1, t, m)
BY RpmAssumption, MinuteAssumption, PerMinuteFacts DEF Within

-----------------------------------------------------------------------------
\* The same after a step.
AdmittedNext(lo, hi) == {r \in Counted' : lo <= at'[r] /\ at'[r] < hi}

LEMMA WindowNext ==
    ASSUME start' = ZeroTime => Counted' = {} /\ count' = 0,
           start' # ZeroTime => count' >= 1,
           count' <= Cardinality(AdmittedNext(start', start' + Minute)),
           \A t \in Nat : Within(Forgiven', start', count', t,
                                 Cardinality(AdmittedNext(t, t + Minute)))
    PROVE  WindowInv'
BY DEF WindowInv, InMinute, AdmittedNext, Admitted, ZeroTime, Within, PerMinute

\* A step that lets nobody in leaves the windows as they are.
LEMMA QuietStep ==
    ASSUME WindowInv, Counted' = Counted, \A r \in Counted : at'[r] = at[r],
           UNCHANGED <<start, count, rewinds>>
    PROVE  WindowInv'
<1>1. \A lo, hi : AdmittedNext(lo, hi) = Admitted(lo, hi)
  BY DEF AdmittedNext, Admitted
<1>2. InMinute(start) = Admitted(start, start + Minute) /\ Forgiven' = Forgiven
  BY DEF InMinute, Admitted, Forgiven
<1>3. QED
  BY <1>1, <1>2, WindowNext DEF WindowInv

LEMMA ResetStep ==
    ASSUME Counted' = {}, start' = ZeroTime, count' = 0, rewinds' = 0
    PROVE  WindowInv'
<1>1. \A lo, hi : AdmittedNext(lo, hi) = {}
  BY DEF AdmittedNext
<1>2. \A lo, hi : Cardinality(AdmittedNext(lo, hi)) = 0
  BY <1>1, FS_EmptySet
<1>3. Forgiven' \in Nat
  BY ForgivenGrows DEF Forgiven, PerMinute
<1>4. \A t \in Nat : Within(Forgiven', start', count', t, 0)
  BY <1>3, PerMinuteFacts DEF Within
<1>5. QED
  BY <1>2, <1>4, WindowNext

\* An admission adds one request to every span its reading lies in.
LEMMA AdmittedGrows ==
    ASSUME LimiterType, FiniteInv, NEW r \in Requests, r \notin Counted, at' = at,
           Counted' = Counted \cup {r}, NEW lo, NEW hi
    PROVE  LET n == Cardinality(Admitted(lo, hi))
               m == Cardinality(AdmittedNext(lo, hi))
           IN  /\ n \in Nat /\ m \in Nat /\ m >= n
               /\ m = n \/ (m = n + 1 /\ lo <= at[r] /\ at[r] < hi)
               /\ lo <= at[r] /\ at[r] < hi => m = n + 1
<1>1. IsFiniteSet(Admitted(lo, hi)) /\ Cardinality(Admitted(lo, hi)) \in Nat
  BY AdmittedFinite
<1>2. CASE lo <= at[r] /\ at[r] < hi
  <2>1. AdmittedNext(lo, hi) = Admitted(lo, hi) \cup {r} /\ r \notin Admitted(lo, hi)
    BY <1>2 DEF AdmittedNext, Admitted
  <2>2. Cardinality(AdmittedNext(lo, hi)) = Cardinality(Admitted(lo, hi)) + 1
    BY <1>1, <2>1, FS_AddElement
  <2>3. QED
    BY <1>1, <1>2, <2>2
<1>3. CASE ~(lo <= at[r] /\ at[r] < hi)
  <2>1. AdmittedNext(lo, hi) = Admitted(lo, hi)
    BY <1>3 DEF AdmittedNext, Admitted
  <2>2. QED
    BY <1>1, <1>3, <2>1
<1>4. QED
  BY <1>2, <1>3

\* A request let into the window in force.
LEMMA JoinStep ==
    ASSUME LimiterType, FiniteInv, WindowInv,
           NEW r \in Requests, r \notin Counted, at' = at,
           Counted' = Counted \cup {r}, start # ZeroTime,
           start <= at[r], at[r] < start + Minute, count < Rpm,
           start' = start, count' = count + 1, rewinds' = rewinds
    PROVE  WindowInv'
<1>1. /\ Rpm \in Nat /\ Minute \in Nat /\ Minute >= 1
      /\ start \in Nat /\ count \in Nat /\ at[r] \in Nat
      /\ Forgiven \in Nat /\ Forgiven' = Forgiven
  BY RpmAssumption, MinuteAssumption, TimeBound, ForgivenGrows
  DEF LimiterType, Forgiven, PerMinute
<1>2. count' <= Cardinality(AdmittedNext(start, start + Minute))
  <2>1. InMinute(start) = Admitted(start, start + Minute)
    BY MinuteIsSpan
  <2>2. /\ Cardinality(Admitted(start, start + Minute)) \in Nat
        /\ Cardinality(AdmittedNext(start, start + Minute))
             = Cardinality(Admitted(start, start + Minute)) + 1
    BY AdmittedGrows
  <2>3. QED
    BY <1>1, <2>1, <2>2 DEF WindowInv
<1>3. ASSUME NEW t \in Nat
      PROVE  Within(Forgiven, start, count + 1, t, Cardinality(AdmittedNext(t, t + Minute)))
  <2> DEFINE n == Cardinality(Admitted(t, t + Minute))
             m == Cardinality(AdmittedNext(t, t + Minute))
  <2>1. /\ n \in Nat /\ m \in Nat
        /\ m = n \/ (m = n + 1 /\ t <= at[r] /\ at[r] < t + Minute)
    BY AdmittedGrows
  <2>2. Within(Forgiven, start, count, t, n) /\ count >= 1
    BY DEF WindowInv
  <2> HIDE DEF n, m
  <2>3. Within(Forgiven, start, count + 1, t, m)
    BY <1>1, <2>1, <2>2, JoinRoom
  <2>4. QED
    BY <2>3 DEF m
<1>4. QED
  BY <1>1, <1>2, <1>3, WindowNext

\* A request that opens a window: the first, the next, or one before it.
LEMMA OpenStep ==
    ASSUME LimiterType, FiniteInv, WindowInv,
           NEW r \in Requests, r \notin Counted, at' = at, at[r] >= 1,
           Counted' = Counted \cup {r}, WindowOver(at[r]),
           start' = at[r], count' = 1,
           rewinds' = rewinds + (IF start # ZeroTime /\ at[r] < start THEN 1 ELSE 0)
    PROVE  WindowInv'
<1> DEFINE a == at[r]
<1>1. /\ Rpm \in Nat /\ Minute \in Nat /\ Minute >= 1 /\ PerMinute \in Nat
      /\ start \in Nat /\ count \in Nat /\ count <= Rpm /\ a \in Nat /\ a >= 1
      /\ Forgiven \in Nat
      /\ start # ZeroTime /\ a < start => Forgiven' = Forgiven + PerMinute
      /\ ~(start # ZeroTime /\ a < start) => Forgiven' = Forgiven
  BY RpmAssumption, MinuteAssumption, TimeBound, PerMinuteFacts, ForgivenGrows
  DEF LimiterType, Forgiven, PerMinute
<1>2. 1 <= Cardinality(AdmittedNext(a, a + Minute))
  BY <1>1, AdmittedGrows
<1>3. ASSUME NEW t \in Nat
      PROVE  Within(Forgiven', a, 1, t, Cardinality(AdmittedNext(t, t + Minute)))
  <2> DEFINE n == Cardinality(Admitted(t, t + Minute))
             m == Cardinality(AdmittedNext(t, t + Minute))
  <2>1. /\ n \in Nat /\ m \in Nat
        /\ m = n \/ (m = n + 1 /\ t <= a /\ a < t + Minute)
    BY AdmittedGrows
  <2>2. Within(Forgiven, start, count, t, n)
    BY DEF WindowInv
  <2>3. start = ZeroTime => n = 0
    BY FS_EmptySet DEF WindowInv, Admitted
  <2> HIDE DEF n, m, a
  <2>4. ASSUME start = ZeroTime PROVE Within(Forgiven', a, 1, t, m)
    BY <1>1, <2>1, <2>3, <2>4, FirstRoom
  <2>5. ASSUME start # ZeroTime, a < start PROVE Within(Forgiven', a, 1, t, m)
    <3>1. Forgiven' = Forgiven + PerMinute
      BY <1>1, <2>5
    <3>2. Within(Forgiven + PerMinute, a, 1, t, m)
      BY <1>1, <2>1, <2>2, RewindRoom
    <3>3. QED
      BY <3>1, <3>2
  <2>6. ASSUME start # ZeroTime, ~(a < start) PROVE Within(Forgiven', a, 1, t, m)
    <3>1. a >= start + Minute
      BY <2>6 DEF WindowOver, a
    <3>2. Forgiven' = Forgiven
      BY <1>1, <2>6
    <3>3. Within(Forgiven, a, 1, t, m)
      BY <1>1, <2>1, <2>2, <2>6, <3>1, OpenRoom
    <3>4. QED
      BY <3>2, <3>3
  <2>7. Within(Forgiven', a, 1, t, m)
    BY <2>4, <2>5, <2>6
  <2>8. QED
    BY <2>7 DEF m
<1> HIDE DEF a
<1>4. start' = a
  BY DEF a
<1>5. QED
  BY <1>1, <1>2, <1>3, <1>4, WindowNext DEF ZeroTime

LEMMA WindowHolds == Spec => []WindowInv
<1>1. Init => WindowInv
  <2> SUFFICES ASSUME Init PROVE WindowInv
    OBVIOUS
  <2>1. Counted = {}
    BY DEF Init, Counted
  <2>2. \A lo, hi : Admitted(lo, hi) = {}
    BY <2>1 DEF Admitted
  <2>3. InMinute(start) = {}
    BY <2>1 DEF InMinute
  <2>4. Forgiven \in Nat
    BY ForgivenGrows DEF Init, Forgiven
  <2>5. \A t \in Nat : Within(Forgiven, start, count, t, 0)
    BY <2>4, PerMinuteFacts DEF Init, Within
  <2>6. QED
    BY <2>1, <2>2, <2>3, <2>5, FS_EmptySet DEF Init, WindowInv
<1>2. LimiterType /\ FiniteInv /\ WindowInv /\ [Next]_vars => WindowInv'
  <2> SUFFICES ASSUME LimiterType, FiniteInv, WindowInv, [Next]_vars PROVE WindowInv'
    OBVIOUS
  <2>1. CASE UNCHANGED vars
    <3>1. /\ Counted' = Counted /\ \A r \in Counted : at'[r] = at[r]
          /\ UNCHANGED <<start, count, rewinds>>
      BY <2>1 DEF vars, Counted
    <3>2. QED
      BY <3>1, QuietStep
  <2>2. ASSUME NEW r \in Requests, Allow(r), r \notin Counted, at' = at,
               Counted' = IF stage'[r] = "allowed" THEN Counted \cup {r} ELSE Counted
        PROVE  WindowInv'
    <3>1. /\ Rpm >= 1 /\ Rpm \in Nat /\ count \in Nat /\ rewinds \in Nat /\ at[r] >= 1
          /\ stage \in [Requests -> Stages]
      BY <2>2, RpmAssumption DEF LimiterType, Allow
    <3>2. CASE WindowOver(at[r])
      <4>1. /\ stage'[r] = "allowed" /\ start' = at[r] /\ count' = 1
            /\ rewinds' = rewinds + (IF start # ZeroTime /\ at[r] < start THEN 1 ELSE 0)
        BY <2>2, <3>1, <3>2 DEF Allow, Exhausted
      <4>2. QED
        BY <2>2, <3>1, <3>2, <4>1, OpenStep
    <3>3. CASE ~WindowOver(at[r])
      <4>1. /\ start # ZeroTime /\ start <= at[r] /\ at[r] < start + Minute
            /\ rewinds' = rewinds /\ start' = start
        BY <2>2, <3>1, <3>3, MinuteAssumption, TimeBound
        DEF Allow, WindowOver, LimiterType
      <4>2. CASE count >= Rpm
        <5>1. stage'[r] # "allowed" /\ count' = count
          BY <2>2, <3>1, <3>3, <4>2 DEF Allow, Exhausted
        <5>2. QED
          BY <2>2, <4>1, <5>1, QuietStep
      <4>3. CASE ~(count >= Rpm)
        <5>1. stage'[r] = "allowed" /\ count' = count + 1 /\ count < Rpm
          BY <2>2, <3>1, <3>3, <4>3 DEF Allow, Exhausted
        <5>2. QED
          BY <2>2, <4>1, <5>1, JoinStep
      <4>4. QED
        BY <4>2, <4>3
    <3>4. QED
      BY <3>2, <3>3
  <2>3. QED
    BY <2>1, <2>2, CountedSteps, QuietStep, ResetStep
<1>3. QED
  BY <1>1, <1>2, LimiterTyped, FiniteHolds, PTL DEF Spec

\* No minute, wherever it starts, admits more than 2 * Rpm - 1 requests, and as
\* many again for each window that an earlier reading replaced, for any
\* requests, limit and clock.
THEOREM SlidingBounded == Spec => []SlidingBound
<1>1. LimiterType /\ WindowInv => SlidingBound
  <2> SUFFICES ASSUME LimiterType, WindowInv, NEW t \in 1 .. MaxTime
               PROVE  Cardinality(InMinute(t)) <= (rewinds + 1) * PerMinute
    BY DEF SlidingBound
  <2>1. t \in Nat /\ InMinute(t) = Admitted(t, t + Minute)
    BY TimeBound, MinuteIsSpan
  <2>2. Cardinality(InMinute(t)) <= Forgiven + PerMinute
    BY <2>1 DEF WindowInv, Within
  <2>3. (rewinds + 1) * PerMinute = Forgiven + PerMinute
    BY ForgivenGrows DEF LimiterType, Forgiven
  <2>4. QED
    BY <2>2, <2>3
<1>2. QED
  BY <1>1, LimiterTyped, WindowHolds, PTL

\* A denial is always earned: the window that denies has admitted Rpm requests
\* that still count, within a minute of the reading of the denied one.
THEOREM DenialsAreFair == Spec => DeniedFairly
<1>1. ASSUME LimiterType, FiniteInv, WindowInv, [Next]_vars, NEW r \in Requests,
             stage[r] = "sampled", stage'[r] = "denied"
      PROVE  \E t \in 1 .. MaxTime : /\ t <= at[r] /\ at[r] < t + Minute
                                     /\ Cardinality(InMinute(t)) >= Rpm
  <2>1. Allow(r)
    <3>1. CASE \E q \in Requests : Sample(q) \/ Allow(q)
      BY <1>1, <3>1 DEF Sample, Allow, LimiterType
    <3>2. CASE \E q \in Requests : RetryAfter(q)
      BY <1>1, <3>2 DEF RetryAfter, LimiterType
    <3>3. CASE UNCHANGED stage
      BY <1>1, <3>3
    <3>4. QED
      BY <1>1, <3>1, <3>2, <3>3 DEF Next, vars, Reset, Tick, StepBack
  <2>2. /\ Rpm \in Nat /\ Rpm >= 1 /\ count \in Nat /\ start \in Nat
        /\ stage \in [Requests -> Stages] /\ at[r] \in Nat /\ start <= MaxTime
        /\ MaxTime \in Nat /\ Minute \in Nat
    BY <1>1, RpmAssumption, TimeBound, MinuteAssumption DEF LimiterType
  <2>3. ~WindowOver(at[r]) /\ count >= Rpm
    BY <1>1, <2>1, <2>2 DEF Allow, Exhausted
  <2>4. start \in 1 .. MaxTime /\ start <= at[r] /\ at[r] < start + Minute
    BY <2>2, <2>3 DEF WindowOver, ZeroTime
  <2>5. Cardinality(InMinute(start)) >= Rpm
    <3>1. InMinute(start) = Admitted(start, start + Minute)
      BY DEF InMinute, Admitted
    <3>2. Cardinality(InMinute(start)) \in Nat
      BY <1>1, <3>1, AdmittedFinite
    <3>3. QED
      BY <1>1, <2>2, <2>3, <3>2 DEF WindowInv
  <2>6. QED
    BY <2>4, <2>5
<1>2. LimiterType /\ FiniteInv /\ WindowInv /\ [Next]_vars =>
        [\A r \in Requests :
             stage[r] = "sampled" /\ stage'[r] = "denied" =>
                 \E t \in 1 .. MaxTime :
                     /\ t <= at[r] /\ at[r] < t + Minute
                     /\ Cardinality(InMinute(t)) >= Rpm]_vars
  BY <1>1
<1>3. QED
  BY <1>2, LimiterTyped, FiniteHolds, WindowHolds, PTL DEF Spec, DeniedFairly
=============================================================================
