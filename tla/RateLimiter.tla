---------------------------- MODULE RateLimiter ----------------------------
(***************************************************************************)
(* The requests-per-minute limiter of one account                          *)
(* (internal/policy/limiter.go): a window that opens with a request and    *)
(* admits Rpm of them.                                                     *)
(*                                                                         *)
(* Allow reads the clock before it takes the limiter's mutex, so requests  *)
(* can reach the bucket in another order than their clock readings, and    *)
(* UTC() drops the monotonic reading, so the clock can be set back.        *)
(***************************************************************************)
EXTENDS Naturals, FiniteSets

CONSTANTS
    Requests,
    Rpm,       \* the configured limit; Allow ignores accounts without one
    Minute,    \* the length of a window in ticks
    MaxTime,   \* bound on the clock
    MaxSteps   \* bound: how often the clock is set back

ASSUME RpmAssumption == Rpm \in Nat \ {0}
ASSUME MinuteAssumption == Minute \in Nat \ {0}
ASSUME TimeBound == MaxTime \in Nat \ {0}
ASSUME StepBound == MaxSteps \in Nat

VARIABLES
    clock,    \* l.now(), from 1 on
    start,    \* bucket.windowStart, 0 when the account has no bucket
    count,    \* bucket.count
    stage,    \* per request
    at,       \* per request: the clock it read, 0 before
    hint,     \* per denied request: what RetryAfter told it
    cleared,  \* history: requests admitted before the last reset
    rewinds,  \* history: windows replaced by an earlier one since the last reset
    steps     \* how often the clock has been set back

vars == <<clock, start, count, stage, at, hint, cleared, rewinds, steps>>

\* The time.Time zero value: no window has started.
ZeroTime == 0

Init ==
    /\ clock = 1
    /\ start = ZeroTime
    /\ count = 0
    /\ stage = [r \in Requests |-> "idle"]
    /\ at = [r \in Requests |-> 0]
    /\ hint = [r \in Requests |-> 0]
    /\ cleared = {}
    /\ rewinds = 0
    /\ steps = 0

-----------------------------------------------------------------------------
(***************************************************************************)
(* Broken variants, one per property; the specification does not use them. *)
(***************************************************************************)

\* A window that ends only after it is a whole minute old.
WindowOverLate(t) == start = ZeroTime \/ t > start + Minute \/ t < start

\* A limit that admits one request too many.
ExhaustedLate(c) == c > Rpm

\* A hint that ends one tick before the window does.
RemainingShort ==
    IF start = ZeroTime \/ clock >= start + Minute THEN 0
    ELSE start + Minute - clock - 1

-----------------------------------------------------------------------------
\* now.Sub(windowStart) >= time.Minute or now.Before(windowStart).
WindowOver(t) == start = ZeroTime \/ t >= start + Minute \/ t < start

Exhausted(c) == c >= Rpm

\* The first statement of Allow, before the mutex.
Sample(r) ==
    /\ stage[r] = "idle"
    /\ stage' = [stage EXCEPT ![r] = "sampled"]
    /\ at' = [at EXCEPT ![r] = clock]
    /\ UNCHANGED <<clock, start, count, hint, cleared, rewinds, steps>>

\* The rest of Allow, under the mutex.
Allow(r) ==
    LET over   == WindowOver(at[r])
        begun  == IF over THEN 0 ELSE count
        denied == Exhausted(begun)
    IN /\ stage[r] = "sampled"
       /\ start' = IF over THEN at[r] ELSE start
       /\ count' = IF denied THEN begun ELSE begun + 1
       /\ stage' = [stage EXCEPT ![r] = IF denied THEN "denied" ELSE "allowed"]
       /\ rewinds' = rewinds + (IF start # ZeroTime /\ at[r] < start THEN 1 ELSE 0)
       /\ UNCHANGED <<clock, at, hint, cleared, steps>>

\* RetryAfter: zero without a bucket and for a window that is over, otherwise
\* what is left of it by the clock.
Remaining ==
    IF start = ZeroTime \/ clock > start + Minute THEN 0
    ELSE start + Minute - clock

RetryAfter(r) ==
    /\ stage[r] = "denied"
    /\ stage' = [stage EXCEPT ![r] = "told"]
    /\ hint' = [hint EXCEPT ![r] = Remaining]
    /\ UNCHANGED <<clock, start, count, at, cleared, rewinds, steps>>

\* Reset by ResetRPM, RotateKey, DeleteKey or a quota reset.
Reset ==
    /\ start # ZeroTime
    /\ start' = ZeroTime
    /\ count' = 0
    /\ cleared' = {r \in Requests : stage[r] = "allowed"}
    /\ rewinds' = 0
    /\ UNCHANGED <<clock, stage, at, hint, steps>>

Tick ==
    /\ clock < MaxTime
    /\ clock' = clock + 1
    /\ UNCHANGED <<start, count, stage, at, hint, cleared, rewinds, steps>>

\* An administrator or NTP sets the wall clock back.
StepBack(t) ==
    /\ steps < MaxSteps
    /\ t < clock
    /\ clock' = t
    /\ steps' = steps + 1
    /\ UNCHANGED <<start, count, stage, at, hint, cleared, rewinds>>

Next ==
    \/ \E r \in Requests : Sample(r) \/ Allow(r) \/ RetryAfter(r)
    \/ Reset \/ Tick
    \/ \E t \in 1 .. MaxTime : StepBack(t)

Spec == Init /\ [][Next]_vars

-----------------------------------------------------------------------------
(* Properties.                                                             *)

\* Requests that count against the limit: admitted since the last reset.
Counted == {r \in Requests : stage[r] = "allowed"} \ cleared

\* Counted requests whose clock reading lies in the minute that starts at t.
InMinute(t) == {r \in Counted : t <= at[r] /\ at[r] < t + Minute}

\* native_quota.go:22: the limit is taken "at that gate (concurrency-safe)".
\* In whatever order readings reach the bucket, no minute, wherever it starts,
\* admits more than 2 * Rpm - 1 requests, and as many again for each window
\* that an earlier reading replaced: a window opens with a request at its very
\* start, so a minute that reaches over its end misses that one, and a
\* replaced window forgets no more than what such a minute may have admitted.
PerMinute == 2 * Rpm - 1

SlidingBound ==
    \A t \in 1 .. MaxTime :
        Cardinality(InMinute(t)) <= (rewinds + 1) * PerMinute

\* The other side: a request is denied only when Rpm requests that no reset
\* has cleared were admitted within a minute that its own reading belongs to,
\* whatever the interleaving and however the clock was set.
DeniedFairly ==
    [][\A r \in Requests :
          stage[r] = "sampled" /\ stage'[r] = "denied" =>
              \E t \in 1 .. MaxTime :
                  /\ t <= at[r] /\ at[r] < t + Minute
                  /\ Cardinality(InMinute(t)) >= Rpm]_vars

\* While the clock only runs forward, a hint never exceeds a minute, and a
\* client that waits as long as it was told to is not denied by the window
\* it was told about: that window is over for every later reading.
HintIsEnough ==
    [][\A r \in Requests :
          stage[r] = "denied" /\ stage'[r] = "told" /\ steps = 0 =>
              /\ hint'[r] <= Minute
              /\ WindowOver(clock + hint'[r])]_vars
=============================================================================
