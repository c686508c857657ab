---------------------------- MODULE UsageWindows ----------------------------
(***************************************************************************)
(* The spend windows of one account of the usage ledger                    *)
(* (internal/policy/usage.go): a UTC day, a week, and both again for every *)
(* alias.  The week of an account rolls: it starts with a charge and lasts *)
(* seven days.  Once an administrator resets the quota of a native key,    *)
(* its weeks are fixed: they follow each other from the reset on.          *)
(*                                                                         *)
(* Windows are replaced only by the next charge; a reader works out on a   *)
(* copy what they are now.  A window is its start and the set of charges   *)
(* it adds up, so amounts, tokens and call counts are not told apart.      *)
(***************************************************************************)
EXTENDS Naturals

CONSTANTS
    Charges,   \* usage records billed to the account
    Aliases,   \* aliases or models they are billed under
    Day, Week, \* lengths of the windows in ticks
    MaxTime,   \* bound on the clock
    MaxSteps   \* bound: how often the clock is set back

ASSUME DayAssumption == Day \in Nat \ {0}
ASSUME WeekAssumption == Week \in Nat \ {0} /\ Week % Day = 0
ASSUME TimeBound == MaxTime \in Nat /\ MaxTime >= Day
ASSUME StepBound == MaxSteps \in Nat

VARIABLES
    native,   \* the account belongs to a native key
    clock,    \* l.now(), from Day on
    entry,    \* usageLedger.entries of the account
    at,       \* history, per charge: when it was recorded, 0 before
    live,     \* history: charges recorded since the last reset
    promised, \* history: the last weekly deadline reported, 0 for none
    steps     \* how often the clock has been set back

windowVars == <<native, clock, entry, at, live, promised, steps>>

\* The time.Time zero value.
ZeroTime == 0

\* UTC midnight: now.UTC().Truncate(dayWindow).
StartOfDay(t) == (t \div Day) * Day

Opened(t) == [start |-> t, billed |-> {}]

NoWindow == Opened(ZeroTime)

\* entries[id] is nil.
NoEntry ==
    [anchor |-> ZeroTime, daily |-> NoWindow, weekly |-> NoWindow,
     byAlias |-> [a \in Aliases |-> [daily |-> NoWindow, weekly |-> NoWindow]]]

WindowsInit ==
    /\ native \in BOOLEAN
    /\ clock = Day
    /\ entry = NoEntry
    /\ at = [c \in Charges |-> 0]
    /\ live = {}
    /\ promised = 0
    /\ steps = 0

-----------------------------------------------------------------------------
(***************************************************************************)
(* Broken variants, one per property; the specification does not use them. *)
(***************************************************************************)

\* A day that starts with its first charge.
DailyRolling(w, t) ==
    IF w.start = ZeroTime \/ t >= w.start + Day THEN Opened(t) ELSE w

\* A fixed week that follows the requests instead of the anchor.
FixedStartLazy(anchor, t) == IF t < anchor + Week THEN anchor ELSE t

\* A week that a clock set back replaces.
AdvanceAny(w, s) == IF w.start # s THEN Opened(s) ELSE w

\* An alias whose week rolls in a fixed account.
AliasWeekRolling(anchor, w, s, t) ==
    IF w.start = ZeroTime \/ t >= w.start + Week THEN Opened(t) ELSE w

\* A projection reported as a deadline.
DeadlineProjected(st, t) ==
    IF st = NoEntry THEN 0
    ELSE (IF st.anchor = ZeroTime /\ t >= st.weekly.start + Week
          THEN t ELSE st.weekly.start) + Week

-----------------------------------------------------------------------------
(* The windows as they are at time t.                                      *)

\* ensureDailyWindowLocked, and the daily half of ensureAliasWindowLocked.
Daily(w, t) ==
    IF w.start = ZeroTime \/ w.start # StartOfDay(t)
    THEN Opened(StartOfDay(t)) ELSE w

\* The rolling week: dropped as a whole when it is seven days old.
Rolling(w, t) ==
    IF w.start = ZeroTime \/ t >= w.start + Week THEN Opened(t) ELSE w

\* fixedWeeklyWindowStart.
FixedStart(anchor, t) ==
    IF t < anchor THEN anchor ELSE anchor + ((t - anchor) \div Week) * Week

\* advanceFixedWeeklyWindow.
Advance(w, s) ==
    IF w.start = ZeroTime \/ w.start < s THEN Opened(s) ELSE w

\* ensureWeeklyWindowLocked.
Weekly(st, t) ==
    IF st.anchor # ZeroTime THEN Advance(st.weekly, FixedStart(st.anchor, t))
    ELSE Rolling(st.weekly, t)

\* The weekly window of an alias in an account whose week starts at s.
AliasWeek(anchor, w, s, t) ==
    IF anchor = ZeroTime THEN Rolling(w, t) ELSE Advance(w, s)

\* Summary: the end of the week, for a native account with a rolling week only
\* while the week that a charge has started lasts.
Deadline(st, t) ==
    IF \/ st = NoEntry
       \/ native /\ st.anchor = ZeroTime /\ t >= st.weekly.start + Week
    THEN 0 ELSE Weekly(st, t).start + Week

\* What a quota reset stores.
ResetEntry(t) ==
    [NoEntry EXCEPT !.anchor = t, !.daily = Opened(StartOfDay(t)),
                    !.weekly = Opened(t)]

-----------------------------------------------------------------------------
Billed(w, c) == [w EXCEPT !.billed = @ \cup {c}]

\* RecordCost reads the clock under the mutex.
RecordCost(c, a) ==
    LET week == Weekly(entry, clock)
        old  == entry.byAlias[a]
        new  == [daily  |-> Billed(Daily(old.daily, clock), c),
                 weekly |-> Billed(AliasWeek(entry.anchor, old.weekly,
                                             week.start, clock), c)]
    IN /\ at[c] = 0
       /\ entry' = [entry EXCEPT !.daily = Billed(Daily(@, clock), c),
                                 !.weekly = Billed(week, c),
                                 !.byAlias = [@ EXCEPT ![a] = new]]
       /\ at' = [at EXCEPT ![c] = clock]
       /\ live' = live \cup {c}
       /\ UNCHANGED <<native, clock, promised, steps>>

\* The key list of the management API: Summary changes nothing.
Report ==
    /\ promised' = Deadline(entry, clock)
    /\ UNCHANGED <<native, clock, entry, at, live, steps>>

\* A quota reset of a native key starts a fixed schedule; resetUsage, for a key
\* that is deleted or reset, forgets the entry.
ResetAccount ==
    /\ entry' = IF native THEN ResetEntry(clock) ELSE NoEntry
    /\ live' = {}
    /\ promised' = 0
    /\ UNCHANGED <<native, clock, at, steps>>

Tick ==
    /\ clock < MaxTime
    /\ clock' = clock + 1
    /\ UNCHANGED <<native, entry, at, live, promised, steps>>

\* The wall clock is set back.
StepBack(t) ==
    /\ steps < MaxSteps
    /\ t < clock
    /\ clock' = t
    /\ steps' = steps + 1
    /\ UNCHANGED <<native, entry, at, live, promised>>

WindowsNext ==
    \/ \E c \in Charges, a \in Aliases : RecordCost(c, a)
    \/ Report \/ ResetAccount \/ Tick
    \/ \E t \in Day .. MaxTime : StepBack(t)

WindowsSpec == WindowsInit /\ [][WindowsNext]_windowVars

-----------------------------------------------------------------------------
(* Properties.  A reading is what Summary and AliasUsage return now.       *)

DayRead  == Daily(entry.daily, clock).billed
WeekRead == Weekly(entry, clock).billed

Forward == steps = 0

\* The day a reader sees adds up exactly the charges of this UTC day since the
\* last reset, however long the account was idle.
DailyExact ==
    Forward => DayRead = {c \in live : StartOfDay(at[c]) = StartOfDay(clock)}

\* The week a reader sees only holds charges of the trailing seven days.
\* README.md:245: after a reset the weeks follow each other, through idle ones
\* too, and it adds up exactly the charges of the current one.
WeekExact ==
    Forward =>
        IF entry.anchor = ZeroTime
        THEN \A c \in WeekRead : c \in live /\ clock < at[c] + Week
        ELSE WeekRead = {c \in live : (at[c] - entry.anchor) \div Week
                                        = (clock - entry.anchor) \div Week}

\* The rows of the breakdown add up to the day of the account, and to its
\* week when the weeks are fixed, even after the clock was set back.
BreakdownAddsUp ==
    /\ Forward =>
        DayRead = UNION {Daily(entry.byAlias[a].daily, clock).billed : a \in Aliases}
    /\ entry.anchor # ZeroTime =>
        WeekRead = UNION {AliasWeek(entry.anchor, entry.byAlias[a].weekly,
                              Weekly(entry, clock).start, clock).billed : a \in Aliases}

\* usage.go:105: a clock set back never rewinds a fixed week, nor does it lose
\* a charge of one.
PeriodNeverRewinds ==
    [][entry.anchor # ZeroTime /\ entry'.anchor = entry.anchor /\ live' # {} =>
          \/ entry'.weekly.start > entry.weekly.start
          \/ /\ entry'.weekly.start = entry.weekly.start
             /\ entry.weekly.billed \subseteq entry'.weekly.billed]_windowVars

\* usage.go:316-317: a deadline reported for a native key is a real one.  It
\* stands until it passes, and then what was charged before is off the week.
DeadlineStands ==
    Forward /\ native /\ promised # 0 =>
        IF clock < promised THEN Deadline(entry, clock) = promised
        ELSE \A c \in WeekRead : at[c] >= promised
=============================================================================
