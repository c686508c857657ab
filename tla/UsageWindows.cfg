SPECIFICATION WindowsSpec
CONSTANTS
    Charges = {c1, c2, c3}
    Aliases = {a1, a2}
    Day = 2
    Week = 4
    MaxTime = 10
    MaxSteps = 1
SYMMETRY Symmetry
INVARIANTS
    DailyExact
    WeekExact
    DeadlineStands
    BreakdownAddsUp
PROPERTY PeriodNeverRewinds
