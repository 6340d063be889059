SPECIFICATION Spec

CONSTANTS
    Ids = {x1}
    Versions = {blank, v1}
    Blank = blank
    NoRow = NoRow
    Scripts = {s1}
    TicksPerDay = 2
    PruneAfterDays = 1
    ScriptDays = {0}
    KeepDays = 1
    WeekDays = 0
    MonthDays = 1
    QuarterDays = 2
    YearDays = 3
    MaxNow = 6
    MaxFaults = 1
INVARIANTS SnapshotCurrent NeverUndercounts BreakdownsWithinActive
PROPERTY PurgeKeepsWindow
