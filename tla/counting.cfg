SPECIFICATION FairSpec

CONSTANTS
    Ids = {x1, x2}
    Versions = {blank}
    Blank = blank
    NoRow = NoRow
    Scripts = {s1}
    TicksPerDay = 1
    PruneAfterDays = 0
    ScriptDays = {0}
    KeepDays = 0
    WeekDays = 0
    MonthDays = 0
    QuarterDays = 0
    YearDays = 0
    MaxNow = 1
    MaxFaults = 1
INVARIANTS TypeOK CountedOnce ReadsHoldAtCommit
PROPERTIES RequestAnswered StaleEventuallyPruned ImplementsRegistry
