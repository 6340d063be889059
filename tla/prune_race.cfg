SPECIFICATION Spec

CONSTANTS
    Ids = {x1}
    Versions = {blank}
    Blank = blank
    NoRow = NoRow
    Scripts = {}
    TicksPerDay = 1
    PruneAfterDays = 1
    ScriptDays = {}
    KeepDays = 0
    WeekDays = 0
    MonthDays = 0
    QuarterDays = 0
    YearDays = 0
    MaxNow = 3
    MaxFaults = 0
PROPERTY PrunesOnlyUnseen
