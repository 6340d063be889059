SPECIFICATION Spec
CONSTANTS
    seed0 = seed0
    Ids = {seed0}
    Versions = {blank}
    Blank = blank
    NoRow = NoRow
    Scripts = {s1}
    TicksPerDay = 1
    PruneAfterDays = 2
    ScriptDays = {0}
    KeepDays = 0
    SeedOrder <- OneSeed
    MaxSeedDays = 2
    MaxWipes = 0
    MaxNow = 2
INVARIANT SeedNeverCrashes
