SPECIFICATION Spec
CONSTANTS
    seed0 = seed0
    Ids = {x1, seed0}
    Versions = {blank}
    Blank = blank
    NoRow = NoRow
    Scripts = {s1}
    TicksPerDay = 1
    PruneAfterDays = 1
    ScriptDays = {0}
    KeepDays = 0
    SeedOrder <- OneSeed
    MaxSeedDays = 2
    MaxWipes = 1
    MaxNow = 2
INVARIANTS TypeOK RealCountedOnce ActivityOwned RealSnapshotCurrent
