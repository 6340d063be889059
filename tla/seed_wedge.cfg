SPECIFICATION FairSpec
CONSTANTS
    seed0 = seed0
    Ids = {seed0}
    Versions = {blank}
    Blank = blank
    NoRow = NoRow
    Scripts = {}
    TicksPerDay = 1
    PruneAfterDays = 0
    ScriptDays = {}
    KeepDays = 0
    SeedOrder <- OneSeed
    MaxSeedDays = 2
    MaxWipes = 0
    MaxNow = 2
PROPERTY StaleEventuallyPruned
