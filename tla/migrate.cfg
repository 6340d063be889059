SPECIFICATION FairSpec

CONSTANTS
    Server = server
    Scripts = {s1}
    MaxCrashes = 1
    MaxDowngrades = 1
INVARIANTS TypeOK SchemaIsPrefix ServesModels
PROPERTIES ServesUnlessTorn AlarmOnlyByDowngrade
