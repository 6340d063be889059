SPECIFICATION FairSpec

CONSTANTS
    Ids = {x1, x2, x3}
    Nobody = nobody
    MaxFaults = 1
INVARIANTS TypeOK NeverBoth
PROPERTIES LosesOnlyInHand ShutdownEnds RetentionGoesOn
