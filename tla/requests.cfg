SPECIFICATION FairSpec

CONSTANTS
    Slots = {s1, s2}
    Nobody = nobody
    Clients = {c1, gate}
    Proxies = {gate}
    Strangers = {}
    Trusted = {gate}
    Limit = 2
    Window = 2
    PoolSize = 2
INVARIANTS TypeOK RateBound StoredFormStable OneLabelPerSystem
PROPERTIES RejectedWhenUsedUp RequestEnds
