SPECIFICATION FairSpec

CONSTANTS
    Server = server
    Scripts = {}
    MaxCrashes = 1
    MaxDowngrades = 0
PROPERTIES ServesAgain
