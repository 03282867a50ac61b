CONSTANTS
    Collectors = {serve}
    Files = {f1}
    Parts = {p1}
    TTLCycles = 2
    MaxRevision = 1
    MaxEeaFaults = 0
    MaxDrops = 1
SPECIFICATION FairEeaSpec
PROPERTIES RevisionLands
CHECK_DEADLOCK FALSE
