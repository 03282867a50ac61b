SPECIFICATION FramesSpec
CONSTANTS
    Drainers = {d1}
    Server = d1
    Series = {s1}
    Versions = {v1, v2}
    UsableVersions = {v1, v2}
    NoRows = NoRows
    NoSnapshot = NoSnapshot
    MaxHour = 4
    RingHours = 2
    MaxBuckets = 2
    Lag = 1
    Span = 0
    Retention = 9
    AlertThreshold = 9
    MaxSilence = 9
    MaxFaults = 0
    MaxOperatorRuns = 0
    MaxStationWrites = 0
    d1 = d1
    s1 = s1
    v1 = v1
    v2 = v2
INVARIANTS
    PastRollupDoesNotChange
