SPECIFICATION FramesSpec
CONSTANTS
    Drainers = {d1}
    Server = d1
    Series = {s1}
    Versions = {v1, v2}
    UsableVersions = {v1, v2}
    NoRows = NoRows
    NoSnapshot = NoSnapshot
    MaxHour = 4
    RingHours = 2
    MaxBuckets = 1
    Lag = 0
    Span = 1
    Retention = 1
    AlertThreshold = 1
    MaxSilence = 2
    MaxFaults = 1
    MaxOperatorRuns = 0
    MaxStationWrites = 1
    d1 = d1
    s1 = s1
    v1 = v1
    v2 = v2
INVARIANTS
    CoveredHoursFresh
    AlertBeforeLoss
    FramesFresh
    FramesComplete
SYMMETRY UsableVersionsSymmetric
