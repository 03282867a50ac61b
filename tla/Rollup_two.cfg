SPECIFICATION Spec
CONSTANTS
    Drainers = {d1, d2}
    Series = {s1}
    Versions = {v1}
    UsableVersions = {}
    NoRows = NoRows
    MaxHour = 3
    MaxBuckets = 1
    Lag = 0
    Span = 0
    Retention = 2
    AlertThreshold = 9
    MaxSilence = 9
    MaxFaults = 1
    MaxOperatorRuns = 1
    MaxStationWrites = 1
    d1 = d1
    d2 = d2
    s1 = s1
    v1 = v1
SYMMETRY Symmetry
INVARIANTS
    GapFree
