SPECIFICATION Spec
CONSTANTS
    Drainers = {d1}
    Series = {s1}
    Versions = {v1, bad}
    UsableVersions = {v1}
    NoRows = NoRows
    MaxHour = 4
    MaxBuckets = 2
    Lag = 0
    Span = 1
    Retention = 9
    AlertThreshold = 9
    MaxSilence = 9
    MaxFaults = 0
    MaxOperatorRuns = 0
    MaxStationWrites = 1
    d1 = d1
    s1 = s1
    v1 = v1
    bad = bad
INVARIANTS
    OfficialHoursAggregated
