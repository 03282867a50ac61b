CONSTANTS
    Drainers = {d1}
    Series = {s1}
    Versions = {v1, v2}
    UsableVersions = {v1, v2}
    NoRows = NoRows
    MaxHour = 3
    MaxBuckets = 1
    Lag = 0
    Span = 1
    Retention = 9
    AlertThreshold = 9
    MaxSilence = 9
    MaxFaults = 1
    MaxOperatorRuns = 1
    MaxStationWrites = 0
    Collectors = {serve, collect}
    Files = {f1}
    Parts = {p1, p2}
    TTLCycles = 2
    MaxRevision = 3
    MaxEeaFaults = 3
    MaxDrops = 1
    Loops = {ingest}
    MaxTicks = 1
    MaxRequests = 1
    Calls = {1, 2}
    Urls = {u1}
    NoRequest = 0
    CacheLimit = 1
    MaxClears = 2
SPECIFICATION LoopsSpec
INVARIANTS
    MemoryIsSound ExitIsClean
PROPERTIES
    BacklogAlwaysDrains RecentHourHeals NoNeedlessDownload FilesSettle ShutdownEnds EveryCallEnds
CHECK_DEADLOCK FALSE
